--------------------------- MODULE FeedWorkerProofs ---------------------------
(***************************************************************************)
(* Proofs about FeedWorker, for any number of ticks, handlers, editors,    *)
(* paths and queue rows, and any budgets.                                  *)
(***************************************************************************)
EXTENDS FeedWorker, PublisherProofs

------------------------------------------------------------------------------
(* The worker goes through the seam as Publisher describes it.             *)

(* Every step of the pipeline is a step of the seam, or leaves it alone.   *)
LEMMA SeamStepOrStutter == [WorkerNext]_allvars => [Next]_vars
<1> SUFFICES ASSUME [WorkerNext]_allvars PROVE [Next]_vars
  OBVIOUS
<1> USE DEF Readers, Procs
<1>1. ASSUME NEW p \in Paths, NEW e \in EventIds, PostMutation(p, e) PROVE Next
  BY <1>1 DEF PostMutation, Next
<1>2. ASSUME NEW w \in Workers, TickStep(w) PROVE [Next]_vars
  <2>1. CASE Claim(w) \/ StatusWrite(w)
    BY <2>1 DEF Claim, StatusWrite
  <2>2. ASSUME NEW p \in Paths, TakeGroup(w, p) PROVE Next
    <3>1. (Regenerating(w, p) # {}) \in BOOLEAN
      OBVIOUS
    <3> QED BY <2>2, <3>1 DEF TakeGroup, Next
  <2>3. CASE SeamStep(w) \/ FinalizeCommitted(w) \/ FinalizeStale(w)
    <3>1. ReaderStep(w)
      BY <2>3 DEF SeamStep, FinalizeCommitted, FinalizeStale, ReaderStep
    <3> QED BY <3>1 DEF Next
  <2>4. CASE LoadForPublication(w) \/ FinalizePublication(w) \/ PublishFeed(w) \/ Ping(w)
             \/ FinishGroup(w)
    <3>1. WorkerStep(w)
      BY <2>4 DEF LoadForPublication, FinalizePublication, PublishFeed, Ping, FinishGroup,
         WorkerStep
    <3> QED BY <3>1 DEF Next
  <2> QED BY <1>2, <2>1, <2>2, <2>3, <2>4 DEF TickStep
<1>3. ASSUME NEW w \in Workers, SeamFails(w) PROVE Next
  <2>1. ReaderFails(w) \/ RepairUnconfirmed(w) \/ ReaderStep(w)
    BY <1>3 DEF SeamFails, ReaderStep
  <2> QED BY <2>1 DEF Next
<1>4. ASSUME NEW w \in Workers, TickFault(w) PROVE [Next]_vars
  BY <1>4 DEF TickFault, ClaimUnconfirmed, FinalizeUnconfirmed, FinalizeFailed, StatusWriteFails,
     TickDies, Next
<1>5. ASSUME NEW h \in Handlers, HandlerRuns(h) \/ HandlerStep(h) PROVE Next
  BY <1>5 DEF HandlerRuns, HandlerStep, Next
<1>6. ASSUME NEW e \in Editors, EditStep(e) PROVE Next
  BY <1>6 DEF EditStep, Next
<1>7. CASE (\E ids \in SUBSET Redrivable : Redrive(ids)) \/ (\E ids \in SUBSET Prunable : Prune(ids))
           \/ (\E e \in EventIds : TimePasses(e)) \/ UNCHANGED allvars
  BY <1>7 DEF Redrive, Prune, TimePasses, allvars
<1> QED BY <1>1, <1>2, <1>3, <1>4, <1>5, <1>6, <1>7 DEF WorkerNext

(* The pipeline implements the seam's specification (worker.rs,            *)
(* handlers.rs and publisher.rs together).                                 *)
THEOREM WorkerRefinesPublisher == WorkerSpec => ImplementsPublisher
<1>1. WorkerInit => Init
  BY DEF WorkerInit
<1> QED BY <1>1, SeamStepOrStutter, PTL DEF WorkerSpec, ImplementsPublisher, Spec

(* What the seam promises therefore holds of the worker with its queue,    *)
(* the claim, retries and dying ticks included (FeedWorker::tick through   *)
(* PublisherService): rows and pings belong to the stored configuration,   *)
(* and the publications are those of FeedPublication.                      *)
THEOREM WorkerPublishesCurrent ==
  WorkerSpec => []CacheFromCurrentConfig /\ []PingsAreCurrent /\ ImplementsPublication
  BY WorkerRefinesPublisher, CacheIsCurrent, PingsCurrent, Implementation, PTL
  DEF ImplementsPublisher

------------------------------------------------------------------------------
(* The queue.                                                              *)

(* A stored row is a row, and nothing else is.                             *)
LEMMA StoredRows ==
  ASSUME EventsTypeOK
  PROVE  \A e \in EventIds : e \in Stored <=> events[e] \in EventRows
  BY RowsAssumption DEF EventsTypeOK, Stored

(* What each status write makes of a row.                                  *)
After(op, old, new) ==
  /\ new \in EventRows /\ new.path = old.path
  /\ op = "mark_regenerated" =>
       /\ new.status = old.status /\ new.phase = "publication"
       /\ new.regeneration_attempts = old.regeneration_attempts
       /\ new.publication_attempts = old.publication_attempts
  /\ op = "mark_pinged" =>
       /\ new.status = "done" /\ new.phase = old.phase
       /\ new.regeneration_attempts = old.regeneration_attempts
       /\ new.publication_attempts = old.publication_attempts
  /\ op = "restart_regeneration" =>
       /\ new.status = "pending" /\ new.phase = "regeneration"
       /\ new.regeneration_attempts = 0
       /\ new.publication_attempts = old.publication_attempts
  /\ op \in {"retry_regeneration", "dead_letter_regeneration"} =>
       /\ new.status = IF op = "retry_regeneration" THEN "pending" ELSE "failed"
       /\ new.phase = "regeneration"
       /\ new.regeneration_attempts = old.regeneration_attempts + 1
       /\ new.publication_attempts = old.publication_attempts
  /\ op \in {"retry_publication", "dead_letter_publication"} =>
       /\ new.status = IF op = "retry_publication" THEN "pending" ELSE "failed"
       /\ new.phase = "publication"
       /\ new.regeneration_attempts = old.regeneration_attempts
       /\ new.publication_attempts = old.publication_attempts + 1

(* A write changes the stored rows it names, in its way, and no other.     *)
Wrote(op, ids) ==
  /\ EventsTypeOK'
  /\ \A e \in EventIds :
       IF e \in ids \cap Stored THEN After(op, events[e], events'[e])
                                ELSE events'[e] = events[e]

(* Rows that are rewritten by a function of the row stay rows.             *)
LEMMA UpdateTyped ==
  ASSUME EventsTypeOK, NEW op, NEW ids,
         \A e \in EventIds :
           IF e \in ids \cap Stored THEN After(op, events[e], events'[e])
                                    ELSE events'[e] = events[e],
         DOMAIN events' = EventIds, events' = [e \in EventIds |-> events'[e]]
  PROVE  Wrote(op, ids)
  BY DEF EventsTypeOK, After, Wrote

(* Each status write does to the rows what After says.                     *)
LEMMA WriteEffects ==
  ASSUME EventsTypeOK, NEW ids
  PROVE  /\ MarkRegenerated(ids) => Wrote("mark_regenerated", ids)
         /\ MarkPinged(ids) => Wrote("mark_pinged", ids)
         /\ RetryRegeneration(ids) => Wrote("retry_regeneration", ids)
         /\ DeadLetterRegeneration(ids) => Wrote("dead_letter_regeneration", ids)
         /\ RetryPublication(ids) => Wrote("retry_publication", ids)
         /\ DeadLetterPublication(ids) => Wrote("dead_letter_publication", ids)
         /\ RestartRegeneration(ids) => Wrote("restart_regeneration", ids)
<1>1. ASSUME MarkRegenerated(ids) PROVE Wrote("mark_regenerated", ids)
  <2>1. events' = [e \in EventIds |-> IF e \in ids \cap Stored
                     THEN [events[e] EXCEPT !.phase = "publication"]
                     ELSE events[e]]
    BY <1>1 DEF MarkRegenerated, UpdateRows
  <2>2. \A e \in EventIds : IF e \in ids \cap Stored THEN After("mark_regenerated", events[e], events'[e])
                            ELSE events'[e] = events[e]
    BY <2>1, StoredRows DEF After, EventRows
  <2> QED BY <2>1, <2>2, UpdateTyped
<1>2. ASSUME MarkPinged(ids) PROVE Wrote("mark_pinged", ids)
  <2>1. events' = [e \in EventIds |-> IF e \in ids \cap Stored
                     THEN [events[e] EXCEPT !.status = "done", !.ripe = TRUE]
                     ELSE events[e]]
    BY <1>2 DEF MarkPinged, UpdateRows
  <2>2. \A e \in EventIds : IF e \in ids \cap Stored THEN After("mark_pinged", events[e], events'[e])
                            ELSE events'[e] = events[e]
    BY <2>1, StoredRows DEF After, EventRows
  <2> QED BY <2>1, <2>2, UpdateTyped
<1>3. ASSUME RetryRegeneration(ids) PROVE Wrote("retry_regeneration", ids)
  <2>1. events' = [e \in EventIds |-> IF e \in ids \cap Stored
                     THEN [events[e] EXCEPT !.status = "pending", !.phase = "regeneration",
                                         !.regeneration_attempts = @ + 1, !.ripe = FALSE]
                     ELSE events[e]]
    BY <1>3 DEF RetryRegeneration, UpdateRows
  <2>2. \A e \in EventIds : IF e \in ids \cap Stored THEN After("retry_regeneration", events[e], events'[e])
                            ELSE events'[e] = events[e]
    <3> SUFFICES ASSUME NEW e \in EventIds, e \in ids \cap Stored
                 PROVE  After("retry_regeneration", events[e], events'[e])
      BY <2>1
    <3>1. events[e] \in EventRows /\ events[e].regeneration_attempts + 1 \in Nat
      BY StoredRows DEF EventRows
    <3>2. events'[e] = [events[e] EXCEPT !.status = "pending", !.phase = "regeneration",
                                         !.regeneration_attempts = events[e].regeneration_attempts + 1, !.ripe = FALSE]
      BY <2>1
    <3> QED BY <3>1, <3>2 DEF After, EventRows
  <2> QED BY <2>1, <2>2, UpdateTyped
<1>4. ASSUME DeadLetterRegeneration(ids) PROVE Wrote("dead_letter_regeneration", ids)
  <2>1. events' = [e \in EventIds |-> IF e \in ids \cap Stored
                     THEN [events[e] EXCEPT !.status = "failed", !.phase = "regeneration",
                                         !.regeneration_attempts = @ + 1, !.ripe = FALSE]
                     ELSE events[e]]
    BY <1>4 DEF DeadLetterRegeneration, UpdateRows
  <2>2. \A e \in EventIds : IF e \in ids \cap Stored THEN After("dead_letter_regeneration", events[e], events'[e])
                            ELSE events'[e] = events[e]
    <3> SUFFICES ASSUME NEW e \in EventIds, e \in ids \cap Stored
                 PROVE  After("dead_letter_regeneration", events[e], events'[e])
      BY <2>1
    <3>1. events[e] \in EventRows /\ events[e].regeneration_attempts + 1 \in Nat
      BY StoredRows DEF EventRows
    <3>2. events'[e] = [events[e] EXCEPT !.status = "failed", !.phase = "regeneration",
                                         !.regeneration_attempts = events[e].regeneration_attempts + 1, !.ripe = FALSE]
      BY <2>1
    <3> QED BY <3>1, <3>2 DEF After, EventRows
  <2> QED BY <2>1, <2>2, UpdateTyped
<1>5. ASSUME RetryPublication(ids) PROVE Wrote("retry_publication", ids)
  <2>1. events' = [e \in EventIds |-> IF e \in ids \cap Stored
                     THEN [events[e] EXCEPT !.status = "pending", !.phase = "publication",
                                         !.publication_attempts = @ + 1, !.ripe = FALSE]
                     ELSE events[e]]
    BY <1>5 DEF RetryPublication, UpdateRows
  <2>2. \A e \in EventIds : IF e \in ids \cap Stored THEN After("retry_publication", events[e], events'[e])
                            ELSE events'[e] = events[e]
    <3> SUFFICES ASSUME NEW e \in EventIds, e \in ids \cap Stored
                 PROVE  After("retry_publication", events[e], events'[e])
      BY <2>1
    <3>1. events[e] \in EventRows /\ events[e].publication_attempts + 1 \in Nat
      BY StoredRows DEF EventRows
    <3>2. events'[e] = [events[e] EXCEPT !.status = "pending", !.phase = "publication",
                                         !.publication_attempts = events[e].publication_attempts + 1, !.ripe = FALSE]
      BY <2>1
    <3> QED BY <3>1, <3>2 DEF After, EventRows
  <2> QED BY <2>1, <2>2, UpdateTyped
<1>6. ASSUME DeadLetterPublication(ids) PROVE Wrote("dead_letter_publication", ids)
  <2>1. events' = [e \in EventIds |-> IF e \in ids \cap Stored
                     THEN [events[e] EXCEPT !.status = "failed", !.phase = "publication",
                                         !.publication_attempts = @ + 1, !.ripe = FALSE]
                     ELSE events[e]]
    BY <1>6 DEF DeadLetterPublication, UpdateRows
  <2>2. \A e \in EventIds : IF e \in ids \cap Stored THEN After("dead_letter_publication", events[e], events'[e])
                            ELSE events'[e] = events[e]
    <3> SUFFICES ASSUME NEW e \in EventIds, e \in ids \cap Stored
                 PROVE  After("dead_letter_publication", events[e], events'[e])
      BY <2>1
    <3>1. events[e] \in EventRows /\ events[e].publication_attempts + 1 \in Nat
      BY StoredRows DEF EventRows
    <3>2. events'[e] = [events[e] EXCEPT !.status = "failed", !.phase = "publication",
                                         !.publication_attempts = events[e].publication_attempts + 1, !.ripe = FALSE]
      BY <2>1
    <3> QED BY <3>1, <3>2 DEF After, EventRows
  <2> QED BY <2>1, <2>2, UpdateTyped
<1>7. ASSUME RestartRegeneration(ids) PROVE Wrote("restart_regeneration", ids)
  <2>1. events' = [e \in EventIds |-> IF e \in ids \cap Stored
                     THEN [events[e] EXCEPT !.status = "pending", !.phase = "regeneration",
                                         !.regeneration_attempts = 0, !.ripe = TRUE]
                     ELSE events[e]]
    BY <1>7 DEF RestartRegeneration, UpdateRows
  <2>2. \A e \in EventIds : IF e \in ids \cap Stored THEN After("restart_regeneration", events[e], events'[e])
                            ELSE events'[e] = events[e]
    BY <2>1, StoredRows DEF After, EventRows
  <2> QED BY <2>1, <2>2, UpdateTyped
<1> QED BY <1>1, <1>2, <1>3, <1>4, <1>5, <1>6, <1>7

(* Any status write a tick makes.                                          *)
LEMMA Performed ==
  ASSUME EventsTypeOK, NEW wr \in Writes, Perform(wr)
  PROVE  Wrote(wr.op, wr.ids)
<1>0. wr.op \in Ops
  BY DEF Writes
<1>1. CASE wr.op = "mark_regenerated"
  BY <1>1, WriteEffects DEF Perform
<1>2. CASE wr.op = "mark_pinged"
  BY <1>2, WriteEffects DEF Perform
<1>3. CASE wr.op = "retry_regeneration"
  BY <1>3, WriteEffects DEF Perform
<1>4. CASE wr.op = "dead_letter_regeneration"
  BY <1>4, WriteEffects DEF Perform
<1>5. CASE wr.op = "retry_publication"
  BY <1>5, WriteEffects DEF Perform
<1>6. CASE wr.op = "dead_letter_publication"
  BY <1>6, WriteEffects DEF Perform
<1>7. CASE wr.op = "restart_regeneration"
  BY <1>7, WriteEffects DEF Perform
<1> QED BY <1>0, <1>1, <1>2, <1>3, <1>4, <1>5, <1>6, <1>7 DEF Ops

(* What can become of an id: rows keep their path, ids are not reused.     *)
Evolves ==
  /\ EventsTypeOK'
  /\ \A e \in EventIds :
       \/ events'[e] = events[e]
       \/ e \in Stored /\ events'[e] = Deleted
       \/ e \in Stored /\ events'[e] \in EventRows /\ events'[e].path = events[e].path
       \/ events[e] = Unused /\ \E p \in Paths : events'[e] = NewEvent(p)

(* A status write.                                                         *)
LEMMA WroteEvolves ==
  ASSUME EventsTypeOK, NEW op, NEW ids, Wrote(op, ids)
  PROVE  Evolves
  BY StoredRows DEF Wrote, After, Evolves

(* A claim: the rows taken are claimed with their phase and attempts, the  *)
(* ones that do not decode may be purged.                                  *)
LEMMA ClaimRows ==
  ASSUME EventsTypeOK, NEW ids, NEW purged, ClaimPendingBatch(ids, purged)
  PROVE  /\ EventsTypeOK' /\ ids \subseteq Claimable /\ purged \subseteq ids
         /\ \A e \in purged : events[e].path = Corrupt /\ events'[e] = Deleted
         /\ \A e \in ids \ purged :
              /\ events'[e] \in EventRows
              /\ events'[e].status = "claimed"
              /\ events'[e].path = events[e].path /\ events'[e].phase = events[e].phase
              /\ events'[e].regeneration_attempts = events[e].regeneration_attempts
              /\ events'[e].publication_attempts = events[e].publication_attempts
         /\ \A e \in EventIds \ ids : events'[e] = events[e]
<1>1. ids \subseteq Claimable /\ purged \subseteq ids /\ \A e \in purged : events[e].path = Corrupt
  BY DEF ClaimPendingBatch, Batch, Decodable
<1>2. ids \subseteq EventIds /\ \A e \in ids : events[e] \in EventRows
  BY <1>1, StoredRows DEF Claimable, Stored
<1>3. /\ \A e \in purged : events'[e] = Deleted
      /\ \A e \in ids \ purged : events'[e] = ClaimRow(events[e])
      /\ \A e \in EventIds \ ids : events'[e] = events[e]
      /\ events' = [e \in EventIds |-> events'[e]]
  BY <1>1, <1>2 DEF ClaimPendingBatch
<1>4. \A e \in ids \ purged :
        /\ events'[e] \in EventRows
        /\ events'[e].status = "claimed"
        /\ events'[e].path = events[e].path /\ events'[e].phase = events[e].phase
        /\ events'[e].regeneration_attempts = events[e].regeneration_attempts
        /\ events'[e].publication_attempts = events[e].publication_attempts
  <2> SUFFICES ASSUME NEW e \in ids \ purged
               PROVE  /\ events'[e] \in EventRows
                      /\ events'[e].status = "claimed"
                      /\ events'[e].path = events[e].path /\ events'[e].phase = events[e].phase
                      /\ events'[e].regeneration_attempts = events[e].regeneration_attempts
                      /\ events'[e].publication_attempts = events[e].publication_attempts
    OBVIOUS
  <2>1. events[e] \in EventRows /\ events'[e] = [events[e] EXCEPT !.status = "claimed", !.ripe = FALSE]
    BY <1>2, <1>3 DEF ClaimRow
  <2> QED BY <2>1 DEF EventRows
<1>5. EventsTypeOK'
  <2>1. \A e \in EventIds : events'[e] \in EventRows \cup {Unused, Deleted}
    BY <1>1, <1>2, <1>3, <1>4 DEF EventsTypeOK
  <2> QED BY <2>1, <1>3 DEF EventsTypeOK
<1> QED BY <1>1, <1>3, <1>4, <1>5

(* An operator's redrive gives dead letters back to the worker.            *)
LEMMA RedriveRows ==
  ASSUME EventsTypeOK, NEW ids, RedriveDeadLetters(ids)
  PROVE  /\ EventsTypeOK' /\ ids \subseteq Redrivable
         /\ \A e \in ids :
              /\ events'[e] \in EventRows
              /\ events'[e].status = "pending"
              /\ events'[e].path = events[e].path /\ events'[e].phase = events[e].phase
              /\ events'[e].regeneration_attempts =
                   IF events[e].phase = "regeneration" THEN 0
                                                       ELSE events[e].regeneration_attempts
              /\ events'[e].publication_attempts =
                   IF events[e].phase = "publication" THEN 0
                                                      ELSE events[e].publication_attempts
         /\ \A e \in EventIds \ ids : events'[e] = events[e]
<1>1. ids \subseteq Redrivable
  BY DEF RedriveDeadLetters
<1>2. ids \subseteq EventIds /\ ids \subseteq Stored /\ \A e \in ids : events[e] \in EventRows
  BY <1>1, StoredRows DEF Redrivable, Stored
<1>3. events' = [e \in EventIds |->
        IF e \in ids \cap Stored
          THEN [events[e] EXCEPT
                  !.status = "pending",
                  !.regeneration_attempts = IF events[e].phase = "regeneration" THEN 0 ELSE @,
                  !.publication_attempts = IF events[e].phase = "publication" THEN 0 ELSE @,
                  !.ripe = TRUE]
          ELSE events[e]]
  BY DEF RedriveDeadLetters, UpdateRows
<1>4. \A e \in ids :
        /\ events'[e] \in EventRows
        /\ events'[e].status = "pending"
        /\ events'[e].path = events[e].path /\ events'[e].phase = events[e].phase
        /\ events'[e].regeneration_attempts =
             IF events[e].phase = "regeneration" THEN 0 ELSE events[e].regeneration_attempts
        /\ events'[e].publication_attempts =
             IF events[e].phase = "publication" THEN 0 ELSE events[e].publication_attempts
  BY <1>2, <1>3 DEF EventRows
<1>5. \A e \in EventIds \ ids : events'[e] = events[e]
  BY <1>3
<1>6. EventsTypeOK'
  BY <1>2, <1>3, <1>4, <1>5 DEF EventsTypeOK
<1> QED BY <1>1, <1>4, <1>5, <1>6

(* Retention deletes terminal rows.                                        *)
LEMMA PruneRows ==
  ASSUME EventsTypeOK, NEW ids, PruneTerminalEvents(ids)
  PROVE  /\ EventsTypeOK' /\ ids \subseteq Prunable
         /\ \A e \in ids : events'[e] = Deleted
         /\ \A e \in EventIds \ ids : events'[e] = events[e]
  BY DEF PruneTerminalEvents, DeleteRows, Prunable, Stored, EventsTypeOK

(* Time makes a row ripe and changes nothing else.                         *)
LEMMA ElapseRows ==
  ASSUME EventsTypeOK, NEW i \in EventIds, Elapse(i)
  PROVE  /\ EventsTypeOK' /\ i \in Stored
         /\ events'[i] \in EventRows
         /\ events'[i].path = events[i].path /\ events'[i].phase = events[i].phase
         /\ events'[i].status = events[i].status
         /\ events'[i].regeneration_attempts = events[i].regeneration_attempts
         /\ events'[i].publication_attempts = events[i].publication_attempts
         /\ \A e \in EventIds \ {i} : events'[e] = events[e]
<1>1. i \in Stored /\ events[i] \in EventRows
  BY StoredRows DEF Elapse
<1>2. events' = [events EXCEPT ![i] = [events[i] EXCEPT !.ripe = TRUE]]
  BY DEF Elapse
<1> QED BY <1>1, <1>2 DEF EventsTypeOK, EventRows

------------------------------------------------------------------------------
(* The inductive invariant.                                                *)

(* The change an event was enqueued for has been in the cache, or the row  *)
(* is gone.  Once true of an id it stays true: ids are not reused, rows    *)
(* keep their path and reached only grows.                                 *)
Fulfilled(e) ==
  /\ events[e] # Unused
  /\ (e \in Stored /\ events[e].path \in Paths) => reached[events[e].path] >= due[e]

(* A row gets past regeneration only when it is fulfilled.                 *)
RowsFulfilled ==
  \A e \in Stored : (events[e].phase = "publication" \/ events[e].status = "done") => Fulfilled(e)

(* No event is ahead of the posts.                                         *)
DueInPast ==
  \A e \in Stored : events[e].path \in Paths => due[e] <= content[events[e].path]

(* A feed whose newest change has not been in the cache has the event of   *)
(* that change, or lost a dead letter to retention.                        *)
NewestQueued ==
  \A p \in Paths :
    reached[p] < content[p] =>
      \/ p \in abandoned
      \/ \E e \in Stored : events[e].path = p /\ due[e] = content[p]

(* What a tick knows of its rows, however stale its copy is: the path, and *)
(* that a row claimed for publication was fulfilled.                       *)
CopiesSound(w) ==
  \A e \in Claimed(w) :
    /\ events[e] # Unused
    /\ batch[w][e].path \in Paths
    /\ e \in Stored => events[e].path = batch[w][e].path
    /\ batch[w][e].phase = "publication" => Fulfilled(e)

(* The writes that take a row past regeneration.                           *)
Advances == {"mark_regenerated", "mark_pinged", "retry_publication", "dead_letter_publication"}
WritesSound(w) ==
  \A wr \in todo[w] : wr.op \in Advances => \A e \in wr.ids : Fulfilled(e)

(* Publication of a group begins when all of it is fulfilled.              *)
PublishesFulfilled(w) ==
  pc[w] \in {"publish", "pinging"} => \A e \in Group(w) : Fulfilled(e)

(* What is about to be committed has every change of the group in it.      *)
DraftCovers(w) ==
  (pc[w] \in {"gate", "finalize"} /\ regen[w]) =>
    /\ draft[w] \in Rows
    /\ \A e \in Group(w) : e \in Stored => draft[w].version >= due[e]

(* A group that only republishes has no row that must be regenerated.      *)
RepublishesOnly(w) ==
  (pc[w] # "idle" /\ ~regen[w]) => Regenerating(w, target[w]) = {}

(* A plan of status writes: it concerns rows of the group, each row once,  *)
(* and retries only rows whose copy has budget left.                       *)
Planned(w, writes, at) ==
  /\ writes # {} => at \in {"publish", "settle"}
  /\ \A wr \in writes :
       /\ wr.ids \subseteq Group(w)
       /\ wr.op = "mark_regenerated" <=> at = "publish"
       /\ wr.op = "retry_regeneration" =>
            \A e \in wr.ids : batch[w][e].regeneration_attempts < RegenBudget
       /\ wr.op = "retry_publication" =>
            \A e \in wr.ids : batch[w][e].publication_attempts < PublicationBudget
  /\ \A wr, x \in writes : wr # x => wr.ids \cap x.ids = {}

TickInv(w) ==
  /\ CopiesSound(w) /\ WritesSound(w) /\ PublishesFulfilled(w)
  /\ DraftCovers(w) /\ RepublishesOnly(w)
  /\ Planned(w, todo[w], pc[w])

WorkerInv ==
  /\ WorkerTypeOK
  /\ RowsFulfilled /\ DueInPast /\ NewestQueued
  /\ \A w \in Workers : TickInv(w)

------------------------------------------------------------------------------
(* With ticks that do not overlap.                                         *)

(* The claimed rows whose outcome the tick has still to record.            *)
Pending(w) ==
  {e \in Claimed(w) : pc[w] # "settle" \/ e \notin Group(w) \/ \E wr \in todo[w] : e \in wr.ids}

(* They are as the claim left them: nobody else writes to them.            *)
PendingUntouched(w) ==
  \A e \in Pending(w) :
    /\ e \in Stored
    /\ events[e].status = "claimed"
    /\ events[e].regeneration_attempts = batch[w][e].regeneration_attempts
    /\ events[e].publication_attempts = batch[w][e].publication_attempts



(* The budgets, with the phase a dead letter died in.                      *)
WithinBudgets ==
  \A e \in Stored :
    /\ events[e].regeneration_attempts <=
         IF events[e].status = "failed" /\ events[e].phase = "regeneration"
           THEN RegenBudget + 1 ELSE RegenBudget
    /\ events[e].publication_attempts <=
         IF events[e].status = "failed" /\ events[e].phase = "publication"
           THEN PublicationBudget + 1 ELSE PublicationBudget

Serial == \A v, w \in Workers : v = w

SerialInv ==
  /\ WorkerInv
  /\ WithinBudgets
  /\ \A w \in Workers : PendingUntouched(w)

(* With neither overlapping ticks nor cache misses the cache never goes    *)
(* back to an older representation.                                        *)
CacheIsNewest ==
  /\ \A p \in Paths : reached[p] <= content[p] /\ (cache[p] # NoRow => cache[p].version = reached[p])
  /\ \A w \in Workers :
       (pc[w] \in {"gate", "finalize"} /\ regen[w]) =>
         draft[w].version >= reached[target[w]] /\ draft[w].version <= content[target[w]]

------------------------------------------------------------------------------
(* The status writes a tick plans.                                         *)

(* One write, or none when it names no row.                                *)
LEMMA WritePlan ==
  ASSUME NEW op \in Ops, NEW ids \in SUBSET EventIds
  PROVE  /\ Write(op, ids) \subseteq Writes
         /\ \A wr \in Write(op, ids) : wr.op = op /\ wr.ids = ids
         /\ \A wr, x \in Write(op, ids) : wr = x
  BY DEF Write, Writes

(* partition_retry_attempts: every row gets one outcome, and a retry only  *)
(* if its copy has attempts left.                                          *)
LEMMA PartitionPlan ==
  ASSUME NEW w, NEW ids \in SUBSET EventIds, NEW attempts \in [ids -> Nat], NEW budget \in Nat,
         NEW retry \in Ops, NEW deadLetter \in Ops, retry # deadLetter
  PROVE  /\ Partition(w, ids, attempts, budget, retry, deadLetter) \subseteq Writes
         /\ \A wr \in Partition(w, ids, attempts, budget, retry, deadLetter) :
              /\ wr.op \in {retry, deadLetter} /\ wr.ids \subseteq ids
              /\ wr.op = retry => \A e \in wr.ids : attempts[e] < budget
         /\ \A wr, x \in Partition(w, ids, attempts, budget, retry, deadLetter) :
              wr # x => wr.ids \cap x.ids = {}
<1> DEFINE plan == Partition(w, ids, attempts, budget, retry, deadLetter)
           exhausted == {e \in ids : attempts[e] >= budget}
           bucket(n) == {e \in ids \ exhausted : attempts[e] = n}
<1>1. ASSUME NEW wr \in plan
      PROVE  \/ wr = [op |-> deadLetter, ids |-> exhausted]
             \/ \E n : wr = [op |-> retry, ids |-> bucket(n)]
  <2>1. plan = Write(deadLetter, exhausted)
                 \cup UNION {Write(retry, bucket(n)) : n \in {attempts[e] : e \in ids \ exhausted}}
    BY DEF Partition
  <2>2. CASE wr \in Write(deadLetter, exhausted)
    BY <2>2 DEF Write
  <2>3. ASSUME NEW n, wr \in Write(retry, bucket(n)) PROVE wr = [op |-> retry, ids |-> bucket(n)]
    BY <2>3 DEF Write
  <2> QED BY <1>1, <2>1, <2>2, <2>3
<1>2. exhausted \subseteq ids /\ \A n : bucket(n) \subseteq ids
  OBVIOUS
<1>3. \A n : \A e \in bucket(n) : attempts[e] < budget /\ attempts[e] = n /\ e \notin exhausted
  OBVIOUS
<1>4. ASSUME NEW wr \in plan
      PROVE  /\ wr \in Writes
             /\ wr.op \in {retry, deadLetter} /\ wr.ids \subseteq ids
             /\ wr.op = retry => \A e \in wr.ids : attempts[e] < budget
  <2> HIDE DEF exhausted, bucket, plan
  <2>1. CASE wr = [op |-> deadLetter, ids |-> exhausted]
    BY <2>1, <1>2 DEF Writes
  <2>2. ASSUME NEW n, wr = [op |-> retry, ids |-> bucket(n)]
        PROVE  /\ wr \in Writes
               /\ wr.op \in {retry, deadLetter} /\ wr.ids \subseteq ids
               /\ \A e \in wr.ids : attempts[e] < budget
    BY <2>2, <1>2, <1>3 DEF Writes
  <2> QED BY <1>1, <2>1, <2>2
<1>5. ASSUME NEW wr \in plan, NEW x \in plan, wr # x PROVE wr.ids \cap x.ids = {}
  <2> HIDE DEF exhausted, bucket, plan
  <2>1. \A y \in plan : \/ y.ids = exhausted /\ y = [op |-> deadLetter, ids |-> exhausted]
                        \/ \E n : y.ids = bucket(n) /\ y = [op |-> retry, ids |-> bucket(n)]
    BY <1>1
  <2> QED BY <2>1, <1>3, <1>5
<1> QED BY <1>4, <1>5

(* The rows of a group are rows of the batch.                              *)
LEMMA GroupRows ==
  ASSUME WorkerTypeOK, NEW w \in Workers
  PROVE  /\ \A e \in Claimed(w) : e \in EventIds /\ batch[w][e] \in EventRows
         /\ \A p : Regenerating(w, p) \subseteq GroupOf(w, p) /\ GroupOf(w, p) \subseteq Claimed(w)
         /\ Group(w) \subseteq Claimed(w) /\ Regenerating(w, target[w]) \subseteq Group(w)
  BY DEF WorkerTypeOK, Claimed, GroupOf, Group, Regenerating

(* The retries of a failed regeneration.                                   *)
LEMMA RegenerationPlan ==
  ASSUME WorkerTypeOK, NEW w \in Workers, NEW ids, ids \subseteq Claimed(w)
  PROVE  /\ RegenerationRetries(w, ids) \subseteq Writes
         /\ \A wr \in RegenerationRetries(w, ids) :
              /\ wr.op \in {"retry_regeneration", "dead_letter_regeneration"}
              /\ wr.ids \subseteq ids
              /\ wr.op = "retry_regeneration" =>
                   \A e \in wr.ids : batch[w][e].regeneration_attempts < RegenBudget
         /\ \A wr, x \in RegenerationRetries(w, ids) : wr # x => wr.ids \cap x.ids = {}
<1> DEFINE attempts == [e \in ids |-> batch[w][e].regeneration_attempts]
<1>1. ids \in SUBSET EventIds /\ attempts \in [ids -> Nat]
  BY GroupRows DEF EventRows
<1>2. RegenerationRetries(w, ids) = Partition(w, ids, attempts, RegenBudget,
        "retry_regeneration", "dead_letter_regeneration")
  BY DEF RegenerationRetries
<1>3. \A e \in ids : attempts[e] = batch[w][e].regeneration_attempts
  OBVIOUS
<1>4. RegenBudget \in Nat /\ "retry_regeneration" \in Ops /\ "dead_letter_regeneration" \in Ops
      /\ "retry_regeneration" # "dead_letter_regeneration"
  BY QueueAssumption DEF Ops
<1> DEFINE plan == Partition(w, ids, attempts, RegenBudget,
                             "retry_regeneration", "dead_letter_regeneration")
<1> HIDE DEF attempts
<1>5. /\ plan \subseteq Writes
      /\ \A wr \in plan :
           /\ wr.op \in {"retry_regeneration", "dead_letter_regeneration"} /\ wr.ids \subseteq ids
           /\ wr.op = "retry_regeneration" => \A e \in wr.ids : attempts[e] < RegenBudget
      /\ \A wr, x \in plan : wr # x => wr.ids \cap x.ids = {}
  BY <1>1, <1>4, PartitionPlan, Zenon
<1>6. RegenerationRetries(w, ids) = plan
  BY <1>2
<1> HIDE DEF plan
<1> QED BY <1>3, <1>5, <1>6

(* The retries of a refused ping.                                          *)
LEMMA PublicationPlan ==
  ASSUME WorkerTypeOK, NEW w \in Workers, NEW ids, ids \subseteq Claimed(w)
  PROVE  /\ PublicationRetries(w, ids) \subseteq Writes
         /\ \A wr \in PublicationRetries(w, ids) :
              /\ wr.op \in {"retry_publication", "dead_letter_publication"}
              /\ wr.ids \subseteq ids
              /\ wr.op = "retry_publication" =>
                   \A e \in wr.ids : batch[w][e].publication_attempts < PublicationBudget
         /\ \A wr, x \in PublicationRetries(w, ids) : wr # x => wr.ids \cap x.ids = {}
<1> DEFINE attempts == [e \in ids |-> batch[w][e].publication_attempts]
<1>1. ids \in SUBSET EventIds /\ attempts \in [ids -> Nat]
  BY GroupRows DEF EventRows
<1>2. PublicationRetries(w, ids) = Partition(w, ids, attempts, PublicationBudget,
        "retry_publication", "dead_letter_publication")
  BY DEF PublicationRetries
<1>3. \A e \in ids : attempts[e] = batch[w][e].publication_attempts
  OBVIOUS
<1>4. PublicationBudget \in Nat /\ "retry_publication" \in Ops /\ "dead_letter_publication" \in Ops
      /\ "retry_publication" # "dead_letter_publication"
  BY QueueAssumption DEF Ops
<1> DEFINE plan == Partition(w, ids, attempts, PublicationBudget,
                             "retry_publication", "dead_letter_publication")
<1> HIDE DEF attempts
<1>5. /\ plan \subseteq Writes
      /\ \A wr \in plan :
           /\ wr.op \in {"retry_publication", "dead_letter_publication"} /\ wr.ids \subseteq ids
           /\ wr.op = "retry_publication" => \A e \in wr.ids : attempts[e] < PublicationBudget
      /\ \A wr, x \in plan : wr # x => wr.ids \cap x.ids = {}
  BY <1>1, <1>4, PartitionPlan, Zenon
<1>6. PublicationRetries(w, ids) = plan
  BY <1>2
<1> HIDE DEF plan
<1> QED BY <1>3, <1>5, <1>6

------------------------------------------------------------------------------
(* What every step respects.                                               *)

(* Ids are not reused, rows keep their path and the version they are for,  *)
(* posts and cache only advance.                                           *)
Progress ==
  /\ Evolves
  /\ \A e \in EventIds : events[e] # Unused => due'[e] = due[e]
  /\ \A p \in Paths : reached'[p] >= reached[p] /\ content'[p] >= content[p]

(* The posts of a feed only ever gain versions.                            *)
LEMMA ContentGrows ==
  ASSUME TypeOK, [Next]_vars
  PROVE  \A p \in Paths : content'[p] >= content[p]
<1>1. CASE \E p \in Paths : PostChange(p)
  BY <1>1 DEF PostChange, TypeOK
<1>2. CASE UNCHANGED content
  BY <1>2 DEF TypeOK
<1>3. ASSUME NEW r \in Readers, ReaderStep(r) PROVE UNCHANGED content
  BY <1>3 DEF ReaderStep, ReadSnapshot, RepairGate, Repair, Resnapshot, Render, BaseUrlRequired,
     FinalizationGuard, CommitCache, CommitStale
<1>4. ASSUME NEW w \in Workers, WorkerStep(w) PROVE UNCHANGED content
  BY <1>4 DEF WorkerStep, LoadCached, CheckCurrent, Publish, PingReturns, EndGroup
<1>5. ASSUME NEW e \in Editors, EditorStep(e) PROVE UNCHANGED content
  BY <1>5 DEF EditorStep, EditGate, Mutate
<1>6. UNCHANGED content \/ \E p \in Paths : PostChange(p)
  BY <1>3, <1>4, <1>5 DEF Next, BeginGroup, CacheMiss, RepairUnconfirmed, ReaderFails,
     CommitUnconfirmed, FinalizeFails, RequestEdit, MutateUnconfirmed, Abort, vars
<1> QED BY <1>1, <1>2, <1>6

(* What a commit makes of the record of versions served.                   *)
LEMMA ReachGrows ==
  ASSUME WorkerTypeOK, TypeOK', NEW p \in Paths, Reach(p)
  PROVE  /\ reached' \in [Paths -> Nat]
         /\ \A q \in Paths : reached'[q] >= reached[q] /\ (q # p => reached'[q] = reached[q])
         /\ cache'[p] # NoRow => reached'[p] >= cache'[p].version
         /\ reached'[p] = reached[p] \/ (cache'[p] # NoRow /\ reached'[p] = cache'[p].version)
<1>1. cache'[p] # NoRow => cache'[p].version \in Nat
  BY DEF TypeOK, Rows
<1> QED BY <1>1 DEF WorkerTypeOK, Reach

(* One outcome for the whole group, or for the rows it regenerated.        *)
LEMMA GroupPlan ==
  ASSUME WorkerTypeOK, NEW w \in Workers, NEW op \in Ops
  PROVE  /\ Write(op, Group(w)) \subseteq Writes
         /\ Write(op, Regenerating(w, target[w])) \subseteq Writes
         /\ \A wr \in Write(op, Group(w)) : wr.op = op /\ wr.ids = Group(w)
         /\ \A wr \in Write(op, Regenerating(w, target[w])) :
              wr.op = op /\ wr.ids = Regenerating(w, target[w])
         /\ \A wr, x \in Write(op, Group(w)) : wr = x
         /\ \A wr, x \in Write(op, Regenerating(w, target[w])) : wr = x
<1>1. Group(w) \in SUBSET EventIds /\ Regenerating(w, target[w]) \in SUBSET EventIds
  BY GroupRows
<1> QED BY <1>1, WritePlan

(* A step that leaves the rows alone.                                      *)
LEMMA RowsKept ==
  ASSUME WorkerTypeOK, [Next]_vars, UNCHANGED <<events, due, abandoned, redrives>>,
         lost' \in Nat,
         batch' \in [Workers -> [EventIds -> EventRows \cup {Unused}]],
         todo' \in [Workers -> SUBSET Writes],
         UNCHANGED reached \/ \E p \in Paths : Reach(p)
  PROVE  WorkerTypeOK' /\ Progress
<1>1. TypeOK /\ TypeOK'
  BY TypeStep DEF WorkerTypeOK
<1>2. \A p \in Paths : content'[p] >= content[p]
  BY <1>1, ContentGrows
<1>3. reached' \in [Paths -> Nat] /\ \A p \in Paths : reached'[p] >= reached[p]
  <2>1. CASE UNCHANGED reached
    BY <2>1 DEF WorkerTypeOK
  <2>2. CASE \E p \in Paths : Reach(p)
    BY <1>1, <2>2, ReachGrows
  <2> QED BY <2>1, <2>2
<1>4. EventsTypeOK'
  BY DEF WorkerTypeOK, EventsTypeOK
<1>5. WorkerTypeOK'
  BY <1>1, <1>3, <1>4 DEF WorkerTypeOK
<1> QED BY <1>2, <1>3, <1>4, <1>5 DEF Progress, Evolves

(* A step that changes rows and nothing of the seam or the history.        *)
LEMMA RowsChanged ==
  ASSUME WorkerTypeOK, Evolves, UNCHANGED <<vars, due, reached>>,
         abandoned' \subseteq Paths, redrives' \in Nat, lost' \in Nat,
         batch' \in [Workers -> [EventIds -> EventRows \cup {Unused}]],
         todo' \in [Workers -> SUBSET Writes]
  PROVE  WorkerTypeOK' /\ Progress
<1>1. TypeOK /\ TypeOK' /\ UNCHANGED content
  BY TypeStep DEF WorkerTypeOK, vars
<1>2. WorkerTypeOK'
  BY <1>1 DEF WorkerTypeOK, Evolves
<1> QED BY <1>1, <1>2 DEF Progress, WorkerTypeOK, TypeOK

------------------------------------------------------------------------------
(* Steps of a tick through the seam: they leave the rows alone and plan    *)
(* status writes.                                                          *)

(* The commit that makes a group's change visible.                         *)
Commits(w) ==
  /\ pc[w] = "finalize" /\ regen[w]
  /\ cache'[target[w]] = draft[w] /\ Reach(target[w])

QuietTick(w) ==
  /\ UNCHANGED <<events, batch, due, abandoned, redrives, lost, target, regen>>
  /\ UNCHANGED reached \/ Reach(target[w])
  /\ \A v \in Workers : v # w => pc'[v] = pc[v] /\ todo'[v] = todo[v] /\ draft'[v] = draft[v]
  /\ pc[w] # "idle" /\ pc'[w] # "idle"
  /\ todo' \in [Workers -> SUBSET Writes]
  /\ Planned(w, todo'[w], pc'[w])
  /\ \A wr \in todo'[w] :
       wr.op \in Advances => pc[w] \in {"publish", "pinging"} \/ Commits(w)
  /\ pc'[w] \in {"publish", "pinging"} =>
       \/ pc[w] \in {"publish", "pinging"}
       \/ pc[w] = "finalize" /\ ~regen[w]
       \/ Commits(w)
  /\ (pc'[w] \in {"gate", "finalize"} /\ regen[w]) =>
       \/ pc[w] \in {"gate", "finalize"} /\ draft'[w] = draft[w]
       \/ draft'[w] \in Rows /\ draft'[w].version = content[target[w]]

(* The plan of a failed regeneration.                                      *)
LEMMA RegenerationPlanned ==
  ASSUME WorkerTypeOK, NEW w \in Workers, NEW ids, ids \subseteq Group(w)
  PROVE  /\ RegenerationRetries(w, ids) \in SUBSET Writes
         /\ Planned(w, RegenerationRetries(w, ids), "settle")
         /\ \A wr \in RegenerationRetries(w, ids) : wr.op \notin Advances
<1>1. ids \subseteq Claimed(w)
  BY GroupRows
<1> QED BY <1>1, RegenerationPlan DEF Planned, Advances

(* The plan of a refused ping.                                             *)
LEMMA PublicationPlanned ==
  ASSUME WorkerTypeOK, NEW w \in Workers
  PROVE  /\ PublicationRetries(w, Group(w)) \in SUBSET Writes
         /\ Planned(w, PublicationRetries(w, Group(w)), "settle")
<1>1. Group(w) \subseteq Claimed(w)
  BY GroupRows
<1> QED BY <1>1, PublicationPlan DEF Planned

(* One outcome for the group.                                              *)
LEMMA GroupPlanned ==
  ASSUME WorkerTypeOK, NEW w \in Workers
  PROVE  /\ \A op \in {"mark_pinged", "dead_letter_publication", "restart_regeneration"} :
              /\ Write(op, Group(w)) \in SUBSET Writes
              /\ Planned(w, Write(op, Group(w)), "settle")
         /\ \A wr \in Write("restart_regeneration", Group(w)) : wr.op \notin Advances
         /\ Write("mark_regenerated", Regenerating(w, target[w])) \in SUBSET Writes
         /\ Planned(w, Write("mark_regenerated", Regenerating(w, target[w])), "publish")
<1>1. ASSUME NEW op \in {"mark_pinged", "dead_letter_publication", "restart_regeneration"}
      PROVE  /\ Write(op, Group(w)) \in SUBSET Writes
             /\ Planned(w, Write(op, Group(w)), "settle")
  <2>1. op \in Ops /\ op \notin {"mark_regenerated", "retry_regeneration", "retry_publication"}
    BY DEF Ops
  <2> QED BY <2>1, GroupPlan DEF Planned
<1>2. "mark_regenerated" \in Ops /\ "restart_regeneration" \in Ops
  BY DEF Ops
<1>3. \A wr \in Write("restart_regeneration", Group(w)) : wr.op \notin Advances
  BY <1>2, GroupPlan DEF Advances
<1>4. Write("mark_regenerated", Regenerating(w, target[w])) \in SUBSET Writes
  BY <1>2, GroupPlan
<1>5. Planned(w, Write("mark_regenerated", Regenerating(w, target[w])), "publish")
  BY <1>2, GroupPlan, GroupRows DEF Planned
<1> QED BY <1>1, <1>3, <1>4, <1>5

(* No outcome at all.                                                      *)
LEMMA NothingPlanned == \A w, at : Planned(w, {}, at)
  BY DEF Planned

(* Only the tick itself changes what it plans.                             *)
LEMMA OnlyOwnPlan ==
  ASSUME WorkerTypeOK, NEW w \in Workers, NEW W \in SUBSET Writes, Settle(w, W)
  PROVE  /\ todo' \in [Workers -> SUBSET Writes] /\ todo'[w] = W
         /\ \A v \in Workers : v # w => todo'[v] = todo[v]
  BY DEF WorkerTypeOK, Settle

(* Every step of a tick inside the seam is quiet.                          *)
LEMMA TicksQuiet ==
  ASSUME WorkerTypeOK, NEW w \in Workers, Planned(w, todo[w], pc[w]),
         \/ SeamStep(w) \/ SeamFails(w) \/ LoadForPublication(w) \/ FinalizeCommitted(w)
         \/ FinalizeStale(w) \/ FinalizeUnconfirmed(w) \/ FinalizePublication(w)
         \/ FinalizeFailed(w) /\ pc[w] = "finalize"
         \/ PublishFeed(w) \/ Ping(w)
  PROVE  QuietTick(w)
<1> USE DEF TypeOK, Readers, Procs
<1>0. TypeOK /\ w \in Procs /\ w \in Readers
  BY DEF WorkerTypeOK
<1>1. CASE SeamStep(w)
  <2>1. /\ todo[w] = {} /\ todo' \in [Workers -> SUBSET Writes] /\ todo' = todo
        /\ UNCHANGED <<events, batch, due, reached, abandoned, redrives, lost>>
    <3>1. pc[w] \notin {"publish", "settle"}
      BY <1>1 DEF SeamStep, ReadSnapshot, RepairGate, Repair, Resnapshot, Render, FinalizationGuard
    <3>2. UNCHANGED queue /\ todo \in [Workers -> SUBSET Writes]
      BY <1>1 DEF SeamStep, WorkerTypeOK
    <3> QED BY <3>1, <3>2 DEF Planned, queue, history
  <2>2. /\ UNCHANGED <<target, regen>>
        /\ pc[w] \in {"snapshot", "repair_gate", "repair", "resnapshot", "load", "gate"}
        /\ pc'[w] \in {"repair_gate", "load", "repair", "resnapshot", "gate", "finalize"}
        /\ \A v \in Workers : v # w => pc'[v] = pc[v]
    BY <1>0, <1>1 DEF SeamStep, ReadSnapshot, RepairGate, Repair, Resnapshot, Render,
       FinalizationGuard, Goto, locals
  <2>3. CASE Render(w)
    <3>1. draft'[w] \in Rows /\ draft'[w].version = content[target[w]]
      BY <1>0, <2>3 DEF Render, Rows, Snapshots
    <3>2. \A v \in Workers : v # w => draft'[v] = draft[v]
      BY <1>0, <2>3 DEF Render
    <3> QED BY <2>1, <2>2, <3>1, <3>2, NothingPlanned DEF QuietTick
  <2>4. CASE ~Render(w)
    <3>1. UNCHANGED draft /\ (pc'[w] \in {"gate", "finalize"} => pc[w] = "gate")
      BY <1>0, <1>1, <2>4 DEF SeamStep, ReadSnapshot, RepairGate, Repair, Resnapshot,
         FinalizationGuard, Goto, locals
    <3> QED BY <2>1, <2>2, <3>1, NothingPlanned DEF QuietTick
  <2> QED BY <2>3, <2>4
<1>2. CASE SeamFails(w)
  <2> DEFINE ids == IF pc[w] = "load" /\ regen[w] THEN Regenerating(w, target[w]) ELSE Group(w)
  <2>1. ids \subseteq Group(w)
    BY GroupRows
  <2>2. Settle(w, RegenerationRetries(w, ids))
    BY <1>2 DEF SeamFails
  <2> HIDE DEF ids
  <2>3. UNCHANGED <<events, batch, history, redrives, lost>> /\ UNCHANGED locals
        /\ pc[w] # "idle" /\ pc' = [pc EXCEPT ![w] = "settle"]
    BY <1>2 DEF SeamFails, ReaderFails, RepairUnconfirmed, BaseUrlRequired, Goto, OnError
  <2>4. /\ RegenerationRetries(w, ids) \in SUBSET Writes
        /\ Planned(w, RegenerationRetries(w, ids), "settle")
        /\ \A wr \in RegenerationRetries(w, ids) : wr.op \notin Advances
    BY <2>1, RegenerationPlanned
  <2> QED BY <1>0, <2>2, <2>3, <2>4, OnlyOwnPlan DEF QuietTick, history, locals
<1>3. CASE LoadForPublication(w)
  <2> DEFINE W == IF cache[target[w]] = NoRow THEN Write("restart_regeneration", Group(w)) ELSE {}
  <2>1. UNCHANGED <<events, batch, history, redrives, lost>> /\ Settle(w, W)
    BY <1>3 DEF LoadForPublication
  <2>2. W \in SUBSET Writes /\ \A wr \in W : wr.op \notin Advances
    BY GroupPlanned
  <2>3. /\ pc[w] = "load" /\ ~regen[w] /\ UNCHANGED <<target, regen>>
        /\ pc' = [pc EXCEPT ![w] = IF cache[target[w]] = NoRow THEN "settle" ELSE "gate"]
        /\ \A v \in Workers : v # w => draft'[v] = draft[v]
    BY <1>0, <1>3 DEF LoadForPublication, LoadCached, Goto
  <2>4. Planned(w, W, pc'[w])
    BY <1>0, <2>3, GroupPlanned, NothingPlanned
  <2> HIDE DEF W
  <2> QED BY <1>0, <2>1, <2>2, <2>3, <2>4, OnlyOwnPlan DEF QuietTick, history
<1>4. CASE FinalizeCommitted(w)
  <2> DEFINE W == Write("mark_regenerated", Regenerating(w, target[w]))
  <2>1. UNCHANGED <<events, batch, due, abandoned, redrives, lost>> /\ Settle(w, W)
    BY <1>4 DEF FinalizeCommitted
  <2>2. W \in SUBSET Writes /\ Planned(w, W, "publish")
    BY GroupPlanned
  <2>3. UNCHANGED locals /\ pc[w] = "finalize" /\ pc' = [pc EXCEPT ![w] = "publish"]
    BY <1>4 DEF FinalizeCommitted, CommitCache, Goto
  <2>4. Commits(w)
    BY <1>0, <1>4 DEF FinalizeCommitted, CommitCache, Upsert, Commits
  <2>5. Reach(target[w])
    BY <1>4 DEF FinalizeCommitted
  <2> HIDE DEF W
  <2> QED BY <1>0, <2>1, <2>2, <2>3, <2>4, <2>5, OnlyOwnPlan DEF QuietTick, locals
<1>5. CASE FinalizeStale(w)
  <2> DEFINE W == Write("restart_regeneration", Group(w))
  <2>1. UNCHANGED <<events, batch, history, redrives, lost>> /\ Settle(w, W)
    BY <1>5 DEF FinalizeStale
  <2>2. W \in SUBSET Writes /\ Planned(w, W, "settle") /\ \A wr \in W : wr.op \notin Advances
    BY GroupPlanned
  <2>3. UNCHANGED locals /\ pc[w] = "finalize" /\ pc' = [pc EXCEPT ![w] = "settle"]
    BY <1>5 DEF FinalizeStale, CommitStale, Goto
  <2> HIDE DEF W
  <2> QED BY <1>0, <2>1, <2>2, <2>3, OnlyOwnPlan DEF QuietTick, history, locals
<1>6. CASE FinalizeUnconfirmed(w)
  <2> DEFINE W == RegenerationRetries(w, Group(w))
  <2>1. UNCHANGED <<events, batch, due, abandoned, redrives, lost>> /\ Settle(w, W)
        /\ Reach(target[w])
    BY <1>6 DEF FinalizeUnconfirmed
  <2>2. W \in SUBSET Writes /\ Planned(w, W, "settle") /\ \A wr \in W : wr.op \notin Advances
    BY RegenerationPlanned
  <2>3. UNCHANGED locals /\ pc[w] = "finalize" /\ pc' = [pc EXCEPT ![w] = "settle"]
    BY <1>6 DEF FinalizeUnconfirmed, CommitUnconfirmed, Goto, OnError
  <2> HIDE DEF W
  <2> QED BY <1>0, <2>1, <2>2, <2>3, OnlyOwnPlan DEF QuietTick, locals
<1>7. CASE FinalizePublication(w)
  <2> DEFINE W == IF Fenced(w) THEN {} ELSE Write("restart_regeneration", Group(w))
  <2>1. UNCHANGED <<events, batch, history, redrives, lost>> /\ Settle(w, W)
    BY <1>7 DEF FinalizePublication
  <2>2. W \in SUBSET Writes /\ \A wr \in W : wr.op \notin Advances
    BY GroupPlanned
  <2>3. UNCHANGED locals /\ pc[w] = "finalize" /\ ~regen[w]
        /\ pc' = [pc EXCEPT ![w] = IF Fenced(w) THEN "publish" ELSE "settle"]
    BY <1>7 DEF FinalizePublication, CheckCurrent, Goto
  <2>4. Planned(w, W, pc'[w])
    BY <1>0, <2>3, GroupPlanned, NothingPlanned
  <2> HIDE DEF W
  <2> QED BY <1>0, <2>1, <2>2, <2>3, <2>4, OnlyOwnPlan DEF QuietTick, history, locals
<1>8. CASE FinalizeFailed(w) /\ pc[w] = "finalize"
  <2> DEFINE W == RegenerationRetries(w, Group(w))
  <2>1. UNCHANGED <<events, batch, history, redrives, lost>> /\ Settle(w, W)
    BY <1>8 DEF FinalizeFailed
  <2>2. W \in SUBSET Writes /\ Planned(w, W, "settle") /\ \A wr \in W : wr.op \notin Advances
    BY RegenerationPlanned
  <2>3. UNCHANGED locals /\ pc' = [pc EXCEPT ![w] = "settle"]
    BY <1>8 DEF FinalizeFailed, FinalizeFails, Goto
  <2> HIDE DEF W
  <2> QED BY <1>0, <1>8, <2>1, <2>2, <2>3, OnlyOwnPlan DEF QuietTick, history, locals
<1>9. CASE PublishFeed(w)
  <2>1. /\ UNCHANGED <<events, batch, history, redrives, lost>> /\ UNCHANGED locals
        /\ pc[w] = "publish"
        /\ pc' = [pc EXCEPT ![w] = IF snap[w].config.hub = NoHub \/ snap[w].config.identity = NoBase
                                     THEN "settle" ELSE "pinging"]
    BY <1>9 DEF PublishFeed, Publish, Goto
  <2>2. CASE snap[w].config.hub = NoHub
    <3>1. Settle(w, Write("mark_pinged", Group(w)))
      BY <1>9, <2>2 DEF PublishFeed
    <3> QED BY <1>0, <2>1, <2>2, <3>1, GroupPlanned, OnlyOwnPlan DEF QuietTick, history, locals
  <2>3. CASE snap[w].config.hub # NoHub /\ snap[w].config.identity = NoBase
    <3>1. Settle(w, RegenerationRetries(w, Group(w)))
      BY <1>9, <2>3 DEF PublishFeed
    <3> QED BY <1>0, <2>1, <2>3, <3>1, RegenerationPlanned, OnlyOwnPlan
           DEF QuietTick, history, locals
  <2>4. CASE snap[w].config.hub # NoHub /\ snap[w].config.identity # NoBase
    <3>1. Settle(w, {})
      BY <1>9, <2>4 DEF PublishFeed
    <3> QED BY <1>0, <2>1, <2>4, <3>1, NothingPlanned, OnlyOwnPlan DEF QuietTick, history, locals
  <2> QED BY <2>2, <2>3, <2>4
<1>10. CASE Ping(w)
  <2>1. /\ UNCHANGED <<events, batch, history, redrives, lost>> /\ UNCHANGED locals
        /\ pc[w] = "pinging" /\ pc' = [pc EXCEPT ![w] = "settle"]
    BY <1>10 DEF Ping, PingReturns, Goto
  <2>2. PICK W \in SUBSET Writes : Settle(w, W) /\ Planned(w, W, "settle")
    <3>1. PICK answer \in {"ok", "terminal", "retryable"} :
            Settle(w, CASE answer = "ok" -> Write("mark_pinged", Group(w))
                        [] answer = "terminal" -> Write("dead_letter_publication", Group(w))
                        [] answer = "retryable" -> PublicationRetries(w, Group(w)))
      BY <1>10 DEF Ping
    <3>2. CASE answer = "ok"
      <4>1. Settle(w, Write("mark_pinged", Group(w)))
        BY <3>1, <3>2
      <4> QED BY <4>1, GroupPlanned
    <3>3. CASE answer = "terminal"
      <4>1. Settle(w, Write("dead_letter_publication", Group(w)))
        BY <3>1, <3>3
      <4> QED BY <4>1, GroupPlanned
    <3>4. CASE answer = "retryable"
      <4>1. Settle(w, PublicationRetries(w, Group(w)))
        BY <3>1, <3>4
      <4> QED BY <4>1, PublicationPlanned
    <3> QED BY <3>2, <3>3, <3>4
  <2> QED BY <1>0, <2>1, <2>2, OnlyOwnPlan DEF QuietTick, history, locals
<1> QED BY <1>1, <1>2, <1>3, <1>4, <1>5, <1>6, <1>7, <1>8, <1>9, <1>10

------------------------------------------------------------------------------
(* How the invariant survives what others do.                              *)

(* A used id stays used, for the same feed and version.                    *)
LEMMA IdKept ==
  ASSUME WorkerTypeOK, Progress, NEW e \in EventIds, events[e] # Unused
  PROVE  /\ events'[e] # Unused /\ due'[e] = due[e]
         /\ e \in Stored' => e \in Stored /\ events'[e].path = events[e].path
<1>1. /\ due'[e] = due[e]
      /\ \/ events'[e] = events[e]
         \/ e \in Stored /\ events'[e] = Deleted
         \/ e \in Stored /\ events'[e] \in EventRows /\ events'[e].path = events[e].path
  BY DEF Progress, Evolves
<1> QED BY <1>1, RowsAssumption DEF Stored

(* What is fulfilled stays so.                                             *)
LEMMA FulfilledStays ==
  ASSUME WorkerTypeOK, WorkerTypeOK', Progress, NEW e \in EventIds, Fulfilled(e)
  PROVE  Fulfilled(e)'
<1>1. events[e] # Unused
  BY DEF Fulfilled
<1>2. /\ events'[e] # Unused /\ due'[e] = due[e]
      /\ e \in Stored' => e \in Stored /\ events'[e].path = events[e].path
  BY <1>1, IdKept
<1>3. ASSUME e \in Stored', events'[e].path \in Paths
      PROVE  reached'[events'[e].path] >= due'[e]
  <2> DEFINE p == events[e].path
  <2>1. p \in Paths /\ reached[p] >= due[e] /\ events'[e].path = p
    BY <1>2, <1>3 DEF Fulfilled
  <2>2. reached'[p] >= reached[p]
    BY <2>1 DEF Progress
  <2>3. reached'[p] \in Nat /\ reached[p] \in Nat /\ due[e] \in Nat
    BY <2>1 DEF WorkerTypeOK
  <2> QED BY <1>2, <2>1, <2>2, <2>3
<1> QED BY <1>2, <1>3 DEF Fulfilled

(* A step of somebody else leaves what a tick relies on as it is.          *)
Framed(w) ==
  /\ pc'[w] = pc[w] /\ target'[w] = target[w] /\ regen'[w] = regen[w] /\ draft'[w] = draft[w]
  /\ batch'[w] = batch[w] /\ todo'[w] = todo[w]

LEMMA CopiesStay ==
  ASSUME WorkerTypeOK, WorkerTypeOK', Progress, NEW w \in Workers, CopiesSound(w),
         batch'[w] = batch[w]
  PROVE  CopiesSound(w)'
<1> SUFFICES ASSUME NEW e \in Claimed(w)'
             PROVE  /\ events'[e] # Unused
                    /\ batch'[w][e].path \in Paths
                    /\ e \in Stored' => events'[e].path = batch'[w][e].path
                    /\ batch'[w][e].phase = "publication" => Fulfilled(e)'
  BY DEF CopiesSound
<1>1. e \in Claimed(w) /\ e \in EventIds
  BY DEF Claimed
<1>2. events[e] # Unused
  BY <1>1 DEF CopiesSound
<1>3. Fulfilled(e) => Fulfilled(e)'
  BY <1>1, FulfilledStays
<1> QED BY <1>1, <1>2, <1>3, IdKept DEF CopiesSound

(* A tick that drops some of its plan, or ends its group early.            *)
LEMMA CalmTick ==
  ASSUME WorkerTypeOK, WorkerTypeOK', Progress, NEW w \in Workers, TickInv(w),
         target'[w] = target[w], regen'[w] = regen[w], draft'[w] = draft[w],
         batch'[w] = batch[w], todo'[w] \subseteq todo[w],
         pc'[w] = pc[w] \/ (todo'[w] = {} /\ pc'[w] = "settle" /\ pc[w] # "idle")
  PROVE  TickInv(w)'
<1>0. /\ Claimed(w)' = Claimed(w) /\ Group(w)' = Group(w)
      /\ Regenerating(w, target[w])' = Regenerating(w, target[w])
  BY DEF Claimed, Group, GroupOf, Regenerating
<1>1. CopiesSound(w)'
  BY CopiesStay DEF TickInv
<1>2. \A wr \in todo[w] : wr.ids \subseteq EventIds
  BY DEF WorkerTypeOK, Writes
<1>3. WritesSound(w)'
  BY <1>2, FulfilledStays DEF WritesSound, TickInv
<1>4. PublishesFulfilled(w)'
  BY <1>0, GroupRows, FulfilledStays DEF PublishesFulfilled, TickInv
<1>5. DraftCovers(w)'
  <2> SUFFICES ASSUME pc[w] \in {"gate", "finalize"}, regen[w]
               PROVE  draft[w] \in Rows /\ \A e \in Group(w) : e \in Stored' => draft[w].version >= due'[e]
    BY <1>0 DEF DraftCovers
  <2>1. \A e \in Group(w) : e \in EventIds /\ events[e] # Unused
    BY GroupRows DEF TickInv, CopiesSound
  <2> QED BY <2>1, IdKept DEF TickInv, DraftCovers
<1>6. RepublishesOnly(w)'
  BY <1>0 DEF RepublishesOnly, TickInv
<1>7. Planned(w, todo[w], pc[w])'
  BY <1>0 DEF Planned, TickInv
<1> QED BY <1>1, <1>3, <1>4, <1>5, <1>6, <1>7 DEF TickInv

(* A tick that does nothing is a special case.                             *)
LEMMA FramedTick ==
  ASSUME WorkerTypeOK, WorkerTypeOK', Progress, NEW w \in Workers, TickInv(w), Framed(w)
  PROVE  TickInv(w)'
  BY CalmTick DEF Framed

(* Rows and history, when the posts stand still: a row gets past           *)
(* regeneration only if it is fulfilled, and is deleted only if it is      *)
(* fulfilled or counted as abandoned.                                      *)
LEMMA RowsInv ==
  ASSUME WorkerInv, WorkerTypeOK', Progress, UNCHANGED content, abandoned \subseteq abandoned',
         \A e \in Stored' :
           /\ e \in Stored
           /\ (events'[e].phase = "publication" \/ events'[e].status = "done") => Fulfilled(e),
         \A e \in Stored :
           (e \notin Stored' /\ events[e].path \in Paths) =>
             events[e].path \in abandoned' \/ Fulfilled(e)
  PROVE  RowsFulfilled' /\ DueInPast' /\ NewestQueued'
<1>0. WorkerTypeOK
  BY DEF WorkerInv
<1>1. \A e \in Stored : e \in EventIds /\ events[e] # Unused
  BY DEF Stored
<1>2. RowsFulfilled'
  BY <1>0, <1>1, FulfilledStays DEF RowsFulfilled
<1>3. DueInPast'
  BY <1>0, <1>1, IdKept DEF DueInPast, WorkerInv
<1>4. NewestQueued'
  <2> SUFFICES ASSUME NEW p \in Paths, reached'[p] < content'[p], p \notin abandoned'
               PROVE  \E e \in Stored' : events'[e].path = p /\ due'[e] = content'[p]
    BY DEF NewestQueued
  <2>1. reached[p] \in Nat /\ reached'[p] \in Nat /\ content[p] \in Nat /\ reached'[p] >= reached[p]
    BY <1>0 DEF WorkerTypeOK, TypeOK, Progress
  <2>2. PICK e \in Stored : events[e].path = p /\ due[e] = content[p]
    BY <2>1 DEF WorkerInv, NewestQueued
  <2>3. e \in Stored'
    <3> SUFFICES ASSUME Fulfilled(e) PROVE FALSE
      BY <2>2
    <3> QED BY <2>1, <2>2 DEF Fulfilled
  <2> QED BY <1>0, <1>1, <2>2, <2>3, IdKept
<1> QED BY <1>2, <1>3, <1>4

(* The same when no row changes.                                           *)
LEMMA RowsStay ==
  ASSUME WorkerInv, WorkerTypeOK', Progress, UNCHANGED <<content, events, abandoned>>
  PROVE  RowsFulfilled' /\ DueInPast' /\ NewestQueued'
<1>1. Stored' = Stored
  BY DEF Stored
<1> QED BY <1>1, RowsInv DEF WorkerInv, RowsFulfilled

------------------------------------------------------------------------------
(* Quiet steps keep the invariant.                                         *)

(* What a quiet step does to types and history.                            *)
LEMMA QuietEffects ==
  ASSUME WorkerTypeOK, NEW w \in Workers, QuietTick(w), [Next]_vars
  PROVE  WorkerTypeOK' /\ Progress
<1>1. target[w] \in Paths
  BY DEF WorkerTypeOK, TypeOK, Readers
<1>2. /\ UNCHANGED <<events, due, abandoned, redrives>>
      /\ todo' \in [Workers -> SUBSET Writes]
      /\ UNCHANGED reached \/ \E p \in Paths : Reach(p)
  BY <1>1 DEF QuietTick
<1>3. lost' \in Nat /\ batch' \in [Workers -> [EventIds -> EventRows \cup {Unused}]]
  BY DEF QuietTick, WorkerTypeOK
<1> QED BY <1>2, <1>3, RowsKept

(* A commit fulfils the whole group: the draft has every change of it.     *)
LEMMA CommitFulfils ==
  ASSUME WorkerInv, WorkerTypeOK', Progress, NEW w \in Workers, QuietTick(w), Commits(w)
  PROVE  \A e \in Group(w) : Fulfilled(e)'
<1> SUFFICES ASSUME NEW e \in Group(w) PROVE Fulfilled(e)'
  OBVIOUS
<1> DEFINE p == target[w]
<1>0. WorkerTypeOK /\ TypeOK' /\ p \in Paths
  BY DEF WorkerInv, WorkerTypeOK, TypeOK, Readers
<1>1. e \in EventIds /\ e \in Claimed(w) /\ batch[w][e].path = p
  BY <1>0, GroupRows DEF Group, GroupOf
<1>2. events[e] # Unused /\ (e \in Stored => events[e].path = p)
  BY <1>1 DEF WorkerInv, TickInv, CopiesSound
<1>3. draft[w] \in Rows /\ (e \in Stored => draft[w].version >= due[e])
  BY DEF WorkerInv, TickInv, DraftCovers, Commits
<1>4. draft[w] # NoRow /\ draft[w].version \in Nat
  BY <1>3, ValuesAssumption DEF Rows
<1>5. reached'[p] >= draft[w].version
  BY <1>0, <1>4, ReachGrows DEF Commits
<1>6. reached'[p] \in Nat /\ due[e] \in Nat
  BY <1>0, <1>1 DEF WorkerTypeOK
<1>7. /\ UNCHANGED <<events, due>> /\ (e \in Stored' <=> e \in Stored)
  BY DEF QuietTick, Stored
<1> QED BY <1>2, <1>3, <1>4, <1>5, <1>6, <1>7 DEF Fulfilled

(* The tick's own part of the invariant.                                   *)
LEMMA QuietTickInv ==
  ASSUME WorkerInv, WorkerTypeOK', Progress, NEW w \in Workers, QuietTick(w)
  PROVE  TickInv(w)'
<1>0. WorkerTypeOK /\ TickInv(w)
  BY DEF WorkerInv
<1>1. /\ Claimed(w)' = Claimed(w) /\ Group(w)' = Group(w)
      /\ Regenerating(w, target[w])' = Regenerating(w, target[w])
  BY DEF QuietTick, Claimed, Group, GroupOf, Regenerating
<1>2. CopiesSound(w)'
  BY <1>0, CopiesStay DEF QuietTick, TickInv
<1>3. ASSUME pc[w] \in {"publish", "pinging"} \/ (pc[w] = "finalize" /\ ~regen[w]) \/ Commits(w)
      PROVE  \A e \in Group(w) : Fulfilled(e)'
  <2>1. CASE pc[w] \in {"publish", "pinging"}
    BY <1>0, <2>1, GroupRows, FulfilledStays DEF TickInv, PublishesFulfilled
  <2>2. CASE pc[w] = "finalize" /\ ~regen[w]
    <3> SUFFICES ASSUME NEW e \in Group(w) PROVE Fulfilled(e)'
      OBVIOUS
    <3>1. e \in EventIds /\ e \in Claimed(w) /\ batch[w][e] \in EventRows
      BY <1>0, GroupRows
    <3>2. batch[w][e].phase # "regeneration"
      BY <1>0, <2>2, <3>1 DEF TickInv, RepublishesOnly, Regenerating, Group
    <3>3. batch[w][e].phase = "publication"
      BY <3>1, <3>2 DEF EventRows
    <3> QED BY <1>0, <3>1, <3>3, FulfilledStays DEF TickInv, CopiesSound
  <2>3. CASE Commits(w)
    BY <2>3, CommitFulfils
  <2> QED BY <1>3, <2>1, <2>2, <2>3
<1>4. WritesSound(w)'
  <2> SUFFICES ASSUME NEW wr \in todo'[w], wr.op \in Advances, NEW e \in wr.ids PROVE Fulfilled(e)'
    BY DEF WritesSound
  <2>1. wr.ids \subseteq Group(w)
    BY DEF QuietTick, Planned
  <2>2. pc[w] \in {"publish", "pinging"} \/ Commits(w)
    BY DEF QuietTick
  <2> QED BY <1>3, <2>1, <2>2
<1>5. PublishesFulfilled(w)'
  BY <1>1, <1>3 DEF PublishesFulfilled, QuietTick
<1>6. DraftCovers(w)'
  <2> SUFFICES ASSUME pc'[w] \in {"gate", "finalize"}, regen[w]
               PROVE  draft'[w] \in Rows /\ \A e \in Group(w) : e \in Stored => draft'[w].version >= due[e]
    BY <1>1 DEF DraftCovers, QuietTick, Stored
  <2>1. CASE pc[w] \in {"gate", "finalize"} /\ draft'[w] = draft[w]
    BY <1>0, <2>1 DEF TickInv, DraftCovers
  <2>2. CASE draft'[w] \in Rows /\ draft'[w].version = content[target[w]]
    <3> SUFFICES ASSUME NEW e \in Group(w), e \in Stored PROVE draft'[w].version >= due[e]
      BY <2>2
    <3>1. e \in Claimed(w) /\ e \in EventIds /\ batch[w][e].path = target[w]
      BY <1>0, GroupRows DEF Group, GroupOf
    <3>2. events[e].path = target[w] /\ target[w] \in Paths
      BY <1>0, <3>1 DEF TickInv, CopiesSound
    <3>3. due[e] <= content[target[w]] /\ due[e] \in Nat /\ content[target[w]] \in Nat
      BY <1>0, <3>1, <3>2 DEF WorkerInv, DueInPast, WorkerTypeOK, TypeOK
    <3> QED BY <2>2, <3>3
  <2> QED BY <2>1, <2>2 DEF QuietTick
<1>7. RepublishesOnly(w)'
  BY <1>0, <1>1 DEF RepublishesOnly, QuietTick, TickInv
<1>8. Planned(w, todo[w], pc[w])'
  BY <1>1 DEF Planned, QuietTick
<1> QED BY <1>2, <1>4, <1>5, <1>6, <1>7, <1>8 DEF TickInv

(* All of the invariant.                                                   *)
LEMMA QuietInv ==
  ASSUME WorkerInv, NEW w \in Workers, QuietTick(w), [Next]_vars, UNCHANGED content
  PROVE  WorkerInv'
<1>0. WorkerTypeOK
  BY DEF WorkerInv
<1>1. WorkerTypeOK' /\ Progress
  BY <1>0, QuietEffects
<1>2. RowsFulfilled' /\ DueInPast' /\ NewestQueued'
  BY <1>1, RowsStay DEF QuietTick
<1>3. ASSUME NEW v \in Workers, v # w PROVE TickInv(v)'
  <2>1. Framed(v)
    BY <1>3 DEF QuietTick, Framed
  <2> QED BY <1>0, <1>1, <2>1, FramedTick DEF WorkerInv
<1>4. TickInv(w)'
  BY <1>1, QuietTickInv
<1> QED BY <1>1, <1>2, <1>3, <1>4 DEF WorkerInv

------------------------------------------------------------------------------
(* The other steps of a tick.                                              *)

(* A tick that goes back to rest with some of its batch.                   *)
LEMMA RestingTick ==
  ASSUME WorkerTypeOK, WorkerTypeOK', Progress, NEW w \in Workers, TickInv(w),
         \A e \in EventIds : batch'[w][e] = batch[w][e] \/ batch'[w][e] = Unused,
         todo'[w] = {}, pc'[w] = "idle"
  PROVE  TickInv(w)'
<1>1. CopiesSound(w)'
  <2> SUFFICES ASSUME NEW e \in Claimed(w)'
               PROVE  /\ events'[e] # Unused
                      /\ batch'[w][e].path \in Paths
                      /\ e \in Stored' => events'[e].path = batch'[w][e].path
                      /\ batch'[w][e].phase = "publication" => Fulfilled(e)'
    BY DEF CopiesSound
  <2>1. e \in Claimed(w) /\ e \in EventIds /\ batch'[w][e] = batch[w][e]
    BY DEF Claimed
  <2>2. events[e] # Unused
    BY <2>1 DEF CopiesSound, TickInv
  <2>3. Fulfilled(e) => Fulfilled(e)'
    BY <2>1, FulfilledStays
  <2> QED BY <2>1, <2>2, <2>3, IdKept DEF CopiesSound, TickInv
<1> QED BY <1>1 DEF TickInv, WritesSound, PublishesFulfilled, DraftCovers, RepublishesOnly, Planned

(* The invariant, from its parts.                                          *)
LEMMA Assemble ==
  ASSUME WorkerInv, WorkerTypeOK', Progress, RowsFulfilled' /\ DueInPast' /\ NewestQueued',
         \A w \in Workers : Framed(w) \/ TickInv(w)'
  PROVE  WorkerInv'
  BY FramedTick DEF WorkerInv

(* process_feed_group takes up a group.                                    *)
LEMMA TakeGroupInv ==
  ASSUME WorkerInv, NEW w \in Workers, NEW p \in Paths, TakeGroup(w, p), [Next]_vars
  PROVE  WorkerInv'
<1>0. WorkerTypeOK /\ TickInv(w) /\ w \in Readers /\ w \in Procs
  BY DEF WorkerInv, Readers, Procs
<1>1. /\ UNCHANGED <<events, batch, todo, due, reached, abandoned, redrives, lost, content>>
      /\ pc[w] = "idle" /\ pc' = [pc EXCEPT ![w] = "snapshot"]
      /\ target' = [target EXCEPT ![w] = p]
      /\ regen' = [regen EXCEPT ![w] = Regenerating(w, p) # {}]
      /\ UNCHANGED draft
  BY DEF TakeGroup, BeginGroup, Goto, queue, history
<1>2. /\ lost' \in Nat /\ batch' \in [Workers -> [EventIds -> EventRows \cup {Unused}]]
      /\ todo' \in [Workers -> SUBSET Writes]
  BY <1>0, <1>1 DEF WorkerTypeOK
<1>3. WorkerTypeOK' /\ Progress
  BY <1>0, <1>1, <1>2, RowsKept
<1>4. RowsFulfilled' /\ DueInPast' /\ NewestQueued'
  BY <1>1, <1>3, RowsStay
<1>5. \A v \in Workers : v # w => Framed(v)
  <2>1. DOMAIN pc = Procs /\ DOMAIN target = Readers /\ DOMAIN regen = Readers
    BY <1>0 DEF WorkerTypeOK, TypeOK
  <2> QED BY <1>1, <2>1 DEF Framed, Readers, Procs
<1>6. TickInv(w)'
  <2>1. pc'[w] = "snapshot" /\ target'[w] = p /\ (~regen'[w] => Regenerating(w, p) = {})
    BY <1>0, <1>1 DEF WorkerTypeOK, TypeOK
  <2>2. todo'[w] = {}
    BY <1>0, <1>1 DEF TickInv, Planned
  <2>3. Regenerating(w, target[w])' = Regenerating(w, p)
    BY <1>1, <2>1 DEF Regenerating, GroupOf, Claimed
  <2>4. CopiesSound(w)'
    BY <1>0, <1>1, <1>3, CopiesStay DEF TickInv
  <2> QED BY <2>1, <2>2, <2>3, <2>4
         DEF TickInv, WritesSound, PublishesFulfilled, DraftCovers, RepublishesOnly, Planned
<1> QED BY <1>3, <1>4, <1>5, <1>6, Assemble

(* The end of a group, and a tick that dies.                               *)
LEMMA EndInv ==
  ASSUME WorkerInv, NEW w \in Workers, FinishGroup(w) \/ TickDies(w), [Next]_vars
  PROVE  WorkerInv'
<1>0. WorkerTypeOK /\ TickInv(w) /\ w \in Readers /\ w \in Procs
  BY DEF WorkerInv, Readers, Procs
<1>1. /\ UNCHANGED <<events, due, reached, abandoned, redrives, lost, content>>
      /\ pc' = [pc EXCEPT ![w] = "idle"] /\ UNCHANGED <<target, regen, draft>>
  BY DEF FinishGroup, TickDies, EndGroup, Abort, Goto, history, locals
<1>2. todo' \in [Workers -> SUBSET Writes] /\ todo'[w] = {}
      /\ \A v \in Workers : v # w => todo'[v] = todo[v]
  <2>1. CASE FinishGroup(w)
    BY <1>0, <2>1 DEF FinishGroup, WorkerTypeOK
  <2>2. CASE TickDies(w)
    <3>1. Settle(w, {})
      BY <2>2 DEF TickDies
    <3> QED BY <1>0, <3>1, OnlyOwnPlan
  <2> QED BY <2>1, <2>2
<1>3. PICK kept \in [EventIds -> EventRows \cup {Unused}] :
        /\ batch' = [batch EXCEPT ![w] = kept]
        /\ \A e \in EventIds : kept[e] = batch[w][e] \/ kept[e] = Unused
  <2>0. batch[w] \in [EventIds -> EventRows \cup {Unused}]
    BY <1>0 DEF WorkerTypeOK
  <2>1. CASE FinishGroup(w)
    <3> DEFINE kept == [e \in EventIds |-> IF e \in Group(w) THEN Unused ELSE batch[w][e]]
    <3>1. batch' = [batch EXCEPT ![w] = kept]
      BY <2>1 DEF FinishGroup
    <3>2. kept \in [EventIds -> EventRows \cup {Unused}]
      BY <2>0
    <3> QED BY <3>1, <3>2
  <2>2. CASE TickDies(w)
    <3>1. batch' = [batch EXCEPT ![w] = NoRows]
      BY <2>2 DEF TickDies
    <3>2. NoRows \in [EventIds -> EventRows \cup {Unused}] /\ \A e \in EventIds : NoRows[e] = Unused
      BY DEF NoRows
    <3> QED BY <3>1, <3>2
  <2> QED BY <2>1, <2>2
<1>4. /\ batch' \in [Workers -> [EventIds -> EventRows \cup {Unused}]] /\ batch'[w] = kept
      /\ \A v \in Workers : v # w => batch'[v] = batch[v]
  BY <1>0, <1>3 DEF WorkerTypeOK
<1>5. WorkerTypeOK' /\ Progress
  <2>1. lost' \in Nat
    BY <1>0, <1>1 DEF WorkerTypeOK
  <2> QED BY <1>0, <1>1, <1>2, <1>4, <2>1, RowsKept
<1>6. RowsFulfilled' /\ DueInPast' /\ NewestQueued'
  BY <1>1, <1>5, RowsStay
<1>7. pc'[w] = "idle" /\ \A v \in Workers : v # w => pc'[v] = pc[v]
  <2>1. DOMAIN pc = Procs
    BY <1>0 DEF WorkerTypeOK, TypeOK
  <2> QED BY <1>0, <1>1, <2>1 DEF Readers, Procs
<1>8. \A v \in Workers : v # w => Framed(v)
  BY <1>1, <1>2, <1>4, <1>7 DEF Framed
<1>9. TickInv(w)'
  BY <1>0, <1>2, <1>3, <1>4, <1>5, <1>7, RestingTick
<1> QED BY <1>5, <1>6, <1>8, <1>9, Assemble

------------------------------------------------------------------------------
(* Steps that change rows.                                                 *)

(* What RowsInv asks of a step that changes rows and no history.           *)
Honest ==
  /\ \A e \in Stored' :
       /\ e \in Stored
       /\ (events'[e].phase = "publication" \/ events'[e].status = "done") => Fulfilled(e)
  /\ \A e \in Stored :
       (e \notin Stored' /\ events[e].path \in Paths) => events[e].path \in abandoned' \/ Fulfilled(e)

(* A claim takes rows as they are; only undecodable ones are purged.       *)
LEMMA ClaimHonest ==
  ASSUME WorkerInv, NEW ids, NEW purged, ClaimPendingBatch(ids, purged)
  PROVE  Evolves /\ Honest
<1>0. EventsTypeOK
  BY DEF WorkerInv, WorkerTypeOK
<1>1. /\ EventsTypeOK' /\ ids \subseteq Claimable /\ purged \subseteq ids
      /\ \A e \in purged : events[e].path = Corrupt /\ events'[e] = Deleted
      /\ \A e \in ids \ purged :
           /\ events'[e] \in EventRows
           /\ events'[e].status = "claimed"
           /\ events'[e].path = events[e].path /\ events'[e].phase = events[e].phase
      /\ \A e \in EventIds \ ids : events'[e] = events[e]
  BY <1>0, ClaimRows
<1>2. ids \subseteq Stored
  BY <1>1 DEF Claimable
<1>3. Evolves
  BY <1>1, <1>2 DEF Evolves, Stored
<1>4. \A e \in EventIds : e \in Stored' <=> events'[e] \notin {Unused, Deleted}
  BY DEF Stored
<1>5. ASSUME NEW e \in Stored'
      PROVE  /\ e \in Stored
             /\ (events'[e].phase = "publication" \/ events'[e].status = "done") => Fulfilled(e)
  <2>1. e \in EventIds /\ events'[e] # Deleted
    BY DEF Stored
  <2>2. CASE e \in ids
    BY <1>1, <1>2, <2>1, <2>2 DEF WorkerInv, RowsFulfilled
  <2>3. CASE e \notin ids
    <3>1. events'[e] = events[e] /\ e \in Stored
      BY <1>1, <2>1, <2>3 DEF Stored
    <3> QED BY <3>1 DEF WorkerInv, RowsFulfilled
  <2> QED BY <2>2, <2>3
<1>6. ASSUME NEW e \in Stored, e \notin Stored' PROVE events[e].path \notin Paths
  <2>1. e \in EventIds /\ events[e] \notin {Unused, Deleted} /\ events'[e] \in {Unused, Deleted}
    BY <1>6 DEF Stored
  <2>2. e \in purged
    BY <1>1, <2>1, RowsAssumption
  <2> QED BY <1>1, <2>2, QueueAssumption
<1> QED BY <1>3, <1>5, <1>6 DEF Honest

(* What a claim takes and what the tick keeps of it.                       *)
LEMMA ClaimTaken ==
  ASSUME NEW w \in Workers, Claim(w) \/ ClaimUnconfirmed(w)
  PROVE  \E ids, purged :
           /\ ClaimPendingBatch(ids, purged) /\ (purged = {} \/ purged = ids \ Decodable(ids))
           /\ \/ UNCHANGED batch
              \/ batch' = [batch EXCEPT ![w] = [e \in EventIds |->
                             IF e \in Decodable(ids) THEN events'[e] ELSE Unused]]
<1>1. CASE Claim(w)
  <2>1. PICK ids \in SUBSET Claimable, purged \in SUBSET Claimable :
          /\ ClaimPendingBatch(ids, purged)
          /\ batch' = [batch EXCEPT ![w] = [e \in EventIds |->
                         IF e \in Decodable(ids) THEN events'[e] ELSE Unused]]
    BY <1>1 DEF Claim
  <2>2. purged = {} \/ purged = ids \ Decodable(ids)
    BY <2>1 DEF ClaimPendingBatch
  <2> QED BY <2>1, <2>2, Zenon
<1>2. CASE ClaimUnconfirmed(w)
  BY <1>2 DEF ClaimUnconfirmed
<1> QED BY <1>1, <1>2

(* claim_pending_batch, acknowledged or not.                               *)
LEMMA ClaimInv ==
  ASSUME WorkerInv, NEW w \in Workers, Claim(w) \/ ClaimUnconfirmed(w)
  PROVE  WorkerInv'
<1>0. WorkerTypeOK /\ TickInv(w)
  BY DEF WorkerInv
<1>1. /\ UNCHANGED <<vars, todo, due, reached, abandoned, redrives>>
      /\ UNCHANGED <<pc, target, regen, draft, content>> /\ pc[w] = "idle"
      /\ todo[w] = {}
  BY <1>0 DEF Claim, ClaimUnconfirmed, history, vars, locals, TickInv, Planned
<1>2. PICK ids, purged :
        /\ ClaimPendingBatch(ids, purged) /\ (purged = {} \/ purged = ids \ Decodable(ids))
        /\ \/ UNCHANGED batch
           \/ batch' = [batch EXCEPT ![w] = [e \in EventIds |->
                          IF e \in Decodable(ids) THEN events'[e] ELSE Unused]]
  BY ClaimTaken
<1>3. lost' \in Nat
  BY <1>0 DEF Claim, ClaimUnconfirmed, Lose, WorkerTypeOK
<1>4. Evolves /\ Honest
  BY <1>2, ClaimHonest
<1>5. /\ ids \subseteq Stored
      /\ \A e \in Decodable(ids) :
           /\ e \in EventIds /\ e \in Stored /\ events'[e] \in EventRows
           /\ events'[e].path \in Paths /\ events'[e].phase = events[e].phase
  <2>0. EventsTypeOK
    BY <1>0 DEF WorkerTypeOK
  <2>1. /\ ids \subseteq Claimable
        /\ \A e \in ids \ purged :
             /\ events'[e] \in EventRows
             /\ events'[e].path = events[e].path /\ events'[e].phase = events[e].phase
    BY <1>2, <2>0, ClaimRows
  <2>2. ids \subseteq Stored /\ Stored \subseteq EventIds
    BY <2>1 DEF Claimable, Stored
  <2>3. Decodable(ids) \subseteq ids \ purged /\ \A e \in Decodable(ids) : events[e].path # Corrupt
    BY <1>2 DEF Decodable
  <2>4. \A e \in Decodable(ids) : events'[e].path \in Paths
    BY <2>1, <2>3 DEF EventRows
  <2> QED BY <2>1, <2>2, <2>3, <2>4
<1>6. batch' \in [Workers -> [EventIds -> EventRows \cup {Unused}]]
  BY <1>0, <1>2, <1>5 DEF WorkerTypeOK
<1>7. WorkerTypeOK' /\ Progress
  BY <1>0, <1>1, <1>3, <1>4, <1>6, RowsChanged DEF WorkerTypeOK
<1>8. RowsFulfilled' /\ DueInPast' /\ NewestQueued'
  BY <1>1, <1>4, <1>7, RowsInv DEF Honest
<1>9. ASSUME NEW v \in Workers, v # w \/ UNCHANGED batch PROVE Framed(v)
  BY <1>0, <1>1, <1>2, <1>9 DEF Framed, WorkerTypeOK
<1>10. CASE batch' = [batch EXCEPT ![w] = [e \in EventIds |->
                          IF e \in Decodable(ids) THEN events'[e] ELSE Unused]]
  <2>1. batch'[w] = [e \in EventIds |-> IF e \in Decodable(ids) THEN events'[e] ELSE Unused]
    BY <1>0, <1>10 DEF WorkerTypeOK
  <2>2. CopiesSound(w)'
    <3> SUFFICES ASSUME NEW e \in Claimed(w)'
                 PROVE  /\ events'[e] # Unused
                        /\ batch'[w][e].path \in Paths
                        /\ e \in Stored' => events'[e].path = batch'[w][e].path
                        /\ batch'[w][e].phase = "publication" => Fulfilled(e)'
      BY DEF CopiesSound
    <3>1. e \in EventIds /\ batch'[w][e] # Unused
      BY DEF Claimed
    <3>2. e \in Decodable(ids) /\ batch'[w][e] = events'[e]
      BY <2>1, <3>1
    <3>3. events'[e] # Unused /\ events'[e].path \in Paths /\ e \in Stored
          /\ events'[e].phase = events[e].phase
      BY <1>5, <3>2, RowsAssumption
    <3>4. events[e].phase = "publication" => Fulfilled(e)'
      BY <1>0, <1>7, <3>1, <3>3, FulfilledStays DEF WorkerInv, RowsFulfilled
    <3> QED BY <3>2, <3>3, <3>4
  <2>3. pc'[w] = "idle" /\ todo'[w] = {}
    BY <1>1
  <2> QED BY <1>7, <1>8, <1>9, <2>2, <2>3, Assemble
         DEF TickInv, WritesSound, PublishesFulfilled, DraftCovers, RepublishesOnly, Planned
<1>11. CASE UNCHANGED batch
  BY <1>7, <1>8, <1>9, <1>11, Assemble
<1> QED BY <1>2, <1>10, <1>11

(* A write that advances only fulfilled rows is honest.                    *)
LEMMA WriteHonest ==
  ASSUME WorkerInv, NEW op \in Ops, NEW ids, Wrote(op, ids),
         op \in Advances => \A e \in ids : Fulfilled(e)
  PROVE  Evolves /\ Honest
<1>0. EventsTypeOK
  BY DEF WorkerInv, WorkerTypeOK
<1>1. Evolves
  BY <1>0, WroteEvolves
<1>2. \A e \in EventIds : e \in Stored' <=> e \in Stored
  <2> SUFFICES ASSUME NEW e \in EventIds PROVE e \in Stored' <=> e \in Stored
    OBVIOUS
  <2>1. CASE e \in ids \cap Stored
    BY <2>1, RowsAssumption DEF Wrote, After, Stored
  <2>2. CASE e \notin ids \cap Stored
    BY <2>2 DEF Wrote, Stored
  <2> QED BY <2>1, <2>2
<1>3. ASSUME NEW e \in Stored, events'[e].phase = "publication" \/ events'[e].status = "done"
      PROVE  Fulfilled(e)
  <2>0. e \in EventIds
    BY DEF Stored
  <2>1. CASE e \in ids
    <3>1. After(op, events[e], events'[e])
      BY <2>0, <2>1 DEF Wrote
    <3>2. CASE op \in Advances
      BY <2>1, <3>2
    <3>3. CASE op \notin Advances
      <4>1. op \in {"retry_regeneration", "dead_letter_regeneration", "restart_regeneration"}
        BY <3>3 DEF Ops, Advances
      <4> QED BY <1>3, <3>1, <4>1 DEF After
    <3> QED BY <3>2, <3>3
  <2>2. CASE e \notin ids
    BY <1>3, <2>0, <2>2 DEF Wrote, WorkerInv, RowsFulfilled
  <2> QED BY <2>1, <2>2
<1> QED BY <1>1, <1>2, <1>3 DEF Honest, Stored

(* A status write, performed or lost.                                      *)
LEMMA StatusWriteInv ==
  ASSUME WorkerInv, NEW w \in Workers, StatusWrite(w) \/ StatusWriteFails(w)
  PROVE  WorkerInv'
<1>0. WorkerTypeOK /\ TickInv(w)
  BY DEF WorkerInv
<1>1. PICK wr \in todo[w] : Settle(w, todo[w] \ {wr}) /\ (UNCHANGED events \/ Perform(wr))
  BY DEF StatusWrite, StatusWriteFails
<1>2. /\ UNCHANGED <<vars, batch, due, reached, abandoned, redrives>>
      /\ UNCHANGED <<pc, target, regen, draft, content>> /\ lost' \in Nat
  BY <1>0 DEF StatusWrite, StatusWriteFails, history, vars, locals, Lose, WorkerTypeOK
<1>3. wr \in Writes /\ todo[w] \ {wr} \in SUBSET Writes
  BY <1>0 DEF WorkerTypeOK
<1>4. /\ todo' \in [Workers -> SUBSET Writes] /\ todo'[w] = todo[w] \ {wr}
      /\ \A v \in Workers : v # w => todo'[v] = todo[v]
  BY <1>0, <1>1, <1>3, OnlyOwnPlan
<1>5. Evolves /\ Honest
  <2>1. CASE UNCHANGED events
    BY <1>0, <2>1 DEF Evolves, Honest, Stored, WorkerInv, RowsFulfilled, WorkerTypeOK, EventsTypeOK
  <2>2. CASE Perform(wr)
    <3>1. Wrote(wr.op, wr.ids)
      BY <1>0, <1>3, <2>2, Performed DEF WorkerTypeOK
    <3>2. wr.op \in Ops
      BY <1>3 DEF Writes
    <3>3. wr.op \in Advances => \A e \in wr.ids : Fulfilled(e)
      BY <1>0 DEF TickInv, WritesSound
    <3> QED BY <3>1, <3>2, <3>3, WriteHonest
  <2> QED BY <1>1, <2>1, <2>2
<1>6. /\ batch' \in [Workers -> [EventIds -> EventRows \cup {Unused}]]
      /\ abandoned' \subseteq Paths /\ redrives' \in Nat
  BY <1>0, <1>2 DEF WorkerTypeOK
<1>7. WorkerTypeOK' /\ Progress
  BY <1>0, <1>2, <1>4, <1>5, <1>6, RowsChanged
<1>8. RowsFulfilled' /\ DueInPast' /\ NewestQueued'
  BY <1>2, <1>5, <1>7, RowsInv DEF Honest
<1>9. \A v \in Workers : v # w => Framed(v)
  BY <1>2, <1>4 DEF Framed
<1>10. TickInv(w)'
  BY <1>0, <1>2, <1>4, <1>7, CalmTick
<1> QED BY <1>7, <1>8, <1>9, <1>10, Assemble

(* mark_regenerated fails after the cache commit: applied or not, the      *)
(* group ends.                                                             *)
LEMMA MarkFailsInv ==
  ASSUME WorkerInv, NEW w \in Workers, FinalizeFailed(w), pc[w] # "finalize", [Next]_vars
  PROVE  WorkerInv'
<1>0. WorkerTypeOK /\ TickInv(w) /\ w \in Procs /\ DOMAIN pc = Procs
  BY DEF WorkerInv, Readers, Procs, WorkerTypeOK, TypeOK
<1> DEFINE ids == Regenerating(w, target[w])
<1>1. /\ UNCHANGED <<batch, due, reached, abandoned, redrives, lost, target, regen, draft, content>>
      /\ pc[w] = "publish" /\ pc' = [pc EXCEPT ![w] = "settle"]
      /\ Settle(w, {}) /\ (UNCHANGED events \/ MarkRegenerated(ids))
  BY DEF FinalizeFailed, FinalizeFails, Goto, history, locals
<1>2. /\ todo' \in [Workers -> SUBSET Writes] /\ todo'[w] = {}
      /\ \A v \in Workers : v # w => todo'[v] = todo[v]
  BY <1>0, <1>1, OnlyOwnPlan
<1>3. Evolves /\ Honest
  <2>1. CASE UNCHANGED events
    BY <1>0, <2>1 DEF Evolves, Honest, Stored, WorkerInv, RowsFulfilled, WorkerTypeOK, EventsTypeOK
  <2>2. CASE MarkRegenerated(ids)
    <3>1. Wrote("mark_regenerated", ids)
      BY <1>0, <2>2, WriteEffects DEF WorkerTypeOK
    <3>2. \A e \in ids : Fulfilled(e)
      BY <1>0, <1>1, GroupRows DEF TickInv, PublishesFulfilled
    <3> QED BY <3>1, <3>2, WriteHonest DEF Ops
  <2> QED BY <1>1, <2>1, <2>2
<1>4. TypeOK' /\ \A p \in Paths : content'[p] >= content[p]
  BY <1>0, TypeStep, ContentGrows DEF WorkerTypeOK
<1>5. WorkerTypeOK'
  BY <1>0, <1>1, <1>2, <1>3, <1>4 DEF WorkerTypeOK, Evolves
<1>6. Progress
  BY <1>0, <1>1, <1>3, <1>4 DEF Progress, WorkerTypeOK
<1>7. RowsFulfilled' /\ DueInPast' /\ NewestQueued'
  BY <1>1, <1>3, <1>5, <1>6, RowsInv DEF Honest
<1>8. pc'[w] = "settle" /\ \A v \in Workers : v # w => pc'[v] = pc[v]
  BY <1>0, <1>1 DEF Readers, Procs
<1>9. \A v \in Workers : v # w => Framed(v)
  BY <1>1, <1>2, <1>8 DEF Framed
<1>10. TickInv(w)'
  BY <1>0, <1>1, <1>2, <1>5, <1>6, <1>8, CalmTick
<1> QED BY <1>5, <1>6, <1>7, <1>9, <1>10, Assemble

(* Operator, retention and clock change rows and no tick.                  *)
LEMMA MaintenanceHonest ==
  ASSUME WorkerInv,
         \/ \E ids \in SUBSET Redrivable : Redrive(ids)
         \/ \E ids \in SUBSET Prunable : Prune(ids)
         \/ \E e \in EventIds : TimePasses(e)
  PROVE  Evolves /\ Honest
<1>0. EventsTypeOK /\ \A e \in EventIds : e \in Stored <=> events[e] \in EventRows
  BY StoredRows DEF WorkerInv, WorkerTypeOK
<1>1. \A e \in EventIds : e \in Stored' <=> events'[e] \notin {Unused, Deleted}
  BY DEF Stored
<1>2. \A e \in Stored : e \in EventIds
  BY DEF Stored
<1>3. ASSUME NEW ids \in SUBSET Redrivable, Redrive(ids) PROVE Evolves /\ Honest
  <2>1. RedriveDeadLetters(ids)
    BY <1>3 DEF Redrive
  <2>2. /\ EventsTypeOK' /\ ids \subseteq Redrivable
        /\ \A e \in ids : /\ events'[e] \in EventRows /\ events'[e].status = "pending"
                          /\ events'[e].path = events[e].path /\ events'[e].phase = events[e].phase
        /\ \A e \in EventIds \ ids : events'[e] = events[e]
    BY <1>0, <2>1, RedriveRows
  <2>3. ids \subseteq Stored
    BY <2>2 DEF Redrivable
  <2>4. \A e \in EventIds : e \in Stored' <=> e \in Stored
    BY <2>2, <2>3, RowsAssumption DEF Stored
  <2>5. Evolves
    BY <2>2, <2>3 DEF Evolves
  <2>6. \A e \in Stored : (events'[e].phase = "publication" \/ events'[e].status = "done") => Fulfilled(e)
    BY <1>2, <2>2 DEF WorkerInv, RowsFulfilled
  <2>7. Stored' \subseteq EventIds
    BY DEF Stored
  <2> QED BY <1>2, <2>4, <2>5, <2>6, <2>7 DEF Honest
<1>4. ASSUME NEW ids \in SUBSET Prunable, Prune(ids) PROVE Evolves /\ Honest
  <2>1. PruneTerminalEvents(ids)
    BY <1>4 DEF Prune
  <2>2. /\ EventsTypeOK' /\ ids \subseteq Prunable /\ \A e \in ids : events'[e] = Deleted
        /\ \A e \in EventIds \ ids : events'[e] = events[e]
    BY <1>0, <2>1, PruneRows
  <2>3. ids \subseteq Stored
    BY <2>2 DEF Prunable
  <2>4. Evolves
    BY <2>2, <2>3 DEF Evolves
  <2>5. ASSUME NEW e \in Stored'
        PROVE  /\ e \in Stored
               /\ (events'[e].phase = "publication" \/ events'[e].status = "done") => Fulfilled(e)
    <3>1. e \in EventIds /\ events'[e] \notin {Unused, Deleted}
      BY DEF Stored
    <3>2. events'[e] = events[e]
      BY <2>2, <3>1
    <3> QED BY <3>1, <3>2 DEF Stored, WorkerInv, RowsFulfilled
  <2>6. ASSUME NEW e \in Stored, e \notin Stored', events[e].path \in Paths
        PROVE  events[e].path \in abandoned' \/ Fulfilled(e)
    <3>1. e \in EventIds /\ e \in ids
      BY <2>2, <2>6 DEF Stored
    <3>2. events[e].status \in {"done", "failed"}
      BY <2>2, <3>1 DEF Prunable
    <3>3. CASE events[e].status = "done"
      BY <3>3 DEF WorkerInv, RowsFulfilled
    <3>4. CASE events[e].status = "failed"
      BY <1>4, <2>6, <3>1, <3>4 DEF Prune
    <3> QED BY <3>2, <3>3, <3>4
  <2> QED BY <2>4, <2>5, <2>6 DEF Honest
<1>5. ASSUME NEW i \in EventIds, TimePasses(i) PROVE Evolves /\ Honest
  <2>1. Elapse(i)
    BY <1>5 DEF TimePasses
  <2>2. /\ EventsTypeOK' /\ i \in Stored /\ events'[i] \in EventRows
        /\ events'[i].path = events[i].path /\ events'[i].phase = events[i].phase
        /\ events'[i].status = events[i].status
        /\ \A e \in EventIds \ {i} : events'[e] = events[e]
    BY <1>0, <2>1, ElapseRows
  <2>3. \A e \in EventIds : e \in Stored' <=> e \in Stored
    BY <2>2, RowsAssumption DEF Stored
  <2>4. Evolves
    BY <2>2 DEF Evolves
  <2>5. \A e \in Stored : (events'[e].phase = "publication" \/ events'[e].status = "done") => Fulfilled(e)
    BY <1>2, <2>2 DEF WorkerInv, RowsFulfilled
  <2>6. Stored' \subseteq EventIds
    BY DEF Stored
  <2> QED BY <1>2, <2>3, <2>4, <2>5, <2>6 DEF Honest
<1> QED BY <1>3, <1>4, <1>5

LEMMA MaintenanceInv ==
  ASSUME WorkerInv,
         \/ \E ids \in SUBSET Redrivable : Redrive(ids)
         \/ \E ids \in SUBSET Prunable : Prune(ids)
         \/ \E e \in EventIds : TimePasses(e)
  PROVE  WorkerInv'
<1>0. WorkerTypeOK
  BY DEF WorkerInv
<1>1. Evolves /\ Honest
  BY MaintenanceHonest
<1>2. /\ UNCHANGED <<vars, batch, todo, due, reached>>
      /\ UNCHANGED <<pc, target, regen, draft, content>>
      /\ abandoned \subseteq abandoned' /\ abandoned' \subseteq Paths
      /\ redrives' \in Nat /\ lost' \in Nat
  BY <1>0 DEF Redrive, Prune, TimePasses, history, vars, locals, WorkerTypeOK
<1>3. WorkerTypeOK' /\ Progress
  BY <1>0, <1>1, <1>2, RowsChanged DEF WorkerTypeOK
<1>4. RowsFulfilled' /\ DueInPast' /\ NewestQueued'
  BY <1>1, <1>2, <1>3, RowsInv DEF Honest
<1>5. \A w \in Workers : Framed(w)
  BY <1>2 DEF Framed
<1> QED BY <1>3, <1>4, <1>5, Assemble

(* A post mutation and its event.                                          *)
LEMMA PostMutationInv ==
  ASSUME WorkerInv, NEW p \in Paths, NEW i \in EventIds, PostMutation(p, i), [Next]_vars
  PROVE  WorkerInv'
<1>0. WorkerTypeOK
  BY DEF WorkerInv
<1>1. /\ UNCHANGED <<batch, todo, reached, abandoned, redrives, lost, pc, target, regen, draft>>
      /\ content' = [content EXCEPT ![p] = @ + 1]
      /\ events[i] = Unused /\ events' = [events EXCEPT ![i] = NewEvent(p)]
      /\ due' = [due EXCEPT ![i] = content'[p]]
  BY DEF PostMutation, PostChange, Enqueue, locals
<1>2. NewEvent(p) \in EventRows
  BY DEF NewEvent, EventRows
<1>3. TypeOK' /\ \A q \in Paths : content'[q] >= content[q]
  BY <1>0, TypeStep, ContentGrows DEF WorkerTypeOK
<1>4. /\ content'[p] \in Nat /\ content'[p] = content[p] + 1
      /\ \A q \in Paths : content[q] \in Nat /\ content'[q] \in Nat
      /\ \A q \in Paths : q # p => content'[q] = content[q]
  BY <1>0, <1>1, <1>3 DEF WorkerTypeOK, TypeOK
<1>5. EventsTypeOK' /\ events'[i] = NewEvent(p)
      /\ \A e \in EventIds : e # i => events'[e] = events[e]
  BY <1>0, <1>1, <1>2 DEF WorkerTypeOK, EventsTypeOK
<1>6. due' \in [EventIds -> Nat] /\ due'[i] = content'[p]
      /\ \A e \in EventIds : e # i => due'[e] = due[e]
  BY <1>0, <1>1, <1>4 DEF WorkerTypeOK
<1>7. WorkerTypeOK'
  BY <1>0, <1>1, <1>3, <1>5, <1>6 DEF WorkerTypeOK
<1>8. Progress
  <2>1. Evolves
    BY <1>1, <1>5 DEF Evolves
  <2>2. \A q \in Paths : reached'[q] >= reached[q]
    BY <1>0, <1>1 DEF WorkerTypeOK
  <2> QED BY <1>1, <1>3, <1>6, <2>1, <2>2 DEF Progress
<1>9. i \notin Stored /\ Stored' = Stored \cup {i}
  BY <1>1, <1>2, <1>5, RowsAssumption DEF Stored
<1>10. \A e \in Stored : e \in EventIds /\ e # i
  BY <1>9 DEF Stored
<1>11. RowsFulfilled'
  <2>1. ASSUME NEW e \in Stored, events'[e].phase = "publication" \/ events'[e].status = "done"
        PROVE  Fulfilled(e)'
    BY <1>0, <1>5, <1>7, <1>8, <1>10, <2>1, FulfilledStays DEF WorkerInv, RowsFulfilled
  <2>2. ~(events'[i].phase = "publication" \/ events'[i].status = "done")
    BY <1>5 DEF NewEvent
  <2> QED BY <1>9, <2>1, <2>2 DEF RowsFulfilled
<1>12. DueInPast'
  <2>1. ASSUME NEW e \in Stored, events'[e].path \in Paths PROVE due'[e] <= content'[events'[e].path]
    <3>1. events'[e] = events[e] /\ due'[e] = due[e] /\ e \in EventIds
      BY <1>5, <1>6, <1>10
    <3>2. due[e] <= content[events[e].path]
      BY <2>1, <3>1 DEF WorkerInv, DueInPast
    <3>3. due[e] \in Nat
      BY <1>0, <3>1 DEF WorkerTypeOK
    <3> QED BY <1>3, <1>4, <2>1, <3>1, <3>2, <3>3
  <2>2. due'[i] <= content'[events'[i].path]
    BY <1>4, <1>5, <1>6 DEF NewEvent
  <2> QED BY <1>9, <2>1, <2>2 DEF DueInPast
<1>13. NewestQueued'
  <2> SUFFICES ASSUME NEW q \in Paths, reached'[q] < content'[q], q \notin abandoned'
               PROVE  \E e \in Stored' : events'[e].path = q /\ due'[e] = content'[q]
    BY DEF NewestQueued
  <2>1. CASE q = p
    BY <1>5, <1>6, <1>9, <2>1 DEF NewEvent
  <2>2. CASE q # p
    <3>1. PICK e \in Stored : events[e].path = q /\ due[e] = content[q]
      BY <1>1, <1>4, <2>2 DEF WorkerInv, NewestQueued
    <3> QED BY <1>4, <1>5, <1>6, <1>9, <1>10, <2>2, <3>1
  <2> QED BY <2>1, <2>2
<1>14. \A w \in Workers : Framed(w)
  BY <1>1 DEF Framed
<1> QED BY <1>7, <1>8, <1>11, <1>12, <1>13, <1>14, Assemble

------------------------------------------------------------------------------
(* Handlers and editors touch no tick.                                     *)

LEMMA HandlerFrame ==
  ASSUME TypeOK, NEW h \in Handlers,
         \/ ReaderStep(h) \/ (\E p \in Paths : CacheMiss(h, p))
         \/ ReaderFails(h) \/ RepairUnconfirmed(h) \/ CommitUnconfirmed(h) \/ Abort(h)
  PROVE  /\ UNCHANGED content
         /\ \A w \in Workers : /\ pc'[w] = pc[w] /\ target'[w] = target[w]
                               /\ regen'[w] = regen[w] /\ draft'[w] = draft[w]
<1>0. \A w \in Workers : w # h /\ w \in Procs /\ w \in Readers
  BY ProcsAssumption DEF Procs, Readers
<1>1. DOMAIN pc = Procs /\ DOMAIN target = Readers /\ DOMAIN regen = Readers /\ DOMAIN draft = Readers
  BY DEF TypeOK
<1>2. CASE ReaderStep(h)
  BY <1>0, <1>1, <1>2 DEF ReaderStep, ReadSnapshot, RepairGate, Repair, Resnapshot, Render,
     BaseUrlRequired, FinalizationGuard, CommitCache, CommitStale, Goto, locals
<1>3. CASE (\E p \in Paths : CacheMiss(h, p)) \/ ReaderFails(h) \/ RepairUnconfirmed(h)
           \/ CommitUnconfirmed(h) \/ Abort(h)
  BY <1>0, <1>1, <1>3 DEF CacheMiss, ReaderFails, RepairUnconfirmed, CommitUnconfirmed, Abort, Goto,
     locals
<1> QED BY <1>2, <1>3

LEMMA HandlerInv ==
  ASSUME WorkerInv, NEW h \in Handlers, HandlerRuns(h) \/ HandlerStep(h), [Next]_vars
  PROVE  WorkerInv'
<1>0. WorkerTypeOK /\ TypeOK /\ target[h] \in Paths
  BY DEF WorkerInv, WorkerTypeOK, TypeOK, Readers
<1>1. /\ UNCHANGED <<events, batch, todo, due, abandoned, redrives, lost>> /\ Reach(target[h])
  BY DEF HandlerRuns, HandlerStep
<1>2. /\ UNCHANGED content
      /\ \A w \in Workers : /\ pc'[w] = pc[w] /\ target'[w] = target[w]
                            /\ regen'[w] = regen[w] /\ draft'[w] = draft[w]
  BY <1>0, HandlerFrame DEF HandlerRuns, HandlerStep
<1>3. /\ lost' \in Nat /\ batch' \in [Workers -> [EventIds -> EventRows \cup {Unused}]]
      /\ todo' \in [Workers -> SUBSET Writes]
  BY <1>0, <1>1 DEF WorkerTypeOK
<1>4. WorkerTypeOK' /\ Progress
  BY <1>0, <1>1, <1>3, RowsKept
<1>5. RowsFulfilled' /\ DueInPast' /\ NewestQueued'
  BY <1>1, <1>2, <1>4, RowsStay
<1>6. \A w \in Workers : Framed(w)
  BY <1>1, <1>2 DEF Framed
<1> QED BY <1>4, <1>5, <1>6, Assemble

LEMMA EditorInv ==
  ASSUME WorkerInv, NEW x \in Editors, EditStep(x), [Next]_vars
  PROVE  WorkerInv'
<1>0. WorkerTypeOK /\ TypeOK /\ DOMAIN pc = Procs /\ \A w \in Workers : w # x /\ w \in Procs
  BY ProcsAssumption DEF WorkerInv, WorkerTypeOK, TypeOK, Readers, Procs
<1>1. UNCHANGED <<events, batch, todo, due, reached, abandoned, redrives, lost>>
  BY DEF EditStep, queue, history
<1>2. /\ UNCHANGED <<content, target, regen, draft>>
      /\ \A w \in Workers : pc'[w] = pc[w]
  BY <1>0 DEF EditStep, RequestEdit, EditorStep, EditGate, Mutate, MutateUnconfirmed, Abort, Goto,
     locals
<1>3. /\ lost' \in Nat /\ batch' \in [Workers -> [EventIds -> EventRows \cup {Unused}]]
      /\ todo' \in [Workers -> SUBSET Writes]
  BY <1>0, <1>1 DEF WorkerTypeOK
<1>4. WorkerTypeOK' /\ Progress
  BY <1>0, <1>1, <1>3, RowsKept
<1>5. RowsFulfilled' /\ DueInPast' /\ NewestQueued'
  BY <1>1, <1>2, <1>4, RowsStay
<1>6. \A w \in Workers : Framed(w)
  BY <1>1, <1>2 DEF Framed
<1> QED BY <1>4, <1>5, <1>6, Assemble

------------------------------------------------------------------------------
(* The invariant holds, however ticks, handlers and editors interleave.    *)

(* The quiet steps of a tick.                                              *)
Quiet(w) ==
  \/ SeamStep(w) \/ SeamFails(w) \/ LoadForPublication(w) \/ FinalizeCommitted(w)
  \/ FinalizeStale(w) \/ FinalizeUnconfirmed(w) \/ FinalizePublication(w)
  \/ FinalizeFailed(w) /\ pc[w] = "finalize"
  \/ PublishFeed(w) \/ Ping(w)

(* Ticks do not write posts.                                               *)
LEMMA QuietContent ==
  ASSUME NEW w \in Workers, Quiet(w)
  PROVE  UNCHANGED content
<1>1. CASE SeamStep(w) \/ SeamFails(w)
  BY <1>1 DEF SeamStep, SeamFails, ReadSnapshot, RepairGate, Repair, Resnapshot, Render,
     FinalizationGuard, ReaderFails, RepairUnconfirmed, BaseUrlRequired
<1>2. CASE ~(SeamStep(w) \/ SeamFails(w))
  BY <1>2 DEF Quiet, LoadForPublication, LoadCached, FinalizeCommitted, CommitCache, FinalizeStale,
     CommitStale, FinalizeUnconfirmed, CommitUnconfirmed, FinalizePublication, CheckCurrent,
     FinalizeFailed, FinalizeFails, PublishFeed, Publish, Ping, PingReturns
<1> QED BY <1>1, <1>2

LEMMA TickCases ==
  ASSUME NEW w \in Workers, TickStep(w) \/ SeamFails(w) \/ TickFault(w)
  PROVE  \/ Quiet(w)
         \/ Claim(w) \/ ClaimUnconfirmed(w)
         \/ \E p \in Paths : TakeGroup(w, p)
         \/ StatusWrite(w) \/ StatusWriteFails(w)
         \/ FinishGroup(w) \/ TickDies(w)
         \/ FinalizeFailed(w) /\ pc[w] # "finalize"
  BY DEF TickStep, TickFault, Quiet

LEMMA WorkerInvStep == WorkerInv /\ [WorkerNext]_allvars => WorkerInv'
<1> SUFFICES ASSUME WorkerInv, [WorkerNext]_allvars PROVE WorkerInv'
  OBVIOUS
<1>0. [Next]_vars
  BY SeamStepOrStutter
<1>1. ASSUME NEW p \in Paths, NEW e \in EventIds, PostMutation(p, e) PROVE WorkerInv'
  BY <1>0, <1>1, PostMutationInv
<1>2. ASSUME NEW w \in Workers, TickStep(w) \/ SeamFails(w) \/ TickFault(w) PROVE WorkerInv'
  <2>1. CASE Quiet(w)
    <3>1. WorkerTypeOK /\ Planned(w, todo[w], pc[w])
      BY DEF WorkerInv, TickInv
    <3>2. QuietTick(w)
      BY <2>1, <3>1, TicksQuiet DEF Quiet
    <3> QED BY <1>0, <2>1, <3>2, QuietInv, QuietContent
  <2>2. CASE Claim(w) \/ ClaimUnconfirmed(w)
    BY <2>2, ClaimInv
  <2>3. ASSUME NEW p \in Paths, TakeGroup(w, p) PROVE WorkerInv'
    BY <1>0, <2>3, TakeGroupInv
  <2>4. CASE StatusWrite(w) \/ StatusWriteFails(w)
    BY <2>4, StatusWriteInv
  <2>5. CASE FinishGroup(w) \/ TickDies(w)
    BY <1>0, <2>5, EndInv
  <2>6. CASE FinalizeFailed(w) /\ pc[w] # "finalize"
    BY <1>0, <2>6, MarkFailsInv
  <2> QED BY <1>2, <2>1, <2>2, <2>3, <2>4, <2>5, <2>6, TickCases
<1>3. ASSUME NEW h \in Handlers, HandlerRuns(h) \/ HandlerStep(h) PROVE WorkerInv'
  BY <1>0, <1>3, HandlerInv
<1>4. ASSUME NEW e \in Editors, EditStep(e) PROVE WorkerInv'
  BY <1>0, <1>4, EditorInv
<1>5. CASE \/ \E ids \in SUBSET Redrivable : Redrive(ids)
           \/ \E ids \in SUBSET Prunable : Prune(ids)
           \/ \E e \in EventIds : TimePasses(e)
  BY <1>5, MaintenanceInv
<1>6. CASE UNCHANGED allvars
  <2>1. UNCHANGED <<events, batch, todo, due, reached, abandoned, redrives, lost, content, pc, target,
                    regen, draft>>
    BY <1>6 DEF allvars, vars, queue, history, locals
  <2>2. WorkerTypeOK' /\ Progress
    BY <1>0, <2>1, RowsKept DEF WorkerInv, WorkerTypeOK
  <2>3. RowsFulfilled' /\ DueInPast' /\ NewestQueued'
    BY <2>1, <2>2, RowsStay
  <2>4. \A w \in Workers : Framed(w)
    BY <2>1 DEF Framed
  <2> QED BY <2>2, <2>3, <2>4, Assemble
<1> QED BY <1>1, <1>2, <1>3, <1>4, <1>5, <1>6 DEF WorkerNext

LEMMA WorkerInvInit == WorkerInit => WorkerInv
<1> SUFFICES ASSUME WorkerInit PROVE WorkerInv
  OBVIOUS
<1>1. TypeOK /\ content = [p \in Paths |-> 0] /\ pc = [x \in Procs |-> "idle"]
  BY TypeInit DEF WorkerInit, Init
<1>2. \A e \in EventIds : events[e] = Unused \/ events[e] = NewEvent(Corrupt)
  BY DEF WorkerInit, NoRows
<1>3. NewEvent(Corrupt) \in EventRows
  BY DEF NewEvent, EventRows
<1>4. EventsTypeOK
  <2>1. events = NoRows \/ \E e \in EventIds : events = [NoRows EXCEPT ![e] = NewEvent(Corrupt)]
    BY DEF WorkerInit
  <2> QED BY <1>3, <2>1 DEF EventsTypeOK, NoRows
<1>5. WorkerTypeOK
  BY <1>1, <1>4 DEF WorkerInit, WorkerTypeOK, NoRows
<1>6. \A e \in Stored : /\ events[e].path = Corrupt /\ events[e].path \notin Paths
                        /\ events[e].phase = "regeneration" /\ events[e].status = "pending"
  BY <1>2, QueueAssumption DEF Stored, NewEvent
<1>7. RowsFulfilled /\ DueInPast /\ NewestQueued
  BY <1>1, <1>6 DEF RowsFulfilled, DueInPast, NewestQueued, WorkerInit
<1>8. ASSUME NEW w \in Workers PROVE TickInv(w)
  <2>1. Claimed(w) = {} /\ todo[w] = {} /\ pc[w] = "idle"
    BY <1>1 DEF WorkerInit, Claimed, NoRows, Procs, Readers
  <2> QED BY <2>1 DEF TickInv, CopiesSound, WritesSound, PublishesFulfilled, DraftCovers,
         RepublishesOnly, Planned
<1> QED BY <1>5, <1>7, <1>8 DEF WorkerInv

(* The inductive invariant of the pipeline: publication follows            *)
(* regeneration whatever the ticks' copies of the rows say (worker.rs).    *)
THEOREM WorkerInvariance == WorkerSpec => []WorkerInv
  BY WorkerInvInit, WorkerInvStep, PTL DEF WorkerSpec

(* Every variable of queue, ticks and history keeps its type.              *)
THEOREM WorkerTypeCorrect == WorkerSpec => []WorkerTypeOK
<1>1. WorkerInv => WorkerTypeOK
  BY DEF WorkerInv
<1> QED BY <1>1, WorkerInvariance, PTL

(* An event completes only after the cache has held the change it was      *)
(* enqueued for, with any number of overlapping ticks and cache misses     *)
(* (process_feed_group, mark_pinged).                                      *)
THEOREM CompletionFollowsRegeneration == WorkerSpec => []DoneMeansRegenerated
<1>1. WorkerInv => DoneMeansRegenerated
  BY DEF WorkerInv, RowsFulfilled, Fulfilled, DoneMeansRegenerated
<1> QED BY <1>1, WorkerInvariance, PTL

------------------------------------------------------------------------------
(* Ticks that do not overlap.                                              *)

(* What a step is to keep: the budgets, completed rows, pending rows.      *)
DoneKept ==
  \A e \in EventIds :
    (e \in Stored /\ events[e].status = "done") => events'[e] = Deleted \/ events'[e].status = "done"
Keeps == WithinBudgets' /\ DoneKept /\ \A w \in Workers : PendingUntouched(w)'

(* What an untouched row looks like after a step.                          *)
Same(e) ==
  /\ e \in Stored' /\ events'[e].status = events[e].status
  /\ events'[e].regeneration_attempts = events[e].regeneration_attempts
  /\ events'[e].publication_attempts = events[e].publication_attempts

LEMMA PendingStays ==
  ASSUME NEW w \in Workers, PendingUntouched(w),
         \A e \in Pending(w)' : e \in Pending(w) /\ batch'[w][e] = batch[w][e] /\ Same(e)
  PROVE  PendingUntouched(w)'
  BY DEF PendingUntouched, Same

(* No row changes and nobody claims.                                       *)
LEMMA RowsStayKeeps ==
  ASSUME SerialInv, UNCHANGED events,
         \A w \in Workers : \A e \in Pending(w)' : e \in Pending(w) /\ batch'[w][e] = batch[w][e]
  PROVE  Keeps
<1>1. Stored' = Stored
  BY DEF Stored
<1>2. WithinBudgets'
  BY <1>1 DEF SerialInv, WithinBudgets
<1>3. DoneKept
  BY DEF DoneKept
<1>4. ASSUME NEW w \in Workers PROVE PendingUntouched(w)'
  <2>1. \A e \in Pending(w) : e \in Stored
    BY DEF SerialInv, PendingUntouched
  <2>2. \A e \in Pending(w)' : Same(e)
    BY <1>1, <2>1 DEF Same
  <2> QED BY <2>2, PendingStays DEF SerialInv
<1> QED BY <1>2, <1>3, <1>4 DEF Keeps

(* Before it settles every claimed row of a tick is pending.               *)
LEMMA PendingClaimed ==
  ASSUME NEW w \in Workers
  PROVE  /\ Pending(w) \subseteq Claimed(w)
         /\ Pending(w)' \subseteq Claimed(w)'
         /\ pc[w] # "settle" => Pending(w) = Claimed(w)
  BY DEF Pending

(* Somebody else's step.                                                   *)
LEMMA FramedPending ==
  ASSUME NEW w \in Workers, Framed(w)
  PROVE  Pending(w)' = Pending(w)
  BY DEF Framed, Pending, Claimed, Group, GroupOf

(* Quiet steps start before the outcome is planned.                        *)
LEMMA QuietBeforeSettle ==
  ASSUME NEW w \in Workers, Quiet(w)
  PROVE  pc[w] # "settle"
<1>1. CASE SeamStep(w) \/ SeamFails(w)
  BY <1>1 DEF SeamStep, SeamFails, ReadSnapshot, RepairGate, Repair, Resnapshot, Render,
     FinalizationGuard, ReaderFails, RepairUnconfirmed, BaseUrlRequired
<1>2. CASE ~(SeamStep(w) \/ SeamFails(w))
  BY <1>2 DEF Quiet, LoadForPublication, LoadCached, FinalizeCommitted, CommitCache, FinalizeStale,
     CommitStale, FinalizeUnconfirmed, CommitUnconfirmed, FinalizePublication, CheckCurrent,
     FinalizeFailed, FinalizeFails, PublishFeed, Publish, Ping, PingReturns
<1> QED BY <1>1, <1>2

(* Steps of the tick that write no row.                                    *)
LEMMA TickRowsKept ==
  ASSUME Serial, SerialInv, NEW w \in Workers,
         \/ Quiet(w) \/ (\E p \in Paths : TakeGroup(w, p)) \/ StatusWriteFails(w)
         \/ FinishGroup(w) \/ TickDies(w)
  PROVE  Keeps
<1>0. WorkerInv /\ WorkerTypeOK /\ TickInv(w)
  BY DEF SerialInv, WorkerInv
<1>1. CASE Quiet(w) \/ (\E p \in Paths : TakeGroup(w, p))
  <2>1. UNCHANGED <<events, batch>>
    <3>1. CASE Quiet(w)
      BY <1>0, <3>1, TicksQuiet DEF Quiet, QuietTick, TickInv
    <3>2. CASE \E p \in Paths : TakeGroup(w, p)
      BY <3>2 DEF TakeGroup, queue
    <3> QED BY <1>1, <3>1, <3>2
  <2>2. pc[w] # "settle"
    BY <1>1, QuietBeforeSettle DEF TakeGroup, BeginGroup
  <2>3. Claimed(w)' = Claimed(w)
    BY <2>1 DEF Claimed
  <2>4. \A e \in Pending(w)' : e \in Pending(w) /\ batch'[w][e] = batch[w][e]
    BY <2>1, <2>2, <2>3, PendingClaimed
  <2> QED BY <2>1, <2>4, RowsStayKeeps DEF Serial
<1>2. CASE StatusWriteFails(w)
  <2>1. UNCHANGED <<events, batch, pc, target>> /\ \E wr \in todo[w] : Settle(w, todo[w] \ {wr})
    BY <1>2 DEF StatusWriteFails, vars, locals
  <2>2. todo'[w] \subseteq todo[w]
    BY <1>0, <2>1 DEF Settle, WorkerTypeOK
  <2>3. Claimed(w)' = Claimed(w) /\ Group(w)' = Group(w)
    BY <2>1 DEF Claimed, Group, GroupOf
  <2>4. \A e \in Pending(w)' : e \in Pending(w)
    BY <2>1, <2>2, <2>3 DEF Pending
  <2> QED BY <2>1, <2>4, RowsStayKeeps DEF Serial
<1>3. CASE FinishGroup(w)
  <2>1. /\ UNCHANGED events /\ pc[w] = "settle" /\ todo[w] = {}
        /\ batch'[w] = [e \in EventIds |-> IF e \in Group(w) THEN Unused ELSE batch[w][e]]
    BY <1>0, <1>3 DEF FinishGroup, EndGroup, WorkerTypeOK
  <2>2. \A e \in Claimed(w)' : e \in Claimed(w) /\ e \notin Group(w) /\ batch'[w][e] = batch[w][e]
    BY <2>1 DEF Claimed
  <2>3. \A e \in Pending(w)' : e \in Pending(w) /\ batch'[w][e] = batch[w][e]
    BY <2>2, PendingClaimed DEF Pending
  <2> QED BY <2>1, <2>3, RowsStayKeeps DEF Serial
<1>4. CASE TickDies(w)
  <2>1. UNCHANGED events /\ batch'[w] = NoRows
    BY <1>0, <1>4 DEF TickDies, WorkerTypeOK
  <2>2. Claimed(w)' = {}
    BY <2>1 DEF Claimed, NoRows
  <2> QED BY <2>1, <2>2, PendingClaimed, RowsStayKeeps DEF Serial
<1> QED BY <1>1, <1>2, <1>3, <1>4

(* A claim: the copies are the rows.                                       *)
LEMMA ClaimKeeps ==
  ASSUME Serial, SerialInv, NEW w \in Workers, Claim(w) \/ ClaimUnconfirmed(w)
  PROVE  Keeps
<1>0. WorkerInv /\ WorkerTypeOK /\ EventsTypeOK /\ Claimed(w) = {}
  BY DEF SerialInv, WorkerInv, WorkerTypeOK, Claim, ClaimUnconfirmed
<1>1. PICK ids, purged :
        /\ ClaimPendingBatch(ids, purged) /\ (purged = {} \/ purged = ids \ Decodable(ids))
        /\ \/ UNCHANGED batch
           \/ batch' = [batch EXCEPT ![w] = [e \in EventIds |->
                          IF e \in Decodable(ids) THEN events'[e] ELSE Unused]]
  BY ClaimTaken
<1>2. /\ ids \subseteq Claimable /\ purged \subseteq ids
      /\ \A e \in purged : events'[e] = Deleted
      /\ \A e \in ids \ purged :
           /\ events'[e] \in EventRows /\ events'[e].status = "claimed"
           /\ events'[e].regeneration_attempts = events[e].regeneration_attempts
           /\ events'[e].publication_attempts = events[e].publication_attempts
      /\ \A e \in EventIds \ ids : events'[e] = events[e]
  BY <1>0, <1>1, ClaimRows
<1>3. ids \subseteq Stored /\ Stored \subseteq EventIds
      /\ \A e \in ids : events[e].status \in {"pending", "claimed"}
  BY <1>2 DEF Claimable, Stored
<1>4. WithinBudgets'
  <2> SUFFICES ASSUME NEW e \in Stored'
               PROVE  /\ events'[e].regeneration_attempts <=
                           IF events'[e].status = "failed" /\ events'[e].phase = "regeneration"
                             THEN RegenBudget + 1 ELSE RegenBudget
                      /\ events'[e].publication_attempts <=
                           IF events'[e].status = "failed" /\ events'[e].phase = "publication"
                             THEN PublicationBudget + 1 ELSE PublicationBudget
    BY DEF WithinBudgets
  <2>1. e \in EventIds /\ events'[e] \notin {Unused, Deleted}
    BY DEF Stored
  <2>2. CASE e \in ids
    <3>1. e \in ids \ purged /\ e \in Stored
      BY <1>2, <1>3, <2>1, <2>2
    <3>2. /\ events[e].regeneration_attempts <= RegenBudget
          /\ events[e].publication_attempts <= PublicationBudget
      BY <1>3, <3>1 DEF SerialInv, WithinBudgets
    <3> QED BY <1>2, <3>1, <3>2
  <2>3. CASE e \notin ids
    <3>1. events'[e] = events[e] /\ e \in Stored
      BY <1>2, <2>1, <2>3 DEF Stored
    <3> QED BY <3>1 DEF SerialInv, WithinBudgets
  <2> QED BY <2>2, <2>3
<1>5. DoneKept
  BY <1>2, <1>3 DEF DoneKept
<1>6. PendingUntouched(w)'
  <2>1. CASE UNCHANGED batch
    <3>1. Claimed(w)' = {}
      BY <1>0, <2>1 DEF Claimed
    <3> QED BY <3>1, PendingClaimed DEF PendingUntouched
  <2>2. CASE batch' = [batch EXCEPT ![w] = [e \in EventIds |->
                          IF e \in Decodable(ids) THEN events'[e] ELSE Unused]]
    <3>1. batch'[w] = [e \in EventIds |-> IF e \in Decodable(ids) THEN events'[e] ELSE Unused]
      BY <1>0, <2>2 DEF WorkerTypeOK
    <3>2. \A e \in Claimed(w)' : e \in EventIds /\ e \in Decodable(ids) /\ batch'[w][e] = events'[e]
      BY <3>1 DEF Claimed
    <3>3. Decodable(ids) \subseteq ids \ purged
      BY <1>1 DEF Decodable
    <3>4. \A e \in Claimed(w)' : e \in Stored' /\ events'[e].status = "claimed"
      BY <1>2, <3>2, <3>3, RowsAssumption DEF Stored
    <3> QED BY <3>2, <3>4, PendingClaimed DEF PendingUntouched
  <2> QED BY <1>1, <2>1, <2>2
<1> QED BY <1>4, <1>5, <1>6 DEF Keeps, Serial

(* A write to rows that are claimed and within their budgets.              *)
LEMMA WriteKeepsBudgets ==
  ASSUME SerialInv, NEW op \in Ops, NEW ids, Wrote(op, ids),
         \A e \in ids \cap Stored : events[e].status = "claimed",
         op = "retry_regeneration" =>
           \A e \in ids \cap Stored : events[e].regeneration_attempts < RegenBudget,
         op = "retry_publication" =>
           \A e \in ids \cap Stored : events[e].publication_attempts < PublicationBudget
  PROVE  WithinBudgets' /\ DoneKept
<1>0. EventsTypeOK /\ RegenBudget \in Nat /\ PublicationBudget \in Nat
  BY QueueAssumption DEF SerialInv, WorkerInv, WorkerTypeOK
<1>1. WithinBudgets'
  <2> SUFFICES ASSUME NEW e \in Stored'
               PROVE  /\ events'[e].regeneration_attempts <=
                           IF events'[e].status = "failed" /\ events'[e].phase = "regeneration"
                             THEN RegenBudget + 1 ELSE RegenBudget
                      /\ events'[e].publication_attempts <=
                           IF events'[e].status = "failed" /\ events'[e].phase = "publication"
                             THEN PublicationBudget + 1 ELSE PublicationBudget
    BY DEF WithinBudgets
  <2>1. e \in EventIds /\ events'[e] \notin {Unused, Deleted}
    BY DEF Stored
  <2>2. CASE e \in ids \cap Stored
    <3>1. After(op, events[e], events'[e])
      BY <2>1, <2>2 DEF Wrote
    <3>2. events[e] \in EventRows
      BY <1>0, <2>1, <2>2, StoredRows
    <3>3. /\ events[e].regeneration_attempts \in Nat /\ events[e].publication_attempts \in Nat
          /\ events[e].regeneration_attempts <= RegenBudget
          /\ events[e].publication_attempts <= PublicationBudget
      BY <2>2, <3>2 DEF EventRows, SerialInv, WithinBudgets
    <3>4. CASE op \in {"mark_regenerated", "mark_pinged", "restart_regeneration"}
      BY <1>0, <2>2, <3>1, <3>3, <3>4 DEF After
    <3>5. CASE op \in {"retry_regeneration", "dead_letter_regeneration"}
      BY <1>0, <2>2, <3>1, <3>3, <3>5 DEF After
    <3>6. CASE op \in {"retry_publication", "dead_letter_publication"}
      BY <1>0, <2>2, <3>1, <3>3, <3>6 DEF After
    <3> QED BY <3>4, <3>5, <3>6 DEF Ops
  <2>3. CASE e \notin ids \cap Stored
    <3>1. events'[e] = events[e] /\ e \in Stored
      BY <2>1, <2>3 DEF Wrote, Stored
    <3> QED BY <3>1 DEF SerialInv, WithinBudgets
  <2> QED BY <2>2, <2>3
<1>2. DoneKept
  BY DEF DoneKept, Wrote
<1> QED BY <1>1, <1>2

(* A status write goes to rows of this claim, each once.                   *)
LEMMA StatusWriteKeeps ==
  ASSUME Serial, SerialInv, NEW w \in Workers, StatusWrite(w)
  PROVE  Keeps
<1>0. WorkerInv /\ WorkerTypeOK /\ EventsTypeOK /\ TickInv(w) /\ PendingUntouched(w)
  BY DEF SerialInv, WorkerInv, WorkerTypeOK
<1>1. PICK wr \in todo[w] : Settle(w, todo[w] \ {wr}) /\ Perform(wr)
  BY DEF StatusWrite
<1>2. /\ UNCHANGED <<batch, pc, target>> /\ pc[w] \in {"settle", "publish"}
      /\ todo'[w] = todo[w] \ {wr}
  BY <1>0, <1>1 DEF StatusWrite, vars, locals, Settle, WorkerTypeOK
<1>3. wr \in Writes /\ wr.op \in Ops
  BY <1>0 DEF WorkerTypeOK, Writes
<1>4. Wrote(wr.op, wr.ids)
  BY <1>0, <1>1, <1>3, Performed
<1>5. /\ wr.ids \subseteq Group(w)
      /\ wr.op = "mark_regenerated" <=> pc[w] = "publish"
      /\ wr.op = "retry_regeneration" =>
           \A e \in wr.ids : batch[w][e].regeneration_attempts < RegenBudget
      /\ wr.op = "retry_publication" =>
           \A e \in wr.ids : batch[w][e].publication_attempts < PublicationBudget
      /\ \A x \in todo[w] : x # wr => wr.ids \cap x.ids = {}
  BY <1>0 DEF TickInv, Planned
<1>6. wr.ids \subseteq Pending(w)
  BY <1>0, <1>5, GroupRows DEF Pending
<1>7. \A e \in wr.ids : /\ e \in Stored /\ events[e].status = "claimed"
                        /\ events[e].regeneration_attempts = batch[w][e].regeneration_attempts
                        /\ events[e].publication_attempts = batch[w][e].publication_attempts
  BY <1>0, <1>6 DEF PendingUntouched
<1>8. WithinBudgets' /\ DoneKept
  BY <1>3, <1>4, <1>5, <1>7, WriteKeepsBudgets
<1>9. /\ Claimed(w)' = Claimed(w) /\ Group(w)' = Group(w)
  BY <1>2 DEF Claimed, Group, GroupOf
<1>10. ASSUME NEW e \in Pending(w)'
       PROVE  e \in Pending(w) /\ batch'[w][e] = batch[w][e] /\ Same(e)
  <2>1. e \in Pending(w) /\ e \in EventIds
    BY <1>2, <1>9 DEF Pending, Claimed
  <2>2. e \in Stored /\ events[e] \notin {Unused, Deleted}
    BY <1>0, <2>1 DEF PendingUntouched, Stored
  <2>3. CASE e \in wr.ids
    <3>1. pc[w] = "publish"
      BY <1>2, <1>5, <1>9, <2>3 DEF Pending
    <3>2. After("mark_regenerated", events[e], events'[e])
      BY <1>4, <1>5, <2>1, <2>2, <2>3, <3>1 DEF Wrote
    <3>3. e \in Stored'
      BY <2>1, <3>2, RowsAssumption DEF After, Stored
    <3> QED BY <1>2, <2>1, <3>2, <3>3 DEF After, Same
  <2>4. CASE e \notin wr.ids
    <3>1. events'[e] = events[e]
      BY <1>4, <2>1, <2>4 DEF Wrote
    <3>2. e \in Stored'
      BY <2>1, <2>2, <3>1 DEF Stored
    <3> QED BY <1>2, <2>1, <3>1, <3>2 DEF Same
  <2> QED BY <2>3, <2>4
<1>11. PendingUntouched(w)'
  BY <1>0, <1>10, PendingStays
<1> QED BY <1>8, <1>11 DEF Keeps, Serial

(* A mark_regenerated that is not acknowledged.                            *)
LEMMA MarkFailsKeeps ==
  ASSUME Serial, SerialInv, NEW w \in Workers, FinalizeFailed(w), pc[w] # "finalize"
  PROVE  Keeps
<1>0. WorkerInv /\ WorkerTypeOK /\ EventsTypeOK /\ PendingUntouched(w) /\ w \in Procs
      /\ DOMAIN pc = Procs
  BY DEF SerialInv, WorkerInv, WorkerTypeOK, TypeOK, Procs, Readers
<1> DEFINE ids == Regenerating(w, target[w])
<1>1. /\ UNCHANGED <<batch, target>> /\ pc[w] = "publish" /\ pc'[w] = "settle"
      /\ Settle(w, {}) /\ (UNCHANGED events \/ MarkRegenerated(ids))
  BY <1>0 DEF FinalizeFailed, FinalizeFails, Goto, locals
<1>2. todo'[w] = {}
  BY <1>0, <1>1 DEF Settle, WorkerTypeOK
<1>3. Claimed(w)' = Claimed(w) /\ Group(w)' = Group(w)
  BY <1>1 DEF Claimed, Group, GroupOf
<1>4. \A e \in Pending(w)' : e \in Claimed(w) /\ e \notin Group(w) /\ e \in EventIds
  BY <1>1, <1>2, <1>3 DEF Pending, Claimed
<1>5. Pending(w) = Claimed(w) /\ ids \subseteq Group(w) /\ Group(w) \subseteq Claimed(w)
  BY <1>0, <1>1, PendingClaimed, GroupRows
<1>6. CASE UNCHANGED events
  <2>1. \A e \in Pending(w)' : e \in Pending(w) /\ batch'[w][e] = batch[w][e]
    BY <1>1, <1>4, <1>5
  <2> QED BY <1>6, <2>1, RowsStayKeeps DEF Serial
<1>7. CASE MarkRegenerated(ids)
  <2>1. Wrote("mark_regenerated", ids)
    BY <1>0, <1>7, WriteEffects
  <2>2. \A e \in ids : events[e].status = "claimed"
    BY <1>0, <1>5 DEF PendingUntouched
  <2>3. WithinBudgets' /\ DoneKept
    <3>1. "mark_regenerated" \in Ops
      BY DEF Ops
    <3> QED BY <2>1, <2>2, <3>1, WriteKeepsBudgets
  <2>4. ASSUME NEW e \in Pending(w)'
        PROVE  e \in Pending(w) /\ batch'[w][e] = batch[w][e] /\ Same(e)
    <3>1. e \in Pending(w) /\ e \in EventIds /\ e \notin ids
      BY <1>4, <1>5
    <3>2. events'[e] = events[e] /\ e \in Stored
      BY <1>0, <2>1, <3>1 DEF Wrote, PendingUntouched
    <3>3. e \in Stored'
      BY <3>1, <3>2 DEF Stored
    <3> QED BY <1>1, <3>1, <3>2, <3>3 DEF Same
  <2>5. PendingUntouched(w)'
    BY <1>0, <2>4, PendingStays
  <2> QED BY <2>3, <2>5 DEF Keeps, Serial
<1> QED BY <1>1, <1>6, <1>7

(* Rows that are not claimed are nobody's business but the queue's.        *)
LEMMA UnclaimedKeeps ==
  ASSUME SerialInv, \A w \in Workers : Framed(w),
         WithinBudgets', DoneKept,
         \A e \in Stored : events[e].status = "claimed" => Same(e)
  PROVE  Keeps
<1>1. ASSUME NEW w \in Workers PROVE PendingUntouched(w)'
  <2>1. Pending(w)' = Pending(w) /\ batch'[w] = batch[w]
    BY FramedPending DEF Framed
  <2>2. \A e \in Pending(w) : e \in Stored /\ events[e].status = "claimed"
    BY DEF SerialInv, PendingUntouched
  <2> QED BY <2>1, <2>2, PendingStays DEF SerialInv
<1> QED BY <1>1 DEF Keeps

LEMMA MaintenanceKeeps ==
  ASSUME SerialInv,
         \/ \E ids \in SUBSET Redrivable : Redrive(ids)
         \/ \E ids \in SUBSET Prunable : Prune(ids)
         \/ \E e \in EventIds : TimePasses(e)
  PROVE  Keeps
<1>0. EventsTypeOK /\ WithinBudgets
      /\ \A e \in EventIds : e \in Stored <=> events[e] \in EventRows
  BY StoredRows DEF SerialInv, WorkerInv, WorkerTypeOK
<1>1. \A w \in Workers : Framed(w)
  BY DEF Framed, Redrive, Prune, TimePasses, vars, locals
<1>2. Stored \subseteq EventIds /\ Stored' \subseteq EventIds /\ RegenBudget \in Nat
      /\ PublicationBudget \in Nat
  BY QueueAssumption DEF Stored
<1>3. ASSUME NEW ids \in SUBSET Redrivable, Redrive(ids) PROVE Keeps
  <2>1. RedriveDeadLetters(ids)
    BY <1>3 DEF Redrive
  <2>2. /\ \A e \in ids :
             /\ events'[e] \in EventRows /\ events'[e].status = "pending"
             /\ events'[e].regeneration_attempts =
                  IF events[e].phase = "regeneration" THEN 0 ELSE events[e].regeneration_attempts
             /\ events'[e].publication_attempts =
                  IF events[e].phase = "publication" THEN 0 ELSE events[e].publication_attempts
        /\ \A e \in EventIds \ ids : events'[e] = events[e]
    BY <1>0, <2>1, RedriveRows
  <2>3. ids \subseteq Stored /\ \A e \in ids : events[e].status = "failed"
    BY DEF Redrivable
  <2>4. \A e \in EventIds : e \in Stored' <=> e \in Stored
    BY <2>2, <2>3, RowsAssumption DEF Stored
  <2>5. \A e \in ids : events[e].phase \in {"regeneration", "publication"}
    BY <1>0, <1>2, <2>3 DEF EventRows
  <2>6. \A e \in ids : /\ events'[e].regeneration_attempts <= RegenBudget
                       /\ events'[e].publication_attempts <= PublicationBudget
    BY <1>0, <1>2, <2>2, <2>3, <2>5 DEF WithinBudgets
  <2>7. WithinBudgets'
    BY <1>0, <1>2, <2>2, <2>4, <2>6 DEF WithinBudgets
  <2>8. DoneKept
    BY <2>2, <2>3 DEF DoneKept
  <2>9. \A e \in Stored : events[e].status = "claimed" => Same(e)
    BY <1>2, <2>2, <2>3, <2>4 DEF Same
  <2> QED BY <1>1, <2>7, <2>8, <2>9, UnclaimedKeeps
<1>4. ASSUME NEW ids \in SUBSET Prunable, Prune(ids) PROVE Keeps
  <2>1. PruneTerminalEvents(ids)
    BY <1>4 DEF Prune
  <2>2. /\ \A e \in ids : events'[e] = Deleted
        /\ \A e \in EventIds \ ids : events'[e] = events[e]
    BY <1>0, <2>1, PruneRows
  <2>3. \A e \in ids : events[e].status \in {"done", "failed"}
    BY DEF Prunable
  <2>4. \A e \in Stored' : e \in Stored /\ events'[e] = events[e]
    BY <2>2 DEF Stored
  <2>5. WithinBudgets'
    BY <1>0, <2>4 DEF WithinBudgets
  <2>6. DoneKept
    BY <2>2 DEF DoneKept
  <2>7. \A e \in Stored : events[e].status = "claimed" => Same(e)
    BY <2>2, <2>3 DEF Same, Stored
  <2> QED BY <1>1, <2>5, <2>6, <2>7, UnclaimedKeeps
<1>5. ASSUME NEW i \in EventIds, TimePasses(i) PROVE Keeps
  <2>1. Elapse(i)
    BY <1>5 DEF TimePasses
  <2>2. /\ events'[i] \in EventRows
        /\ events'[i].path = events[i].path /\ events'[i].phase = events[i].phase
        /\ events'[i].status = events[i].status
        /\ events'[i].regeneration_attempts = events[i].regeneration_attempts
        /\ events'[i].publication_attempts = events[i].publication_attempts
        /\ \A e \in EventIds \ {i} : events'[e] = events[e] /\ i \in Stored
    BY <1>0, <2>1, ElapseRows
  <2>3. \A e \in EventIds : e \in Stored' <=> e \in Stored
    BY <1>0, <2>1, <2>2, ElapseRows, RowsAssumption DEF Stored
  <2>4. \A e \in Stored : /\ events'[e].status = events[e].status
                          /\ events'[e].phase = events[e].phase
                          /\ events'[e].regeneration_attempts = events[e].regeneration_attempts
                          /\ events'[e].publication_attempts = events[e].publication_attempts
    BY <1>2, <2>2
  <2>5. WithinBudgets'
    BY <1>0, <1>2, <2>3, <2>4 DEF WithinBudgets
  <2>6. DoneKept
    BY <2>4 DEF DoneKept
  <2>7. \A e \in Stored : events[e].status = "claimed" => Same(e)
    BY <1>2, <2>3, <2>4 DEF Same
  <2> QED BY <1>1, <2>5, <2>6, <2>7, UnclaimedKeeps
<1> QED BY <1>3, <1>4, <1>5

LEMMA PostMutationKeeps ==
  ASSUME SerialInv, NEW p \in Paths, NEW i \in EventIds, PostMutation(p, i)
  PROVE  Keeps
<1>0. EventsTypeOK /\ WithinBudgets /\ RegenBudget \in Nat /\ PublicationBudget \in Nat
  BY QueueAssumption DEF SerialInv, WorkerInv, WorkerTypeOK
<1>1. /\ \A w \in Workers : Framed(w)
      /\ events[i] = Unused /\ events' = [events EXCEPT ![i] = NewEvent(p)]
  BY DEF PostMutation, PostChange, Enqueue, locals, Framed
<1>2. events'[i] = NewEvent(p) /\ \A e \in EventIds : e # i => events'[e] = events[e]
  BY <1>0, <1>1 DEF EventsTypeOK
<1>3. \A e \in Stored : e \in EventIds /\ e # i /\ e \in Stored' /\ events'[e] = events[e]
  BY <1>1, <1>2 DEF Stored
<1>4. \A e \in Stored' : e = i \/ e \in Stored
  BY <1>2 DEF Stored
<1>5. WithinBudgets'
  BY <1>0, <1>2, <1>3, <1>4 DEF WithinBudgets, NewEvent
<1>6. DoneKept
  BY <1>3 DEF DoneKept
<1>7. \A e \in Stored : events[e].status = "claimed" => Same(e)
  BY <1>3 DEF Same
<1> QED BY <1>1, <1>5, <1>6, <1>7, UnclaimedKeeps

(* Handlers, editors and stuttering.                                       *)
LEMMA OthersKeep ==
  ASSUME SerialInv,
         \/ \E h \in Handlers : HandlerRuns(h) \/ HandlerStep(h)
         \/ \E x \in Editors : EditStep(x)
         \/ UNCHANGED allvars
  PROVE  Keeps
<1>0. TypeOK /\ DOMAIN pc = Procs
  BY DEF SerialInv, WorkerInv, WorkerTypeOK, TypeOK
<1>1. UNCHANGED events /\ \A w \in Workers : Framed(w)
  <2>1. ASSUME NEW h \in Handlers, HandlerRuns(h) \/ HandlerStep(h)
        PROVE  UNCHANGED events /\ \A w \in Workers : Framed(w)
    <3>1. UNCHANGED <<events, batch, todo>>
      BY <2>1 DEF HandlerRuns, HandlerStep
    <3>2. \A w \in Workers : /\ pc'[w] = pc[w] /\ target'[w] = target[w]
                             /\ regen'[w] = regen[w] /\ draft'[w] = draft[w]
      BY <1>0, <2>1, HandlerFrame DEF HandlerRuns, HandlerStep
    <3> QED BY <3>1, <3>2 DEF Framed
  <2>2. ASSUME NEW x \in Editors, EditStep(x)
        PROVE  UNCHANGED events /\ \A w \in Workers : Framed(w)
    <3>1. \A w \in Workers : w # x /\ w \in Procs
      BY ProcsAssumption DEF Procs, Readers
    <3> QED BY <1>0, <2>2, <3>1 DEF EditStep, RequestEdit, EditorStep, EditGate, Mutate,
           MutateUnconfirmed, Abort, Goto, locals, queue, Framed
  <2>3. CASE UNCHANGED allvars
    BY <2>3 DEF allvars, vars, queue, locals, Framed
  <2> QED BY <2>1, <2>2, <2>3
<1> QED BY <1>1, FramedPending, RowsStayKeeps DEF Framed

LEMMA SerialStep == ASSUME Serial PROVE SerialInv /\ [WorkerNext]_allvars => SerialInv' /\ Keeps
<1> SUFFICES ASSUME SerialInv, [WorkerNext]_allvars PROVE SerialInv' /\ Keeps
  OBVIOUS
<1>1. WorkerInv'
  BY WorkerInvStep DEF SerialInv
<1>2. Keeps
  <2>1. ASSUME NEW w \in Workers, TickStep(w) \/ SeamFails(w) \/ TickFault(w) PROVE Keeps
    <3>1. CASE \/ Quiet(w) \/ (\E p \in Paths : TakeGroup(w, p)) \/ StatusWriteFails(w)
               \/ FinishGroup(w) \/ TickDies(w)
      BY <3>1, TickRowsKept
    <3>2. CASE Claim(w) \/ ClaimUnconfirmed(w)
      BY <3>2, ClaimKeeps
    <3>3. CASE StatusWrite(w)
      BY <3>3, StatusWriteKeeps
    <3>4. CASE FinalizeFailed(w) /\ pc[w] # "finalize"
      BY <3>4, MarkFailsKeeps
    <3> QED BY <2>1, <3>1, <3>2, <3>3, <3>4, TickCases
  <2>2. ASSUME NEW p \in Paths, NEW e \in EventIds, PostMutation(p, e) PROVE Keeps
    BY <2>2, PostMutationKeeps
  <2>3. CASE \/ \E h \in Handlers : HandlerRuns(h) \/ HandlerStep(h)
             \/ \E x \in Editors : EditStep(x)
             \/ UNCHANGED allvars
    BY <2>3, OthersKeep
  <2>4. CASE \/ \E ids \in SUBSET Redrivable : Redrive(ids)
             \/ \E ids \in SUBSET Prunable : Prune(ids)
             \/ \E e \in EventIds : TimePasses(e)
    BY <2>4, MaintenanceKeeps
  <2> QED BY <2>1, <2>2, <2>3, <2>4 DEF WorkerNext
<1> QED BY <1>1, <1>2 DEF SerialInv, Keeps

LEMMA SerialInit == WorkerInit => SerialInv
<1> SUFFICES ASSUME WorkerInit PROVE SerialInv
  OBVIOUS
<1>1. WorkerInv
  BY WorkerInvInit
<1>2. \A e \in Stored : events[e] = NewEvent(Corrupt)
  BY DEF WorkerInit, NoRows, Stored
<1>3. WithinBudgets
  BY <1>2, QueueAssumption DEF WithinBudgets, NewEvent
<1>4. \A w \in Workers : Claimed(w) = {}
  BY DEF WorkerInit, Claimed, NoRows
<1> QED BY <1>1, <1>3, <1>4 DEF SerialInv, PendingUntouched, Pending

(* With ticks that do not overlap, each phase spends its own budget and no *)
(* more, through retries, lost writes, redrives and ticks that die between *)
(* claim and write (partition_retry_attempts, redrive_dead_letters).       *)
THEOREM SerialBudgets == ASSUME Serial PROVE WorkerSpec => []BudgetsAreKept
<1>1. SerialInv /\ [WorkerNext]_allvars => SerialInv'
  BY SerialStep
<1>2. SerialInv => BudgetsAreKept
  <2> SUFFICES ASSUME SerialInv, NEW e \in Stored
               PROVE  /\ events[e].regeneration_attempts > RegenBudget =>
                           /\ events[e].regeneration_attempts = RegenBudget + 1
                           /\ events[e].status = "failed" /\ events[e].phase = "regeneration"
                      /\ events[e].publication_attempts > PublicationBudget =>
                           events[e].publication_attempts = PublicationBudget + 1
    BY DEF BudgetsAreKept
  <2>1. events[e] \in EventRows
    BY StoredRows DEF SerialInv, WorkerInv, WorkerTypeOK, Stored
  <2>2. events[e].regeneration_attempts \in Nat /\ events[e].publication_attempts \in Nat
        /\ RegenBudget \in Nat /\ PublicationBudget \in Nat
    BY <2>1, QueueAssumption DEF EventRows
  <2> QED BY <2>2 DEF SerialInv, WithinBudgets
<1> QED BY <1>1, <1>2, SerialInit, PTL DEF WorkerSpec

(* With ticks that do not overlap, no late status write of an earlier      *)
(* claim reopens a completed event (mark_pinged and the writes by id).     *)
THEOREM SerialDoneIsFinal == ASSUME Serial PROVE WorkerSpec => DoneIsFinal
<1>1. SerialInv /\ [WorkerNext]_allvars => SerialInv'
  BY SerialStep
<1>2. SerialInv /\ [WorkerNext]_allvars =>
        [\A e \in EventIds :
           (e \in Stored /\ events[e].status = "done") =>
              events'[e] = Deleted \/ events'[e].status = "done"]_allvars
  BY SerialStep DEF Keeps, DoneKept
<1> QED BY <1>1, <1>2, SerialInit, PTL DEF WorkerSpec, DoneIsFinal

------------------------------------------------------------------------------
(* No cache misses either: the cache only moves forward.                   *)

(* What a quiet step does to the cache.                                    *)
LEMMA QuietCache ==
  ASSUME WorkerTypeOK, NEW w \in Workers, Quiet(w)
  PROVE  \/ UNCHANGED reached /\ \A p \in Paths : cache'[p] = cache[p] \/ cache'[p] = NoRow
         \/ UNCHANGED cache /\ Reach(target[w])
         \/ /\ pc[w] = "finalize" /\ regen[w] /\ pc'[w] \notin {"gate", "finalize"}
            /\ cache' = [cache EXCEPT ![target[w]] = draft[w]] /\ Reach(target[w])
<1>0. w \in Procs /\ DOMAIN pc = Procs
  BY DEF WorkerTypeOK, TypeOK, Procs, Readers
<1>1. ASSUME RepairMalformedHub \/ UNCHANGED stored
      PROVE  \A p \in Paths : cache'[p] = cache[p] \/ cache'[p] = NoRow
  BY <1>1 DEF RepairMalformedHub, Reconfigure, EmptyCache, stored
<1>2. CASE SeamStep(w)
  <2>1. UNCHANGED reached
    BY <1>2 DEF SeamStep, queue, history
  <2>2. CASE Repair(w)
    BY <1>1, <2>1, <2>2 DEF Repair
  <2>3. CASE ~Repair(w)
    BY <1>2, <2>1, <2>3 DEF SeamStep, ReadSnapshot, RepairGate, Resnapshot, Render,
       FinalizationGuard, stored
  <2> QED BY <2>2, <2>3
<1>3. CASE SeamFails(w)
  <2>1. UNCHANGED reached
    BY <1>3 DEF SeamFails, history
  <2>2. CASE RepairUnconfirmed(w)
    BY <1>1, <2>1, <2>2 DEF RepairUnconfirmed
  <2>3. CASE ~RepairUnconfirmed(w)
    BY <1>3, <2>1, <2>3 DEF SeamFails, ReaderFails, BaseUrlRequired, stored
  <2> QED BY <2>2, <2>3
<1>4. CASE FinalizeCommitted(w)
  BY <1>0, <1>4 DEF FinalizeCommitted, CommitCache, Upsert, Goto
<1>5. CASE FinalizeUnconfirmed(w)
  BY <1>0, <1>5 DEF FinalizeUnconfirmed, CommitUnconfirmed, Upsert, Goto, OnError
<1>6. CASE LoadForPublication(w) \/ FinalizeStale(w) \/ FinalizePublication(w) \/ FinalizeFailed(w)
           \/ PublishFeed(w) \/ Ping(w)
  <2>1. UNCHANGED reached /\ UNCHANGED cache
    BY <1>6 DEF LoadForPublication, LoadCached, FinalizeStale, CommitStale, FinalizePublication,
       CheckCurrent, FinalizeFailed, FinalizeFails, PublishFeed, Publish, Ping, PingReturns, stored,
       history
  <2> QED BY <2>1
<1> QED BY <1>2, <1>3, <1>4, <1>5, <1>6 DEF Quiet

(* A step that changes neither cache nor history: rendering aside, a draft *)
(* is what it was.                                                         *)
LEMMA CacheStays ==
  ASSUME WorkerInv, WorkerTypeOK', CacheIsNewest, UNCHANGED reached,
         \A p \in Paths : content'[p] >= content[p],
         \A p \in Paths : cache'[p] = cache[p] \/ cache'[p] = NoRow,
         \A w \in Workers :
           (pc'[w] \in {"gate", "finalize"} /\ regen'[w]) =>
             /\ target'[w] = target[w]
             /\ \/ pc[w] \in {"gate", "finalize"} /\ regen[w] /\ draft'[w] = draft[w]
                \/ draft'[w] \in Rows /\ draft'[w].version = content[target[w]]
  PROVE  CacheIsNewest'
<1>0. /\ \A p \in Paths : reached[p] \in Nat /\ content[p] \in Nat /\ content'[p] \in Nat
      /\ \A w \in Workers : target[w] \in Paths
  BY DEF WorkerInv, WorkerTypeOK, TypeOK, Readers
<1>1. \A p \in Paths :
        reached'[p] <= content'[p] /\ (cache'[p] # NoRow => cache'[p].version = reached'[p])
  BY <1>0 DEF CacheIsNewest
<1>2. ASSUME NEW w \in Workers, pc'[w] \in {"gate", "finalize"}, regen'[w]
      PROVE  draft'[w].version >= reached'[target'[w]] /\ draft'[w].version <= content'[target'[w]]
  <2>1. target'[w] = target[w] /\ target[w] \in Paths
    BY <1>0, <1>2
  <2>2. CASE pc[w] \in {"gate", "finalize"} /\ regen[w] /\ draft'[w] = draft[w]
    <3>1. draft[w] \in Rows
      BY <2>2 DEF WorkerInv, TickInv, DraftCovers
    <3>2. draft[w].version \in Nat
      BY <3>1 DEF Rows
    <3> QED BY <1>0, <2>1, <2>2, <3>2 DEF CacheIsNewest
  <2>3. CASE draft'[w] \in Rows /\ draft'[w].version = content[target[w]]
    BY <1>0, <2>1, <2>3 DEF CacheIsNewest
  <2> QED BY <1>2, <2>2, <2>3
<1> QED BY <1>1, <1>2 DEF CacheIsNewest

(* The tick's own steps.                                                   *)
LEMMA QuietNewest ==
  ASSUME Serial, WorkerInv, WorkerTypeOK', CacheIsNewest, NEW w \in Workers, Quiet(w)
  PROVE  CacheIsNewest'
<1>0. WorkerTypeOK /\ TypeOK' /\ TickInv(w) /\ target[w] \in Paths
  BY DEF WorkerInv, WorkerTypeOK, TypeOK, Readers
<1>1. QuietTick(w)
  BY <1>0, TicksQuiet DEF Quiet, TickInv
<1>2. UNCHANGED content
  BY QuietContent
<1>3. /\ \A p \in Paths : reached[p] \in Nat /\ content[p] \in Nat
      /\ UNCHANGED <<target, regen>>
  BY <1>0, <1>1 DEF WorkerTypeOK, TypeOK, QuietTick
<1>4. \A v \in Workers :
        (pc'[v] \in {"gate", "finalize"} /\ regen'[v]) =>
          /\ target'[v] = target[v]
          /\ \/ pc[v] \in {"gate", "finalize"} /\ regen[v] /\ draft'[v] = draft[v]
             \/ draft'[v] \in Rows /\ draft'[v].version = content[target[v]]
  BY <1>1 DEF QuietTick, Serial
<1>5. CASE UNCHANGED reached /\ \A p \in Paths : cache'[p] = cache[p] \/ cache'[p] = NoRow
  BY <1>2, <1>3, <1>4, <1>5, CacheStays
<1>6. CASE UNCHANGED cache /\ Reach(target[w])
  <2>1. \A p \in Paths : reached'[p] = reached[p]
    BY <1>0, <1>6, ReachGrows DEF CacheIsNewest
  <2>2. UNCHANGED reached
    BY <1>0, <2>1 DEF WorkerTypeOK
  <2> QED BY <1>2, <1>3, <1>4, <1>6, <2>2, CacheStays
<1>7. CASE /\ pc[w] = "finalize" /\ regen[w] /\ pc'[w] \notin {"gate", "finalize"}
           /\ cache' = [cache EXCEPT ![target[w]] = draft[w]] /\ Reach(target[w])
  <2> DEFINE p == target[w]
  <2>1. draft[w] \in Rows
    BY <1>0, <1>7 DEF TickInv, DraftCovers
  <2>2. /\ draft[w] # NoRow /\ draft[w].version \in Nat
        /\ draft[w].version >= reached[p] /\ draft[w].version <= content[p]
    BY <1>7, <2>1, ValuesAssumption DEF Rows, CacheIsNewest
  <2>3. cache'[p] = draft[w] /\ \A q \in Paths : q # p => cache'[q] = cache[q]
    BY <1>0, <1>7 DEF WorkerTypeOK, TypeOK
  <2>4. /\ reached'[p] >= draft[w].version
        /\ reached'[p] = reached[p] \/ reached'[p] = draft[w].version
        /\ \A q \in Paths : q # p => reached'[q] = reached[q]
    BY <1>0, <1>7, <2>2, <2>3, ReachGrows
  <2>5. reached'[p] = draft[w].version
    BY <1>0, <1>3, <2>2, <2>4
  <2>6. \A q \in Paths :
          reached'[q] <= content'[q] /\ (cache'[q] # NoRow => cache'[q].version = reached'[q])
    BY <1>2, <2>2, <2>3, <2>4, <2>5 DEF CacheIsNewest
  <2> QED BY <1>7, <2>6 DEF CacheIsNewest, Serial
<1> QED BY <1>0, <1>5, <1>6, <1>7, QuietCache

(* An edit empties the cache or leaves it.                                 *)
LEMMA EditCache ==
  ASSUME TypeOK, NEW x \in Editors, EditStep(x)
  PROVE  \A p \in Paths : cache'[p] = cache[p] \/ cache'[p] = NoRow
<1>1. want[x] \in Edits
  BY DEF TypeOK
<1>2. CASE Mutate(x) \/ MutateUnconfirmed(x)
  <2>1. Apply(want[x]) \/ UNCHANGED stored
    BY <1>2 DEF Mutate, MutateUnconfirmed
  <2>2. PICK c : UNCHANGED stored \/ Reconfigure(c)
    BY <1>1, <2>1, AppliedChange
  <2> QED BY <2>2 DEF Reconfigure, EmptyCache, stored
<1>3. CASE ~(Mutate(x) \/ MutateUnconfirmed(x))
  BY <1>3 DEF EditStep, RequestEdit, EditorStep, EditGate, Abort, stored
<1> QED BY <1>2, <1>3

LEMMA NewestStep ==
  ASSUME Serial, Handlers = {}
  PROVE  WorkerInv /\ CacheIsNewest /\ [WorkerNext]_allvars => CacheIsNewest'
<1> SUFFICES ASSUME WorkerInv, CacheIsNewest, [WorkerNext]_allvars PROVE CacheIsNewest'
  OBVIOUS
<1>0. WorkerTypeOK /\ TypeOK /\ WorkerTypeOK' /\ DOMAIN pc = Procs
      /\ \A w \in Workers : w \in Procs
  BY WorkerInvStep DEF WorkerInv, WorkerTypeOK, TypeOK, Procs, Readers
<1>1. \A p \in Paths : content'[p] >= content[p]
  BY <1>0, SeamStepOrStutter, ContentGrows
<1>2. ASSUME NEW w \in Workers, TickStep(w) \/ SeamFails(w) \/ TickFault(w) PROVE CacheIsNewest'
  <2>1. CASE Quiet(w)
    BY <1>0, <2>1, QuietNewest
  <2>2. ASSUME \/ Claim(w) \/ ClaimUnconfirmed(w)
               \/ \E p \in Paths : TakeGroup(w, p)
               \/ StatusWrite(w) \/ StatusWriteFails(w)
               \/ FinishGroup(w) \/ TickDies(w)
               \/ FinalizeFailed(w) /\ pc[w] # "finalize"
        PROVE  CacheIsNewest'
    <3>1. UNCHANGED <<cache, reached, draft>>
      BY <2>2 DEF Claim, ClaimUnconfirmed, StatusWrite, StatusWriteFails, FinishGroup, EndGroup,
         TickDies, Abort, FinalizeFailed, FinalizeFails, TakeGroup, BeginGroup, queue, history, vars,
         stored, locals
    <3>2. pc'[w] \in {"gate", "finalize"} => pc'[w] = pc[w] /\ UNCHANGED <<target, regen>>
      BY <1>0, <2>2 DEF Claim, ClaimUnconfirmed, StatusWrite, StatusWriteFails, FinishGroup, EndGroup,
         TickDies, Abort, FinalizeFailed, FinalizeFails, TakeGroup, BeginGroup, vars, locals, Goto
    <3>3. \A v \in Workers :
            (pc'[v] \in {"gate", "finalize"} /\ regen'[v]) =>
              target'[v] = target[v] /\ pc[v] \in {"gate", "finalize"} /\ regen[v] /\ draft'[v] = draft[v]
      <4> SUFFICES ASSUME NEW v \in Workers, pc'[v] \in {"gate", "finalize"}, regen'[v]
                   PROVE  target'[v] = target[v] /\ pc[v] \in {"gate", "finalize"} /\ regen[v]
                          /\ draft'[v] = draft[v]
        OBVIOUS
      <4>1. v = w
        BY DEF Serial
      <4> QED BY <3>1, <3>2, <4>1
    <3> QED BY <1>0, <1>1, <3>1, <3>3, CacheStays
  <2>3. \/ Quiet(w)
        \/ Claim(w) \/ ClaimUnconfirmed(w)
        \/ \E p \in Paths : TakeGroup(w, p)
        \/ StatusWrite(w) \/ StatusWriteFails(w)
        \/ FinishGroup(w) \/ TickDies(w)
        \/ FinalizeFailed(w) /\ pc[w] # "finalize"
    BY <1>2, TickCases
  <2> QED BY <2>1, <2>2, <2>3
<1>3. ASSUME NEW p \in Paths, NEW e \in EventIds, PostMutation(p, e) PROVE CacheIsNewest'
  <2>1. UNCHANGED <<cache, reached, draft, pc, target, regen>>
    BY <1>3 DEF PostMutation, PostChange, stored, locals
  <2> QED BY <1>0, <1>1, <2>1, CacheStays
<1>4. ASSUME NEW x \in Editors, EditStep(x) PROVE CacheIsNewest'
  <2>1. \A w \in Workers : w # x
    BY ProcsAssumption
  <2>2. /\ UNCHANGED <<reached, draft, target, regen>>
        /\ \A w \in Workers : pc'[w] = pc[w]
    BY <1>0, <1>4, <2>1 DEF EditStep, RequestEdit, EditorStep, EditGate, Mutate, MutateUnconfirmed,
       Abort, Goto, locals, queue, history
  <2>3. \A p \in Paths : cache'[p] = cache[p] \/ cache'[p] = NoRow
    BY <1>0, <1>4, EditCache
  <2> QED BY <1>0, <1>1, <2>2, <2>3, CacheStays
<1>5. CASE \/ \E ids \in SUBSET Redrivable : Redrive(ids)
           \/ \E ids \in SUBSET Prunable : Prune(ids)
           \/ \E e \in EventIds : TimePasses(e)
           \/ UNCHANGED allvars
  <2>1. UNCHANGED <<cache, reached, draft, pc, target, regen>>
    BY <1>5 DEF Redrive, Prune, TimePasses, vars, locals, history, allvars, queue
  <2> QED BY <1>0, <1>1, <2>1, CacheStays
<1> QED BY <1>2, <1>3, <1>4, <1>5 DEF WorkerNext

LEMMA NewestInit == WorkerInit => CacheIsNewest
<1> SUFFICES ASSUME WorkerInit PROVE CacheIsNewest
  OBVIOUS
<1>1. /\ \A p \in Paths : reached[p] = 0 /\ content[p] = 0 /\ cache[p] = NoRow
      /\ \A w \in Workers : pc[w] = "idle"
  BY DEF WorkerInit, Init, EmptyCache, Procs, Readers
<1> QED BY <1>1 DEF CacheIsNewest

(* A feed whose newest change has never been in the cache has an event     *)
(* that is not done, or lost a dead letter to retention: whatever overlaps *)
(* and whatever is lost, the outbox does not forget a change.              *)
Unforgotten ==
  \A p \in Paths :
    reached[p] < content[p] =>
      \/ \E e \in Stored : events[e].path = p /\ events[e].status # "done"
      \/ p \in abandoned

LEMMA InvUnforgotten == WorkerInv => Unforgotten
<1> SUFFICES ASSUME WorkerInv, NEW p \in Paths, reached[p] < content[p], p \notin abandoned
             PROVE  \E e \in Stored : events[e].path = p /\ events[e].status # "done"
  BY DEF Unforgotten
<1>1. reached[p] \in Nat /\ content[p] \in Nat
  BY DEF WorkerInv, WorkerTypeOK, TypeOK
<1>2. PICK e \in Stored : events[e].path = p /\ due[e] = content[p]
  BY DEF WorkerInv, NewestQueued
<1>3. events[e].status # "done"
  <2> SUFFICES ASSUME events[e].status = "done" PROVE FALSE
    OBVIOUS
  <2>1. reached[p] >= content[p]
    BY <1>2 DEF WorkerInv, RowsFulfilled, Fulfilled
  <2> QED BY <1>1, <2>1
<1> QED BY <1>2, <1>3

(* The outbox forgets no change (enqueue in the mutation's transaction,    *)
(* claim_pending_batch, prune_terminal_events), for any interleaving.      *)
THEOREM ChangesUnforgotten == WorkerSpec => []Unforgotten
  BY InvUnforgotten, WorkerInvariance, PTL

(* Without overlapping ticks and without cache misses a cached feed that   *)
(* lags behind its posts always has an event that will refresh it.         *)
THEOREM SerialNoUpdateIsLost ==
  ASSUME Serial, Handlers = {}
  PROVE  WorkerSpec => []NoUpdateIsLost
<1>1. WorkerInv /\ CacheIsNewest /\ [WorkerNext]_allvars => CacheIsNewest'
  BY NewestStep
<1>2. WorkerInv /\ CacheIsNewest => NoUpdateIsLost
  BY InvUnforgotten DEF Unforgotten, CacheIsNewest, NoUpdateIsLost
<1> QED BY <1>1, <1>2, NewestInit, WorkerInvariance, PTL DEF WorkerSpec
===============================================================================
