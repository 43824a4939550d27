------------------------ MODULE ServerLifecycleProofs ------------------------
(***************************************************************************)
(* Proofs about ServerLifecycle, for any finite sets of uploads, of        *)
(* activations and of spools left by earlier processes, and any number of  *)
(* slots.                                                                  *)
(***************************************************************************)
EXTENDS ServerLifecycle, ScheduledWorkerProofs

(* Where an owner task has its spool.                                      *)
Spooled == {"select", "processing", "reaping", "hold", "cleanup"}

(* What the request, the owner and the finalizer of u know of each other:  *)
(* who holds the slot, the spool, the lease and the mutex, who is tracked, *)
(* and that an attempt that has succeeded is held until its lease closes.  *)
Attempt(u) ==
  /\ req[u] \in {"idle", "receiving", "arrived", "admitting", "spooling"} => own[u] = "none"
  /\ own[u] = "none" => u \notin leases /\ answer[u] = "none" /\ fin[u] = "none"
  /\ req[u] \in {"admitting", "spooling"} \/ own[u] \notin {"none", "done"} => u \in permits
  /\ u \in spools <=> own[u] \in Spooled
  /\ req[u] \in {"streaming", "starting", "preparing", "prepared"} => u \in leases
  /\ req[u] = "prepared" \/ fin[u] = "running" => answer[u] = "ok" /\ u \in leases
  /\ answer[u] = "ok" /\ u \in leases => own[u] = "hold"
  /\ fin[u] # "none" => req[u] \in {"awaiting", "gone"}
  /\ own[u] \notin {"none", "done"} => u \in owners
  /\ fin[u] \notin {"none", "done"} => u \in finalizations
  /\ ownersLock = u <=> req[u] = "spooling"

(* Who can be left at each stage of the root's start and shutdown.         *)
Staged(u) ==
  /\ serve \in {"locked", "prepared", "starting", "rollback", "failed"} => req[u] = "idle"
  /\ serve \in {"owners", "finalizers", "workers", "leaving", "releasing", "released"} =>
       req[u] \in {"idle", "gone"}
  /\ serve \in {"finalizers", "workers", "leaving", "releasing", "released"} =>
       own[u] \in {"none", "done"}
  /\ serve \in {"workers", "leaving", "releasing", "released"} =>
       fin[u] \in {"none", "done"}

(* The root leaves once its workers have been drained.                     *)
WorkersDrained ==
  serve \in {"releasing", "released"} => pc[Owner] \in Closed /\ Admitted = {}

ServerInv ==
  /\ DrainInv
  /\ ServerTypeOK
  /\ Cardinality(permits) <= Slots
  /\ serve \notin {"locked", "failed"} => spools \subseteq Uploads
  /\ \A u \in Uploads : Attempt(u) /\ Staged(u)
  /\ WorkersDrained

(* The types of the upload preparation alone.                              *)
UploadTypes ==
  /\ closed \in BOOLEAN /\ signalled \in BOOLEAN
  /\ permits \subseteq Uploads
  /\ ownersLock \in Uploads \cup {Nobody}
  /\ owners \subseteq Uploads /\ finalizations \subseteq Uploads
  /\ spools \subseteq Uploads \cup OldSpools
  /\ leases \subseteq Uploads /\ started \subseteq Uploads
  /\ answer \in [Uploads -> {"none", "ok", "failed"}]
  /\ req \in [Uploads -> {"idle", "receiving", "arrived", "admitting", "spooling",
                          "streaming", "starting", "preparing", "prepared", "awaiting",
                          "finishing", "gone"}]
  /\ own \in [Uploads -> {"none", "select", "processing", "reaping", "hold", "cleanup",
                          "freeing", "done"}]
  /\ fin \in [Uploads -> {"none", "running", "finishing", "done"}]

(* A step of the request, the owner or the finalizer of u.                 *)
UploadStep(u) ==
  Receive(u) \/ RequestStep(u) \/ Disconnect(u) \/ OwnerStep(u) \/ FinalizerStep(u)

(* The types survive a step of an attempt.                                 *)
LEMMA UploadTypesStep ==
  ASSUME UploadTypes, NEW u \in Uploads, UploadStep(u)
  PROVE  UploadTypes'
<1> USE UploadsAssumption DEF UploadTypes
<1>1. CASE Receive(u) \/ Refuse(u) \/ Arrive(u)
  BY <1>1 DEF Receive, Refuse, Arrive, ReqAt, OwnAt, FinAt, GiveUp, shutdownVars, taskSets
<1>2. CASE TryAcquire(u)
  BY <1>2 DEF TryAcquire, ReqAt, OwnAt, FinAt, GiveUp, shutdownVars, taskSets
<1>3. CASE LockOwners(u)
  BY <1>3 DEF LockOwners, ReqAt, OwnAt, FinAt, GiveUp, shutdownVars, taskSets
<1>4. CASE Spawn(u)
  BY <1>4 DEF Spawn, ReqAt, OwnAt, FinAt, GiveUp, shutdownVars, taskSets
<1>5. CASE SpawnFails(u)
  BY <1>5 DEF SpawnFails, ReqAt, OwnAt, FinAt, GiveUp, shutdownVars, taskSets
<1>6. CASE StreamEnds(u)
  BY <1>6 DEF StreamEnds, ReqAt, OwnAt, FinAt, GiveUp, shutdownVars, taskSets
<1>7. CASE StreamFails(u)
  BY <1>7 DEF StreamFails, ReqAt, OwnAt, FinAt, GiveUp, shutdownVars, taskSets
<1>8. CASE StreamStopped(u)
  BY <1>8 DEF StreamStopped, ReqAt, OwnAt, FinAt, GiveUp, shutdownVars, taskSets
<1>9. CASE SendStart(u)
  BY <1>9 DEF SendStart, ReqAt, OwnAt, FinAt, GiveUp, shutdownVars, taskSets
<1>10. CASE Answered(u)
  BY <1>10 DEF Answered, ReqAt, OwnAt, FinAt, GiveUp, shutdownVars, taskSets
<1>11. CASE SpawnFinalizer(u)
  BY <1>11 DEF SpawnFinalizer, ReqAt, OwnAt, FinAt, GiveUp, shutdownVars, taskSets
<1>12. CASE PreparedUnusable(u)
  BY <1>12 DEF PreparedUnusable, ReqAt, OwnAt, FinAt, GiveUp, shutdownVars, taskSets
<1>13. CASE Return(u)
  BY <1>13 DEF Return, ReqAt, OwnAt, FinAt, GiveUp, shutdownVars, taskSets
<1>14. CASE Disconnect(u)
  BY <1>14 DEF Disconnect, ReqAt, OwnAt, FinAt, GiveUp, shutdownVars, taskSets
<1>15. CASE OwnerStopped(u)
  BY <1>15 DEF OwnerStopped, ReqAt, OwnAt, FinAt, GiveUp, shutdownVars, taskSets
<1>16. CASE OwnerAbandoned(u)
  BY <1>16 DEF OwnerAbandoned, ReqAt, OwnAt, FinAt, GiveUp, shutdownVars, taskSets
<1>17. CASE OwnerStarts(u)
  BY <1>17 DEF OwnerStarts, ReqAt, OwnAt, FinAt, GiveUp, shutdownVars, taskSets
<1>18. CASE ProcessSucceeds(u)
  BY <1>18 DEF ProcessSucceeds, ReqAt, OwnAt, FinAt, GiveUp, shutdownVars, taskSets
<1>19. CASE ProcessStops(u)
  BY <1>19 DEF ProcessStops, ReqAt, OwnAt, FinAt, GiveUp, shutdownVars, taskSets
<1>20. CASE Reap(u)
  BY <1>20 DEF Reap, ReqAt, OwnAt, FinAt, GiveUp, shutdownVars, taskSets
<1>21. CASE LeaseEnds(u)
  BY <1>21 DEF LeaseEnds, ReqAt, OwnAt, FinAt, GiveUp, shutdownVars, taskSets
<1>22. CASE CleanupSpool(u)
  BY <1>22 DEF CleanupSpool, ReqAt, OwnAt, FinAt, GiveUp, shutdownVars, taskSets
<1>23. CASE FreeSlot(u)
  BY <1>23 DEF FreeSlot, ReqAt, OwnAt, FinAt, GiveUp, shutdownVars, taskSets
<1>24. CASE Finalize(u)
  BY <1>24 DEF Finalize, ReqAt, OwnAt, FinAt, GiveUp, shutdownVars, taskSets
<1>25. CASE HandBack(u)
  BY <1>25 DEF HandBack, ReqAt, OwnAt, FinAt, GiveUp, shutdownVars, taskSets
<1> QED BY <1>1, <1>2, <1>3, <1>4, <1>5, <1>6, <1>7, <1>8, <1>9, <1>10, <1>11, <1>12,
           <1>13, <1>14, <1>15, <1>16, <1>17, <1>18, <1>19, <1>20, <1>21, <1>22, <1>23,
           <1>24, <1>25 DEF UploadStep, RequestStep, OwnerStep, FinalizerStep

(* A step of an attempt keeps what its three tasks know of each other.     *)
LEMMA AttemptOwnStep ==
  ASSUME UploadTypes, NEW u \in Uploads, Attempt(u), UploadStep(u)
  PROVE  Attempt(u)'
<1> USE UploadsAssumption DEF UploadTypes, Attempt, Spooled
<1>1. CASE Receive(u) \/ Refuse(u) \/ Arrive(u)
  BY <1>1 DEF Receive, Refuse, Arrive, ReqAt, OwnAt, FinAt, GiveUp, shutdownVars, taskSets
<1>2. CASE TryAcquire(u)
  BY <1>2 DEF TryAcquire, ReqAt, OwnAt, FinAt, GiveUp, shutdownVars, taskSets
<1>3. CASE LockOwners(u)
  BY <1>3 DEF LockOwners, ReqAt, OwnAt, FinAt, GiveUp, shutdownVars, taskSets
<1>4. CASE Spawn(u)
  BY <1>4 DEF Spawn, ReqAt, OwnAt, FinAt, GiveUp, shutdownVars, taskSets
<1>5. CASE SpawnFails(u)
  BY <1>5 DEF SpawnFails, ReqAt, OwnAt, FinAt, GiveUp, shutdownVars, taskSets
<1>6. CASE StreamEnds(u)
  BY <1>6 DEF StreamEnds, ReqAt, OwnAt, FinAt, GiveUp, shutdownVars, taskSets
<1>7. CASE StreamFails(u)
  BY <1>7 DEF StreamFails, ReqAt, OwnAt, FinAt, GiveUp, shutdownVars, taskSets
<1>8. CASE StreamStopped(u)
  BY <1>8 DEF StreamStopped, ReqAt, OwnAt, FinAt, GiveUp, shutdownVars, taskSets
<1>9. CASE SendStart(u)
  BY <1>9 DEF SendStart, ReqAt, OwnAt, FinAt, GiveUp, shutdownVars, taskSets
<1>10. CASE Answered(u)
  BY <1>10 DEF Answered, ReqAt, OwnAt, FinAt, GiveUp, shutdownVars, taskSets
<1>11. CASE SpawnFinalizer(u)
  BY <1>11 DEF SpawnFinalizer, ReqAt, OwnAt, FinAt, GiveUp, shutdownVars, taskSets
<1>12. CASE PreparedUnusable(u)
  BY <1>12 DEF PreparedUnusable, ReqAt, OwnAt, FinAt, GiveUp, shutdownVars, taskSets
<1>13. CASE Return(u)
  BY <1>13 DEF Return, ReqAt, OwnAt, FinAt, GiveUp, shutdownVars, taskSets
<1>14. CASE Disconnect(u)
  BY <1>14 DEF Disconnect, ReqAt, OwnAt, FinAt, GiveUp, shutdownVars, taskSets
<1>15. CASE OwnerStopped(u)
  BY <1>15 DEF OwnerStopped, ReqAt, OwnAt, FinAt, GiveUp, shutdownVars, taskSets
<1>16. CASE OwnerAbandoned(u)
  BY <1>16 DEF OwnerAbandoned, ReqAt, OwnAt, FinAt, GiveUp, shutdownVars, taskSets
<1>17. CASE OwnerStarts(u)
  BY <1>17 DEF OwnerStarts, ReqAt, OwnAt, FinAt, GiveUp, shutdownVars, taskSets
<1>18. CASE ProcessSucceeds(u)
  BY <1>18 DEF ProcessSucceeds, ReqAt, OwnAt, FinAt, GiveUp, shutdownVars, taskSets
<1>19. CASE ProcessStops(u)
  BY <1>19 DEF ProcessStops, ReqAt, OwnAt, FinAt, GiveUp, shutdownVars, taskSets
<1>20. CASE Reap(u)
  BY <1>20 DEF Reap, ReqAt, OwnAt, FinAt, GiveUp, shutdownVars, taskSets
<1>21. CASE LeaseEnds(u)
  BY <1>21 DEF LeaseEnds, ReqAt, OwnAt, FinAt, GiveUp, shutdownVars, taskSets
<1>22. CASE CleanupSpool(u)
  BY <1>22 DEF CleanupSpool, ReqAt, OwnAt, FinAt, GiveUp, shutdownVars, taskSets
<1>23. CASE FreeSlot(u)
  BY <1>23 DEF FreeSlot, ReqAt, OwnAt, FinAt, GiveUp, shutdownVars, taskSets
<1>24. CASE Finalize(u)
  BY <1>24 DEF Finalize, ReqAt, OwnAt, FinAt, GiveUp, shutdownVars, taskSets
<1>25. CASE HandBack(u)
  BY <1>25 DEF HandBack, ReqAt, OwnAt, FinAt, GiveUp, shutdownVars, taskSets
<1> QED BY <1>1, <1>2, <1>3, <1>4, <1>5, <1>6, <1>7, <1>8, <1>9, <1>10, <1>11, <1>12,
           <1>13, <1>14, <1>15, <1>16, <1>17, <1>18, <1>19, <1>20, <1>21, <1>22, <1>23,
           <1>24, <1>25 DEF UploadStep, RequestStep, OwnerStep, FinalizerStep

(* What an attempt u leaves of another one, v: finished tasks are reaped   *)
(* from the tracked sets, the rest stays.                                  *)
Apart(v) ==
  /\ req'[v] = req[v] /\ own'[v] = own[v] /\ fin'[v] = fin[v] /\ answer'[v] = answer[v]
  /\ v \in permits' <=> v \in permits
  /\ v \in spools' <=> v \in spools
  /\ v \in leases' <=> v \in leases
  /\ v \in owners /\ own[v] # "done" => v \in owners'
  /\ v \in finalizations /\ fin[v] # "done" => v \in finalizations'
  /\ ownersLock' = v <=> ownersLock = v

(* Attempts leave each other alone.                                        *)
LEMMA AttemptsApart ==
  ASSUME UploadTypes, NEW u \in Uploads, Attempt(u), UploadStep(u),
         NEW v \in Uploads, v # u
  PROVE  Apart(v)
<1> USE UploadsAssumption DEF UploadTypes, Apart
<1>0. ownersLock = u <=> req[u] = "spooling"
  BY DEF Attempt
<1>1. CASE Receive(u) \/ Refuse(u) \/ Arrive(u)
  BY <1>1 DEF Receive, Refuse, Arrive, ReqAt, OwnAt, FinAt, GiveUp, shutdownVars, taskSets
<1>2. CASE TryAcquire(u)
  BY <1>2 DEF TryAcquire, ReqAt, OwnAt, FinAt, GiveUp, shutdownVars, taskSets
<1>3. CASE LockOwners(u)
  BY <1>3, <1>0 DEF LockOwners, ReqAt, OwnAt, FinAt, GiveUp, shutdownVars, taskSets
<1>4. CASE Spawn(u)
  BY <1>4, <1>0 DEF Spawn, ReqAt, OwnAt, FinAt, GiveUp, shutdownVars, taskSets
<1>5. CASE SpawnFails(u)
  BY <1>5, <1>0 DEF SpawnFails, ReqAt, OwnAt, FinAt, GiveUp, shutdownVars, taskSets
<1>6. CASE StreamEnds(u)
  BY <1>6 DEF StreamEnds, ReqAt, OwnAt, FinAt, GiveUp, shutdownVars, taskSets
<1>7. CASE StreamFails(u)
  BY <1>7 DEF StreamFails, ReqAt, OwnAt, FinAt, GiveUp, shutdownVars, taskSets
<1>8. CASE StreamStopped(u)
  BY <1>8 DEF StreamStopped, ReqAt, OwnAt, FinAt, GiveUp, shutdownVars, taskSets
<1>9. CASE SendStart(u)
  BY <1>9 DEF SendStart, ReqAt, OwnAt, FinAt, GiveUp, shutdownVars, taskSets
<1>10. CASE Answered(u)
  BY <1>10 DEF Answered, ReqAt, OwnAt, FinAt, GiveUp, shutdownVars, taskSets
<1>11. CASE SpawnFinalizer(u)
  BY <1>11 DEF SpawnFinalizer, ReqAt, OwnAt, FinAt, GiveUp, shutdownVars, taskSets
<1>12. CASE PreparedUnusable(u)
  BY <1>12 DEF PreparedUnusable, ReqAt, OwnAt, FinAt, GiveUp, shutdownVars, taskSets
<1>13. CASE Return(u)
  BY <1>13 DEF Return, ReqAt, OwnAt, FinAt, GiveUp, shutdownVars, taskSets
<1>14. CASE Disconnect(u)
  BY <1>14 DEF Disconnect, ReqAt, OwnAt, FinAt, GiveUp, shutdownVars, taskSets
<1>15. CASE OwnerStopped(u)
  BY <1>15 DEF OwnerStopped, ReqAt, OwnAt, FinAt, GiveUp, shutdownVars, taskSets
<1>16. CASE OwnerAbandoned(u)
  BY <1>16 DEF OwnerAbandoned, ReqAt, OwnAt, FinAt, GiveUp, shutdownVars, taskSets
<1>17. CASE OwnerStarts(u)
  BY <1>17 DEF OwnerStarts, ReqAt, OwnAt, FinAt, GiveUp, shutdownVars, taskSets
<1>18. CASE ProcessSucceeds(u)
  BY <1>18 DEF ProcessSucceeds, ReqAt, OwnAt, FinAt, GiveUp, shutdownVars, taskSets
<1>19. CASE ProcessStops(u)
  BY <1>19 DEF ProcessStops, ReqAt, OwnAt, FinAt, GiveUp, shutdownVars, taskSets
<1>20. CASE Reap(u)
  BY <1>20 DEF Reap, ReqAt, OwnAt, FinAt, GiveUp, shutdownVars, taskSets
<1>21. CASE LeaseEnds(u)
  BY <1>21 DEF LeaseEnds, ReqAt, OwnAt, FinAt, GiveUp, shutdownVars, taskSets
<1>22. CASE CleanupSpool(u)
  BY <1>22 DEF CleanupSpool, ReqAt, OwnAt, FinAt, GiveUp, shutdownVars, taskSets
<1>23. CASE FreeSlot(u)
  BY <1>23 DEF FreeSlot, ReqAt, OwnAt, FinAt, GiveUp, shutdownVars, taskSets
<1>24. CASE Finalize(u)
  BY <1>24 DEF Finalize, ReqAt, OwnAt, FinAt, GiveUp, shutdownVars, taskSets
<1>25. CASE HandBack(u)
  BY <1>25 DEF HandBack, ReqAt, OwnAt, FinAt, GiveUp, shutdownVars, taskSets
<1> QED BY <1>1, <1>2, <1>3, <1>4, <1>5, <1>6, <1>7, <1>8, <1>9, <1>10, <1>11, <1>12,
           <1>13, <1>14, <1>15, <1>16, <1>17, <1>18, <1>19, <1>20, <1>21, <1>22, <1>23,
           <1>24, <1>25 DEF UploadStep, RequestStep, OwnerStep, FinalizerStep

(* An attempt left alone keeps what its tasks know.                        *)
LEMMA AttemptApart ==
  ASSUME UploadTypes, NEW v \in Uploads, Attempt(v), Apart(v)
  PROVE  Attempt(v)'
  BY DEF UploadTypes, Attempt, Apart, Spooled

(* The slots are never over-committed.                                     *)
LEMMA SlotsStep ==
  ASSUME UploadTypes, NEW u \in Uploads, UploadStep(u), Cardinality(permits) <= Slots
  PROVE  Cardinality(permits') <= Slots
<1>1. IsFiniteSet(permits)
  BY UploadsAssumption, FS_Subset DEF UploadTypes
<1>2. CASE permits' \subseteq permits
  <2>1. Cardinality(permits') <= Cardinality(permits)
    BY <1>1, <1>2, FS_Subset
  <2>2. IsFiniteSet(permits')
    BY <1>1, <1>2, FS_Subset
  <2>3. Cardinality(permits) \in Nat /\ Cardinality(permits') \in Nat /\ Slots \in Nat
    BY <1>1, <2>2, FS_CardinalityType, UploadsAssumption
  <2> QED BY <2>1, <2>3
<1>3. CASE TryAcquire(u) /\ ~(permits' \subseteq permits)
  <2>1. permits' = permits \cup {u} /\ u \notin permits /\ Cardinality(permits) # Slots
    BY <1>3 DEF TryAcquire
  <2>2. Cardinality(permits') = Cardinality(permits) + 1
    BY <1>1, <2>1, FS_AddElement
  <2>3. Cardinality(permits) \in Nat /\ Slots \in Nat
    BY <1>1, FS_CardinalityType, UploadsAssumption
  <2> QED BY <2>1, <2>2, <2>3
<1>4. permits' \subseteq permits \/ TryAcquire(u)
  BY DEF UploadStep, Receive, RequestStep, Refuse, Arrive, LockOwners, Spawn, SpawnFails,
     StreamEnds, StreamFails, StreamStopped, SendStart, Answered, SpawnFinalizer,
     PreparedUnusable, Return, Disconnect, OwnerStep, OwnerStopped, OwnerAbandoned,
     OwnerStarts, ProcessSucceeds, ProcessStops, Reap, LeaseEnds, CleanupSpool, FreeSlot,
     FinalizerStep, Finalize, HandBack
<1> QED BY <1>2, <1>3, <1>4

(* A spool is made under the name of its upload.                           *)
LEMMA SpoolsStep ==
  ASSUME UploadTypes, NEW u \in Uploads, UploadStep(u), spools \subseteq Uploads
  PROVE  spools' \subseteq Uploads
  BY DEF UploadStep, Receive, RequestStep, Refuse, Arrive, TryAcquire, LockOwners, Spawn,
     SpawnFails, StreamEnds, StreamFails, StreamStopped, SendStart, Answered, SpawnFinalizer,
     PreparedUnusable, Return, Disconnect, OwnerStep, OwnerStopped, OwnerAbandoned,
     OwnerStarts, ProcessSucceeds, ProcessStops, Reap, LeaseEnds, CleanupSpool, FreeSlot,
     FinalizerStep, Finalize, HandBack

(* Once a request is over, or has not come, its tasks only come to an end. *)
LEMMA QuietStep ==
  ASSUME UploadTypes, NEW u \in Uploads, Attempt(u), UploadStep(u), ~Receive(u),
         req[u] \in {"idle", "gone"}
  PROVE  /\ req'[u] = req[u]
         /\ own[u] \in {"none", "done"} => own'[u] = own[u]
         /\ fin[u] \in {"none", "done"} => fin'[u] = fin[u]
<1> USE DEF UploadTypes, ReqAt, OwnAt, FinAt, GiveUp
<1>1. CASE RequestStep(u) \/ Disconnect(u)
  BY <1>1 DEF RequestStep, Refuse, Arrive, TryAcquire, LockOwners, Spawn, SpawnFails,
     StreamEnds, StreamFails, StreamStopped, SendStart, Answered, SpawnFinalizer,
     PreparedUnusable, Return, Disconnect
<1>2. CASE OwnerStep(u)
  BY <1>2 DEF OwnerStep, OwnerStopped, OwnerAbandoned, OwnerStarts, ProcessSucceeds,
     ProcessStops, Reap, LeaseEnds, CleanupSpool, FreeSlot
<1>3. CASE FinalizerStep(u)
  BY <1>3 DEF FinalizerStep, Finalize, HandBack
<1> QED BY <1>1, <1>2, <1>3 DEF UploadStep

(* A request comes by no other step than its reception.                    *)
LEMMA ReceivesAlone ==
  ASSUME ServerTypeOK, NEW u \in Uploads,
         RequestStep(u) \/ Disconnect(u) \/ OwnerStep(u) \/ FinalizerStep(u)
  PROVE  ~Receive(u)
<1> SUFFICES ASSUME Receive(u) PROVE FALSE
  OBVIOUS
<1>1. req[u] = "idle" /\ req'[u] = "receiving"
  BY DEF Receive, ReqAt, ServerTypeOK
<1>2. CASE RequestStep(u) \/ Disconnect(u)
  BY <1>1, <1>2 DEF RequestStep, Refuse, Arrive, TryAcquire, LockOwners, Spawn, SpawnFails,
     StreamEnds, StreamFails, StreamStopped, SendStart, Answered, SpawnFinalizer,
     PreparedUnusable, Return, Disconnect
<1>3. CASE OwnerStep(u) \/ FinalizerStep(u)
  BY <1>1, <1>3 DEF OwnerStep, OwnerStopped, OwnerAbandoned, OwnerStarts, ProcessSucceeds,
     ProcessStops, Reap, LeaseEnds, CleanupSpool, FreeSlot, FinalizerStep, Finalize, HandBack
<1> QED BY <1>2, <1>3

(* A step of an attempt keeps the stages of the root.                      *)
LEMMA StagedStep ==
  ASSUME UploadTypes, NEW u \in Uploads, Attempt(u), UploadStep(u), serve' = serve,
         Receive(u) => Accepting,
         NEW v \in Uploads, Staged(v)
  PROVE  Staged(v)'
<1>1. CASE v = u
  <2>1. CASE Receive(u)
    BY <1>1, <2>1 DEF Receive, ReqAt, Accepting, Staged, UploadTypes
  <2>2. CASE ~Receive(u)
    BY <1>1, <2>2, QuietStep DEF Staged
  <2> QED BY <2>1, <2>2
<1>2. CASE v # u
  BY <1>2, AttemptsApart DEF Apart, Staged
<1> QED BY <1>1, <1>2

------------------------------------------------------------------------------
(* The guard of the workers.                                               *)

(* Every step of the server is a step of the guard, or leaves it alone.    *)
LEMMA GuardStep == [ServerNext]_serverVars => [Next]_vars
<1> SUFFICES ASSUME [ServerNext]_serverVars PROVE [Next]_vars
  OBVIOUS
<1>1. CASE Prepare \/ PrepareFails \/ StartWorkers \/ Serve \/ StopUploads \/ TellUploads
           \/ JoinOwners \/ JoinFinalizers \/ Release
  BY <1>1 DEF Prepare, PrepareFails, StartWorkers, Serve, StopUploads, TellUploads, JoinOwners,
     JoinFinalizers, Release
<1>2. CASE StartFails \/ HttpDrained
  BY <1>2 DEF StartFails, HttpDrained, Next
<1>3. CASE Rollback \/ ShutWorkers
  BY <1>3 DEF Rollback, ShutWorkers, Next
<1>4. CASE DropWorkers
  BY <1>4 DEF DropWorkers, Next
<1>5. CASE Still \/ UNCHANGED serverVars
  BY <1>5 DEF Still, serverVars
<1> QED BY <1>1, <1>2, <1>3, <1>4, <1>5 DEF ServerNext, ShutdownStep, Next

(* An owner that has closed its tracker does not open it again.            *)
LEMMA ClosedStays ==
  ASSUME TypeOK, [Next]_vars, pc[Owner] \in Closed
  PROVE  pc'[Owner] \in Closed
<1>1. ASSUME NEW j \in Workload, Fire(j) \/ JobStep(j) PROVE pc'[Owner] \in Closed
  <2>1. \E l : Goto(j, l)
    BY <1>1 DEF Fire, JobStep, Admit, Finish, NotifyIdle, LowerActive
  <2> QED BY <2>1, OwnerKept
<1>2. ASSUME NEW l \in Loops, LoopStep(l) PROVE pc'[Owner] \in Closed
  <2>1. (\E k : Goto(l, k)) /\ l \in Workload
    BY <1>2 DEF LoopStep, LoopListen, LoopCheck, LoopWoken, LoopTick, LoopTicked, LowerActive,
       Workload
  <2> QED BY <2>1, OwnerKept
<1>3. CASE Stop \/ DropGuard \/ Shutdown \/ DrainStep
  <2>1. \E l \in Closed : Goto(Owner, l)
    BY <1>3 DEF Stop, DropGuard, Shutdown, CloseTracker, DrainStep, NotifyStopped, ShutScheduler,
       WaitEnable, WaitCheck, WaitWoken, Closed
  <2> QED BY <2>1, GotoMoves DEF Tasks
<1>4. CASE UNCHANGED vars
  BY <1>4 DEF vars
<1> QED BY <1>1, <1>2, <1>3, <1>4 DEF Next

(* The root that has left its drained workers keeps them drained.          *)
LEMMA DrainedStep ==
  ASSUME DrainInv, [ServerNext]_serverVars, WorkersDrained
  PROVE  WorkersDrained'
<1>1. [Next]_vars
  BY GuardStep
<1>2. CASE serve \in {"releasing", "released"}
  <2>1. pc'[Owner] \in Closed /\ Admitted' \subseteq Admitted
    BY <1>1, <1>2, ClosedStays, ClosedAdmitsNone DEF WorkersDrained, DrainInv
  <2> QED BY <1>2, <2>1 DEF WorkersDrained
<1>3. CASE DropWorkers
  <2>1. pc[Owner] = "returned" /\ active = 0
    BY <1>3 DEF DropWorkers, DrainInv
  <2>2. Admitted = {}
    BY <2>1, AdmittedFinite, FS_EmptySet DEF DrainInv, ActiveCounts
  <2>3. pc[Owner] \in Closed
    BY <2>1 DEF Closed
  <2> QED BY <1>1, <2>2, <2>3, ClosedStays, ClosedAdmitsNone DEF WorkersDrained, DrainInv
<1>4. CASE serve \notin {"releasing", "released"} /\ ~DropWorkers
  <2>1. serve' \notin {"releasing", "released"}
    BY <1>4 DEF ServerNext, ShutdownStep, ServeAt, Prepare, PrepareFails, StartWorkers, StartFails,
       Serve, StopUploads, TellUploads, HttpDrained, JoinOwners, JoinFinalizers, ShutWorkers,
       Rollback, Release, Quiet, Still, serverVars
  <2> QED BY <2>1 DEF WorkersDrained
<1> QED BY <1>2, <1>3, <1>4

------------------------------------------------------------------------------
(* The inductive invariant.                                                *)

(* Its parts that a step of an attempt can disturb.                        *)
LEMMA UploadInvStep ==
  ASSUME ServerInv, DrainInv', WorkersDrained', NEW u \in Uploads, UploadStep(u),
         serve' = serve, Receive(u) => Accepting
  PROVE  ServerInv'
<1>0. UploadTypes /\ \A v \in Uploads : Attempt(v) /\ Staged(v)
  BY DEF ServerInv, ServerTypeOK, UploadTypes
<1>1. UploadTypes'
  BY <1>0, UploadTypesStep
<1>2. \A v \in Uploads : Attempt(v)'
  <2> SUFFICES ASSUME NEW v \in Uploads PROVE Attempt(v)'
    OBVIOUS
  <2>1. CASE v = u
    BY <1>0, <2>1, AttemptOwnStep
  <2>2. CASE v # u
    BY <1>0, <2>2, AttemptsApart, AttemptApart
  <2> QED BY <2>1, <2>2
<1>3. \A v \in Uploads : Staged(v)'
  BY <1>0, StagedStep
<1>4. ServerTypeOK'
  BY <1>1, <1>2 DEF ServerInv, ServerTypeOK, UploadTypes, Attempt
<1>5. Cardinality(permits') <= Slots
  BY <1>0, SlotsStep DEF ServerInv
<1>6. serve' \notin {"locked", "failed"} => spools' \subseteq Uploads
  BY <1>0, SpoolsStep DEF ServerInv
<1> QED BY <1>2, <1>3, <1>4, <1>5, <1>6 DEF ServerInv

(* The same for a step of the root or of the workers, which may clean the  *)
(* transient area or tell the attempts to stop, and go to another stage.   *)
LEMMA RootInvStep ==
  ASSUME ServerInv, DrainInv', WorkersDrained',
         UNCHANGED <<permits, ownersLock, owners, finalizations, leases, started, answer,
                     req, own, fin>>,
         closed' \in BOOLEAN, signalled' \in BOOLEAN,
         spools' = spools \/ (serve = "locked" /\ spools' = {}),
         serve' \in {"locked", "prepared", "starting", "rollback", "serving", "stopping",
                     "draining", "owners", "finalizers", "workers", "leaving", "releasing",
                     "released", "failed"},
         serve' \notin {"locked", "failed"} => spools' \subseteq Uploads,
         \A u \in Uploads : Staged(u)'
  PROVE  ServerInv'
<1>1. \A u \in Uploads : Attempt(u) /\ Staged(u)
  BY DEF ServerInv
<1>2. \A u \in Uploads : u \in spools' <=> u \in spools
  BY <1>1 DEF Attempt, Staged, Spooled
<1>3. \A u \in Uploads : Attempt(u)'
  BY <1>1, <1>2 DEF Attempt, Spooled
<1>4. ServerTypeOK'
  BY DEF ServerInv, ServerTypeOK
<1> QED BY <1>3, <1>4 DEF ServerInv

(* Every step of the server keeps its invariant.                           *)
LEMMA ServerInvStep == ServerInv /\ [ServerNext]_serverVars => ServerInv'
<1> SUFFICES ASSUME ServerInv, [ServerNext]_serverVars PROVE ServerInv'
  OBVIOUS
<1>0. DrainInv' /\ WorkersDrained'
  BY GuardStep, DrainStepInv, DrainedStep DEF ServerInv
<1>1. /\ \A u \in Uploads : Attempt(u) /\ Staged(u)
      /\ serve \notin {"locked", "failed"} => spools \subseteq Uploads
      /\ closed \in BOOLEAN /\ signalled \in BOOLEAN
  BY DEF ServerInv, ServerTypeOK
<1>2. CASE Prepare
  <2>1. \A u \in Uploads : Staged(u)'
    BY <1>1, <1>2 DEF Prepare, CleanTemporary, ServeAt, Staged
  <2> QED BY <1>0, <1>1, <1>2, <2>1, RootInvStep
      DEF Prepare, CleanTemporary, ServeAt, shutdownVars, taskSets
<1>3. CASE PrepareFails \/ StartWorkers \/ StartFails \/ Serve
  <2>1. /\ serve' \in {"failed", "starting", "rollback", "serving"}
        /\ serve = "locked" => serve' = "failed"
        /\ serve # "failed"
        /\ UNCHANGED uploadVars
    BY <1>3 DEF PrepareFails, StartWorkers, StartFails, Serve, ServeAt
  <2>2. \A u \in Uploads : Staged(u)'
    BY <1>1, <1>3 DEF PrepareFails, StartWorkers, StartFails, Serve, ServeAt, Staged, uploadVars
  <2> QED BY <1>0, <1>1, <2>1, <2>2, RootInvStep DEF uploadVars
<1>4. CASE StopUploads \/ TellUploads
  <2>1. \A u \in Uploads : Staged(u)'
    BY <1>1, <1>4 DEF StopUploads, TellUploads, CloseSlots, SendShutdown, ServeAt, Staged
  <2> QED BY <1>0, <1>1, <1>4, <2>1, RootInvStep
      DEF StopUploads, TellUploads, CloseSlots, SendShutdown, ServeAt, taskSets
<1>5. CASE Rollback
  <2>1. \A u \in Uploads : req[u] = "idle" /\ own[u] = "none" /\ fin[u] = "none"
    BY <1>1, <1>5 DEF Rollback, Staged, Attempt
  <2>2. \A u \in Uploads : Staged(u)'
    BY <1>5, <2>1 DEF Rollback, ServeAt, Staged, uploadVars
  <2> QED BY <1>0, <1>1, <1>5, <2>2, RootInvStep DEF Rollback, ServeAt, uploadVars
<1>6. CASE HttpDrained
  <2>1. \A u \in Uploads : Staged(u)'
    BY <1>1, <1>6 DEF HttpDrained, ServeAt, Staged, uploadVars
  <2> QED BY <1>0, <1>1, <1>6, <2>1, RootInvStep DEF HttpDrained, ServeAt, uploadVars
<1>7. CASE JoinOwners
  <2>1. \A u \in Uploads : own[u] \in {"none", "done"}
    BY <1>1, <1>7 DEF JoinOwners, OwnersJoined, Attempt
  <2>2. \A u \in Uploads : Staged(u)'
    BY <1>1, <1>7, <2>1 DEF JoinOwners, ServeAt, Staged, uploadVars
  <2> QED BY <1>0, <1>1, <1>7, <2>2, RootInvStep DEF JoinOwners, ServeAt, uploadVars
<1>8. CASE JoinFinalizers
  <2>1. \A u \in Uploads : fin[u] \in {"none", "done"}
    BY <1>1, <1>8 DEF JoinFinalizers, FinalizersJoined, Attempt
  <2>2. \A u \in Uploads : Staged(u)'
    BY <1>1, <1>8, <2>1 DEF JoinFinalizers, ServeAt, Staged, uploadVars
  <2> QED BY <1>0, <1>1, <1>8, <2>2, RootInvStep DEF JoinFinalizers, ServeAt, uploadVars
<1>9. CASE ShutWorkers \/ DropWorkers \/ Release
  <2>1. \A u \in Uploads : Staged(u)'
    BY <1>1, <1>9 DEF ShutWorkers, DropWorkers, Release, ServeAt, Staged, uploadVars
  <2> QED BY <1>0, <1>1, <1>9, <2>1, RootInvStep
      DEF ShutWorkers, DropWorkers, Release, ServeAt, uploadVars
<1>10. CASE Quiet \/ UNCHANGED serverVars
  <2>1. UNCHANGED <<uploadVars, serve>>
    BY <1>10 DEF Quiet, serverVars
  <2>2. \A u \in Uploads : Staged(u)'
    BY <1>1, <2>1 DEF Staged, uploadVars
  <2> QED BY <1>0, <1>1, <2>1, <2>2, RootInvStep DEF uploadVars, ServerInv, ServerTypeOK
<1>11. ASSUME NEW u \in Uploads, UploadStep(u), Still, Receive(u) => Accepting
       PROVE  ServerInv'
  BY <1>0, <1>11, UploadInvStep DEF Still
<1>12. CASE Accepting /\ (\E u \in Uploads : Receive(u)) /\ Still
  BY <1>11, <1>12 DEF UploadStep
<1>13. CASE (\E u \in Uploads : RequestStep(u) \/ Disconnect(u) \/ OwnerStep(u) \/ FinalizerStep(u))
            /\ Still
  <2>1. PICK u \in Uploads : RequestStep(u) \/ Disconnect(u) \/ OwnerStep(u) \/ FinalizerStep(u)
    BY <1>13
  <2>2. UploadStep(u)
    BY <2>1 DEF UploadStep
  <2>3. ~Receive(u)
    BY <2>1, ReceivesAlone DEF ServerInv
  <2> QED BY <1>11, <1>13, <2>2, <2>3
<1> QED BY <1>2, <1>3, <1>4, <1>5, <1>6, <1>7, <1>8, <1>9, <1>10, <1>12, <1>13
        DEF ServerNext, ShutdownStep

(* The invariant holds when the storage lock has just been acquired.       *)
LEMMA ServerInvInit == ServerInit => ServerInv
<1> SUFFICES ASSUME ServerInit PROVE ServerInv
  OBVIOUS
<1>1. DrainInv
  BY DrainInit DEF ServerInit
<1>2. ServerTypeOK /\ \A u \in Uploads : Attempt(u) /\ Staged(u)
  BY UploadsAssumption DEF ServerInit, UploadInit, ServerTypeOK, Attempt, Staged, Spooled
<1>3. Cardinality(permits) <= Slots
  BY FS_EmptySet, UploadsAssumption DEF ServerInit, UploadInit
<1> QED BY <1>1, <1>2, <1>3 DEF ServerInit, ServerInv, WorkersDrained

------------------------------------------------------------------------------
(* The theorems.                                                           *)

(* The inductive invariant holds during the whole life of the server.      *)
THEOREM ServerInvariance == ServerSpec => []ServerInv
  BY ServerInvInit, ServerInvStep, PTL DEF ServerSpec

(* The composition root uses the guard of its workers as ScheduledWorker   *)
(* describes (BackgroundWorkers): the server implements its specification. *)
THEOREM ServerRefinesGuard == ServerSpec => ImplementsGuard
<1>1. ServerInit => Init
  BY DEF ServerInit
<1> QED BY <1>1, GuardStep, PTL DEF ServerSpec, ImplementsGuard, Spec

(* The drain of the guard is correct inside the server.                    *)
THEOREM ServerDrains == ServerSpec => []DrainInv
  BY ServerRefinesGuard, DrainCorrect, PTL DEF ImplementsGuard

(* Once the root has stopped its workers (BackgroundWorkers::stop), none   *)
(* starts another job, whatever the uploads and the clients still do.      *)
THEOREM ServerAdmitsNoMore == ServerSpec => StopIsFinal
  BY ServerRefinesGuard, AdmissionStaysClosed, PTL DEF ImplementsGuard

(* The types of the server, and who holds the mutex of the owners.         *)
THEOREM ServerTypeCorrect == ServerSpec => []ServerTypeOK
<1>1. ServerInv => ServerTypeOK
  BY DEF ServerInv
<1> QED BY <1>1, ServerInvariance, PTL

(* Spools are bounded by the slots, for any number of uploads and slots    *)
(* (UploadPreparer::admit, the owner task).                                *)
THEOREM SpoolsAreBounded == ServerSpec => []SpoolsHoldSlots
<1>1. ServerInv => SpoolsHoldSlots
  <2> SUFFICES ASSUME ServerInv, serve \notin {"locked", "prepared", "failed"}
               PROVE  spools \subseteq permits
    BY DEF ServerInv, SpoolsHoldSlots
  <2> QED BY DEF ServerInv, Attempt, Spooled
<1> QED BY <1>1, ServerInvariance, PTL

(* The prepared bytes are there as long as somebody may read them          *)
(* (upload_prepared, the lease).                                           *)
THEOREM BytesStay == ServerSpec => []BytesOutliveTheirUse
<1>1. ServerInv => BytesOutliveTheirUse
  BY DEF ServerInv, BytesOutliveTheirUse, Attempt, Spooled
<1> QED BY <1>1, ServerInvariance, PTL

(* A server that released its storage lock left nothing running            *)
(* (cmd_serve, shutdown_uploads, BackgroundWorkers::shutdown).             *)
THEOREM ReleaseIsQuiet == ServerSpec => []ReleasedMeansQuiet
<1>1. ServerInv => ReleasedMeansQuiet
  BY DEF ServerInv, ReleasedMeansQuiet, Staged, Attempt, WorkersDrained, Spooled
<1> QED BY <1>1, ServerInvariance, PTL
===============================================================================
