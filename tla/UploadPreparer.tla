---------------------------- MODULE UploadPreparer ----------------------------
(***************************************************************************)
(* The private preparation of uploads: a request takes one of a few slots, *)
(* a tracked owner task keeps the spool and the native child process, and  *)
(* a tracked finalizer registers the prepared bytes.                       *)
(*                                                                         *)
(*   host/src/image_privacy/process.rs   UploadPreparer, UploadAttempt     *)
(*   storage/src/media_manager.rs        upload_prepared, shutdown_uploads *)
(*                                                                         *)
(* A step is one stretch of a task between two awaits or operations on     *)
(* shared state.  A request may vanish at each of its awaits (the client   *)
(* disconnects), and a later step of its owner finds the lease closed.     *)
(* Failed removals of an owner's spool and failed waits for a child are    *)
(* retried by the code until they succeed: the model takes the successful  *)
(* one.  The removal on admit's own error paths (SpawnFails) is tried once *)
(* by the code; the model assumes that it works.                           *)
(***************************************************************************)
EXTENDS Naturals, FiniteSets

CONSTANTS
    Uploads,    \* upload requests
    OldSpools,  \* spools an earlier process may have left in media/tmp
    Slots,      \* permits of UploadPreparer.slots
    Nobody      \* no holder

ASSUME UploadsAssumption ==
    /\ IsFiniteSet(Uploads)
    /\ Uploads \cap OldSpools = {}
    /\ Slots \in Nat \ {0}
    /\ Nobody \notin Uploads

VARIABLES
    closed,        \* slots.is_closed
    signalled,     \* the watch channel `shutdown` says true
    permits,       \* attempts that hold a slot
    ownersLock,    \* who holds the mutex of `owners`
    owners,        \* the JoinSet of owner tasks
    finalizations, \* the JoinSet of finalizers
    spools,        \* private directories under media/tmp
    leases,        \* attempts whose lease sender is alive
    started,       \* attempts whose start message has been sent
    answer,        \* what the owner has sent back
    req, own, fin  \* where each request, owner and finalizer is

uploadVars == <<closed, signalled, permits, ownersLock, owners, finalizations, spools,
                leases, started, answer, req, own, fin>>

UploadInit ==
    /\ closed = FALSE
    /\ signalled = FALSE
    /\ permits = {}
    /\ ownersLock = Nobody
    /\ owners = {}
    /\ finalizations = {}
    /\ spools \in SUBSET OldSpools
    /\ leases = {}
    /\ started = {}
    /\ answer = [u \in Uploads |-> "none"]
    /\ req = [u \in Uploads |-> "idle"]
    /\ own = [u \in Uploads |-> "none"]
    /\ fin = [u \in Uploads |-> "none"]

ReqAt(u, l) == req' = [req EXCEPT ![u] = l]
OwnAt(u, l) == own' = [own EXCEPT ![u] = l]
FinAt(u, l) == fin' = [fin EXCEPT ![u] = l]

shutdownVars == <<closed, signalled>>
taskSets == <<owners, finalizations>>

------------------------------------------------------------------------------
(* The request.                                                            *)

(* A request is in flight.  Its handler has no slot yet and waits for the  *)
(* client: AtomPub buffers the whole body, the web form its first field.   *)
(* No stop ends that wait.                                                 *)
Receive(u) ==
    /\ req[u] = "idle"
    /\ ReqAt(u, "receiving")
    /\ UNCHANGED <<shutdownVars, permits, ownersLock, taskSets, spools, leases, started,
                   answer, own, fin>>

(* The handler gives up before it asks for a slot: the body is too large   *)
(* or ends badly, the name is refused, uploads are disabled.               *)
Refuse(u) ==
    /\ req[u] = "receiving"
    /\ ReqAt(u, "gone")
    /\ UNCHANGED <<shutdownVars, permits, ownersLock, taskSets, spools, leases, started,
                   answer, own, fin>>

(* The client has sent what the handler waited for, and upload_prepared is *)
(* about to admit it.                                                      *)
Arrive(u) ==
    /\ req[u] = "receiving"
    /\ ReqAt(u, "arrived")
    /\ UNCHANGED <<shutdownVars, permits, ownersLock, taskSets, spools, leases, started,
                   answer, own, fin>>

(* admit, the slot: refused as Stopping or as Busy, never queued.          *)
TryAcquire(u) ==
    /\ req[u] = "arrived"
    /\ IF closed \/ Cardinality(permits) = Slots
         THEN ReqAt(u, "gone") /\ UNCHANGED permits
         ELSE ReqAt(u, "admitting") /\ permits' = permits \cup {u}
    /\ UNCHANGED <<shutdownVars, ownersLock, taskSets, spools, leases, started, answer,
                   own, fin>>

(* admit, under the mutex: ensure_accepting looks at the semaphore again.  *)
LockOwners(u) ==
    /\ req[u] = "admitting"
    /\ ownersLock = Nobody
    /\ IF closed
         THEN ReqAt(u, "gone") /\ permits' = permits \ {u} /\ UNCHANGED ownersLock
         ELSE ReqAt(u, "spooling") /\ ownersLock' = u /\ UNCHANGED permits
    /\ UNCHANGED <<shutdownVars, taskSets, spools, leases, started, answer, own, fin>>

(* admit: finished owners are reaped, the spool is made, the owner task is *)
(* spawned and tracked before the mutex is released.                       *)
Spawn(u) ==
    /\ req[u] = "spooling"
    /\ ReqAt(u, "streaming")
    /\ OwnAt(u, "select")
    /\ spools' = spools \cup {u}
    /\ leases' = leases \cup {u}
    /\ owners' = {v \in owners : own[v] # "done"} \cup {u}
    /\ ownersLock' = Nobody
    /\ UNCHANGED <<shutdownVars, permits, finalizations, started, answer, fin>>

(* Mutant of SpawnFails: an error return that keeps the mutex.             *)
SpawnFailsLocked(u) ==
    /\ req[u] = "spooling"
    /\ ReqAt(u, "gone")
    /\ permits' = permits \ {u}
    /\ owners' = {v \in owners : own[v] # "done"}
    /\ UNCHANGED <<shutdownVars, ownersLock, finalizations, spools, leases, started, answer,
                   own, fin>>

(* admit fails while it makes the spool: the TempDir is dropped, which is  *)
(* taken to remove the directory, then the slot.                           *)
SpawnFails(u) ==
    /\ req[u] = "spooling"
    /\ ReqAt(u, "gone")
    /\ permits' = permits \ {u}
    /\ owners' = {v \in owners : own[v] # "done"}
    /\ ownersLock' = Nobody
    /\ UNCHANGED <<shutdownVars, finalizations, spools, leases, started, answer, own, fin>>

(* The request closes its lease and waits in finish for the owner.         *)
GiveUp(u) == ReqAt(u, "finishing") /\ leases' = leases \ {u}

(* The stream loop: the biased select sees a stop before the next chunk.   *)
StreamEnds(u) ==
    /\ req[u] = "streaming"
    /\ ~signalled
    /\ ReqAt(u, "starting")
    /\ UNCHANGED <<shutdownVars, permits, ownersLock, taskSets, spools, leases, started,
                   answer, own, fin>>

StreamFails(u) ==
    /\ req[u] = "streaming"
    /\ ~signalled
    /\ GiveUp(u)
    /\ UNCHANGED <<shutdownVars, permits, ownersLock, taskSets, spools, started, answer,
                   own, fin>>

StreamStopped(u) ==
    /\ req[u] = "streaming"
    /\ signalled
    /\ GiveUp(u)
    /\ UNCHANGED <<shutdownVars, permits, ownersLock, taskSets, spools, started, answer,
                   own, fin>>

(* prepare: the start message fails if the owner no longer listens for it. *)
SendStart(u) ==
    /\ req[u] = "starting"
    /\ IF own[u] = "select"
         THEN ReqAt(u, "preparing") /\ started' = started \cup {u} /\ UNCHANGED leases
         ELSE GiveUp(u) /\ UNCHANGED started
    /\ UNCHANGED <<shutdownVars, permits, ownersLock, taskSets, spools, answer, own, fin>>

Answered(u) ==
    /\ req[u] = "preparing"
    /\ answer[u] # "none"
    /\ IF answer[u] = "ok"
         THEN ReqAt(u, "prepared") /\ UNCHANGED leases
         ELSE GiveUp(u)
    /\ UNCHANGED <<shutdownVars, permits, ownersLock, taskSets, spools, started, answer,
                   own, fin>>

(* Mutant of SpawnFinalizer: the lease stays behind with the request.      *)
SpawnFinalizerUnleased(u) ==
    /\ req[u] = "prepared"
    /\ ReqAt(u, "awaiting")
    /\ FinAt(u, "running")
    /\ leases' = leases \ {u}
    /\ finalizations' = {v \in finalizations : fin[v] # "done"} \cup {u}
    /\ UNCHANGED <<shutdownVars, permits, ownersLock, owners, spools, started, answer, own>>

(* upload_prepared: the prepared bytes are read, and a finalizer that owns *)
(* the attempt, lease included, is spawned and tracked.                    *)
SpawnFinalizer(u) ==
    /\ req[u] = "prepared"
    /\ ReqAt(u, "awaiting")
    /\ FinAt(u, "running")
    /\ finalizations' = {v \in finalizations : fin[v] # "done"} \cup {u}
    /\ UNCHANGED <<shutdownVars, permits, ownersLock, owners, spools, leases, started,
                   answer, own>>

(* ... or the prepared bytes are too large or cannot be read.              *)
PreparedUnusable(u) ==
    /\ req[u] = "prepared"
    /\ GiveUp(u)
    /\ UNCHANGED <<shutdownVars, permits, ownersLock, taskSets, spools, started, answer,
                   own, fin>>

(* The request returns: finish has seen the owner done, or the finalizer   *)
(* has handed its result back.                                             *)
Return(u) ==
    /\ \/ req[u] = "finishing" /\ own[u] = "done"
       \/ req[u] = "awaiting" /\ fin[u] = "done"
    /\ ReqAt(u, "gone")
    /\ UNCHANGED <<shutdownVars, permits, ownersLock, taskSets, spools, leases, started,
                   answer, own, fin>>

(* The request is dropped at one of its awaits.  Past the spawn of the     *)
(* finalizer the lease is not the request's any more.                      *)
Disconnect(u) ==
    /\ req[u] \in {"receiving", "streaming", "preparing", "finishing", "awaiting"}
    /\ ReqAt(u, "gone")
    /\ leases' = IF req[u] = "awaiting" THEN leases ELSE leases \ {u}
    /\ UNCHANGED <<shutdownVars, permits, ownersLock, taskSets, spools, started, answer,
                   own, fin>>

------------------------------------------------------------------------------
(* The owner task.                                                         *)

(* Mutant of OwnerStopped: the caller is not told before its lease is      *)
(* waited for.                                                             *)
OwnerStoppedSilent(u) ==
    /\ own[u] = "select"
    /\ signalled
    /\ OwnAt(u, "hold")
    /\ UNCHANGED <<shutdownVars, permits, ownersLock, taskSets, spools, leases, started,
                   answer, req, fin>>

(* The biased select before the job starts: stop first, then the lease,    *)
(* then the start message.                                                 *)
OwnerStopped(u) ==
    /\ own[u] = "select"
    /\ signalled
    /\ answer' = [answer EXCEPT ![u] = "failed"]
    /\ OwnAt(u, "hold")
    /\ UNCHANGED <<shutdownVars, permits, ownersLock, taskSets, spools, leases, started,
                   req, fin>>

OwnerAbandoned(u) ==
    /\ own[u] = "select"
    /\ ~signalled
    /\ u \notin leases
    /\ OwnAt(u, "cleanup")
    /\ UNCHANGED <<shutdownVars, permits, ownersLock, taskSets, spools, leases, started,
                   answer, req, fin>>

OwnerStarts(u) ==
    /\ own[u] = "select"
    /\ ~signalled
    /\ u \in leases
    /\ u \in started
    /\ OwnAt(u, "processing")
    /\ UNCHANGED <<shutdownVars, permits, ownersLock, taskSets, spools, leases, started,
                   answer, req, fin>>

(* process: the child answers in time.  A success keeps the spool until    *)
(* the lease is closed.                                                    *)
ProcessSucceeds(u) ==
    /\ own[u] = "processing"
    /\ ~signalled
    /\ u \in leases
    /\ answer' = [answer EXCEPT ![u] = "ok"]
    /\ OwnAt(u, "hold")
    /\ UNCHANGED <<shutdownVars, permits, ownersLock, taskSets, spools, leases, started,
                   req, fin>>

(* Stop, a closed lease, the deadline or a failure: the child is killed.   *)
ProcessStops(u) ==
    /\ own[u] = "processing"
    /\ OwnAt(u, "reaping")
    /\ UNCHANGED <<shutdownVars, permits, ownersLock, taskSets, spools, leases, started,
                   answer, req, fin>>

(* stop_and_wait has seen the child exit; the caller is told.              *)
Reap(u) ==
    /\ own[u] = "reaping"
    /\ answer' = [answer EXCEPT ![u] = "failed"]
    /\ OwnAt(u, "cleanup")
    /\ UNCHANGED <<shutdownVars, permits, ownersLock, taskSets, spools, leases, started,
                   req, fin>>

LeaseEnds(u) ==
    /\ own[u] = "hold"
    /\ u \notin leases
    /\ OwnAt(u, "cleanup")
    /\ UNCHANGED <<shutdownVars, permits, ownersLock, taskSets, spools, leases, started,
                   answer, req, fin>>

CleanupSpool(u) ==
    /\ own[u] = "cleanup"
    /\ spools' = spools \ {u}
    /\ OwnAt(u, "freeing")
    /\ UNCHANGED <<shutdownVars, permits, ownersLock, taskSets, leases, started, answer,
                   req, fin>>

FreeSlot(u) ==
    /\ own[u] = "freeing"
    /\ permits' = permits \ {u}
    /\ OwnAt(u, "done")
    /\ UNCHANGED <<shutdownVars, ownersLock, taskSets, spools, leases, started, answer,
                   req, fin>>

------------------------------------------------------------------------------
(* The finalizer: place and register (MediaManager has the detail), close  *)
(* the lease, wait for the owner, hand the result back if anybody waits.   *)

Finalize(u) ==
    /\ fin[u] = "running"
    /\ FinAt(u, "finishing")
    /\ leases' = leases \ {u}
    /\ UNCHANGED <<shutdownVars, permits, ownersLock, taskSets, spools, started, answer,
                   req, own>>

HandBack(u) ==
    /\ fin[u] = "finishing"
    /\ own[u] = "done"
    /\ FinAt(u, "done")
    /\ UNCHANGED <<shutdownVars, permits, ownersLock, taskSets, spools, leases, started,
                   answer, req, own>>

------------------------------------------------------------------------------
(* What the composition root calls.                                        *)

(* stop: the semaphore is closed, then the watchers are told.              *)
CloseSlots ==
    /\ closed' = TRUE
    /\ UNCHANGED <<signalled, permits, ownersLock, taskSets, spools, leases, started,
                   answer, req, own, fin>>

SendShutdown ==
    /\ signalled' = TRUE
    /\ UNCHANGED <<closed, permits, ownersLock, taskSets, spools, leases, started, answer,
                   req, own, fin>>

(* UploadPreparer::shutdown: the owners tracked so far are joined.         *)
OwnersJoined == ownersLock = Nobody /\ \A u \in owners : own[u] = "done"
FinalizersJoined == \A u \in finalizations : fin[u] = "done"

(* prepare_temporary_upload_directory.                                     *)
CleanTemporary ==
    /\ spools' = {}
    /\ UNCHANGED <<shutdownVars, permits, ownersLock, taskSets, leases, started, answer,
                   req, own, fin>>

RequestStep(u) ==
    \/ Refuse(u) \/ Arrive(u)
    \/ TryAcquire(u) \/ LockOwners(u) \/ Spawn(u) \/ SpawnFails(u)
    \/ StreamEnds(u) \/ StreamFails(u) \/ StreamStopped(u) \/ SendStart(u) \/ Answered(u)
    \/ SpawnFinalizer(u) \/ PreparedUnusable(u) \/ Return(u)

OwnerStep(u) ==
    \/ OwnerStopped(u) \/ OwnerAbandoned(u) \/ OwnerStarts(u)
    \/ ProcessSucceeds(u) \/ ProcessStops(u) \/ Reap(u)
    \/ LeaseEnds(u) \/ CleanupSpool(u) \/ FreeSlot(u)

FinalizerStep(u) == Finalize(u) \/ HandBack(u)

==============================================================================
