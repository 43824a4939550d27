---------------------------- MODULE ServerLifecycle ----------------------------
(***************************************************************************)
(* One life of the serve command, from the acquired storage lock to its    *)
(* release: the background workers, the upload owners and the HTTP server  *)
(* are started, stopped and drained in the order of the composition root.  *)
(*                                                                         *)
(*   server/src/commands/lifecycle.rs   prepare_server, cmd_serve,         *)
(*                                      BackgroundWorkers                  *)
(*                                                                         *)
(* One ScheduledWorker guard stands for the feed, maintenance and backup   *)
(* guards, which are stopped together and drained one after the other.  A  *)
(* process that is killed, or exits at a second SIGINT, just stops: all it *)
(* leaves behind that matters here are spools, so a life starts with some. *)
(***************************************************************************)
EXTENDS ScheduledWorker, UploadPreparer

VARIABLE serve   \* where cmd_serve is; the lock is held until "released" or "failed"

serverVars == <<vars, uploadVars, serve>>

ServeAt(l) == serve' = l

ServerInit == Init /\ UploadInit /\ serve = "locked"

------------------------------------------------------------------------------
(* Setup.                                                                  *)

(* Mutant of Prepare: the transient area is left as it was found.          *)
PrepareUncleaned ==
    /\ serve = "locked"
    /\ ServeAt("prepared")
    /\ UNCHANGED <<vars, uploadVars>>

(* prepare_server: media/tmp is emptied before anything can upload.        *)
Prepare ==
    /\ serve = "locked"
    /\ ServeAt("prepared")
    /\ CleanTemporary
    /\ UNCHANGED vars

(* A step of the setup fails before any worker runs: the guard is dropped. *)
PrepareFails ==
    /\ serve \in {"locked", "prepared"}
    /\ ServeAt("failed")
    /\ UNCHANGED <<vars, uploadVars>>

(* BackgroundWorkers::start: from here on schedulers fire.                 *)
StartWorkers ==
    /\ serve = "prepared"
    /\ ServeAt("starting")
    /\ UNCHANGED <<vars, uploadVars>>

(* A later worker cannot start: the ones that run are stopped ...          *)
StartFails ==
    /\ serve = "starting"
    /\ ServeAt("rollback")
    /\ Stop
    /\ UNCHANGED uploadVars

(* ... and drained (stop_worker_after_start_failure).                      *)
Rollback ==
    /\ serve = "rollback"
    /\ pc[Owner] = "stopped"
    /\ ServeAt("leaving")
    /\ Shutdown
    /\ UNCHANGED uploadVars

Serve ==
    /\ serve = "starting"
    /\ ServeAt("serving")
    /\ UNCHANGED <<vars, uploadVars>>

------------------------------------------------------------------------------
(* Shutdown.                                                               *)

(* The first signal resolves the shutdown future, which calls stop_uploads *)
(* before the listener stops accepting.                                    *)
StopUploads ==
    /\ serve = "serving"
    /\ ServeAt("stopping")
    /\ CloseSlots
    /\ UNCHANGED vars

TellUploads ==
    /\ serve = "stopping"
    /\ ServeAt("draining")
    /\ SendShutdown
    /\ UNCHANGED vars

(* serve_with_shutdown returns when no request is in flight: axum's drain  *)
(* has no timeout, so a client that still sends to a handler that has not  *)
(* been admitted is waited for.  Then workers.stop.                        *)
HttpDrained ==
    /\ serve = "draining"
    /\ \A u \in Uploads : req[u] \in {"idle", "gone"}
    /\ ServeAt("owners")
    /\ Stop
    /\ UNCHANGED uploadVars

(* Mutant of JoinOwners: the drained HTTP server is trusted instead.       *)
JoinOwnersUnawaited ==
    /\ serve = "owners"
    /\ pc[Owner] = "stopped"
    /\ ServeAt("finalizers")
    /\ UNCHANGED <<vars, uploadVars>>

(* shutdown_uploads: the private owners first, then the finalizers.        *)
JoinOwners ==
    /\ serve = "owners"
    /\ pc[Owner] = "stopped"
    /\ OwnersJoined
    /\ ServeAt("finalizers")
    /\ UNCHANGED <<vars, uploadVars>>

JoinFinalizers ==
    /\ serve = "finalizers"
    /\ FinalizersJoined
    /\ ServeAt("workers")
    /\ UNCHANGED <<vars, uploadVars>>

ShutWorkers ==
    /\ serve = "workers"
    /\ ServeAt("leaving")
    /\ Shutdown
    /\ UNCHANGED uploadVars

(* Mutant of DropWorkers: the result of the drain is not awaited.          *)
DropWorkersEarly ==
    /\ serve = "leaving"
    /\ pc[Owner] = "scheduler"
    /\ ServeAt("releasing")
    /\ Goto(Owner, "drop_notify")
    /\ stopping' = TRUE
    /\ UNCHANGED <<active, listening, woken, firing, uploadVars>>

(* The workers are dropped once their shutdown has returned, then the      *)
(* runtime guard: the identity file goes, then the lock.                   *)
DropWorkers ==
    /\ serve = "leaving"
    /\ pc[Owner] = "returned"
    /\ ServeAt("releasing")
    /\ DropGuard
    /\ UNCHANGED uploadVars

Release ==
    /\ serve = "releasing"
    /\ pc[Owner] = "dropped"
    /\ ServeAt("released")
    /\ UNCHANGED <<vars, uploadVars>>

ShutdownStep ==
    \/ TellUploads \/ HttpDrained \/ JoinOwners \/ JoinFinalizers \/ ShutWorkers
    \/ Rollback \/ DropWorkers \/ Release

------------------------------------------------------------------------------
(* Connections are accepted until the shutdown future has resolved.        *)
Accepting == serve \in {"serving", "stopping"}

Quiet == UNCHANGED <<uploadVars, serve>>
Still == UNCHANGED <<vars, serve>>

ServerNext ==
    \/ Prepare \/ PrepareFails \/ StartWorkers \/ StartFails \/ Serve \/ StopUploads
    \/ ShutdownStep
    \/ serve \notin {"locked", "prepared", "failed"} /\ (\E j \in Workload : Fire(j)) /\ Quiet
    \/ (\E j \in Workload : JobStep(j)) /\ Quiet
    \/ (\E l \in Loops : LoopStep(l)) /\ Quiet
    \/ DrainStep /\ Quiet
    \/ Accepting /\ (\E u \in Uploads : Receive(u)) /\ Still
    \/ (\E u \in Uploads : RequestStep(u) \/ Disconnect(u)) /\ Still
    \/ (\E u \in Uploads : OwnerStep(u)) /\ Still
    \/ (\E u \in Uploads : FinalizerStep(u)) /\ Still

ServerSpec == ServerInit /\ [][ServerNext]_serverVars

(* What a request does by itself, once its handler needs no more of its    *)
(* client than the stream, which a stop cuts short.                        *)
RequestProgress(u) ==
    \/ TryAcquire(u) \/ LockOwners(u) \/ Spawn(u) \/ StreamStopped(u) \/ SendStart(u)
    \/ Answered(u) \/ SpawnFinalizer(u) \/ Return(u)

(* The runtime polls every task that is ready, a job ends, a child answers *)
(* or is killed, and the root goes on with its shutdown.  Nobody need      *)
(* signal the server, and no client need send or stay: one that stalls     *)
(* leaves its request "receiving" or "streaming".                          *)
ServerFairness ==
    /\ Fairness
    /\ WF_serverVars(ShutdownStep)
    /\ \A u \in Uploads :
         /\ WF_uploadVars(RequestProgress(u))
         /\ WF_uploadVars(OwnerStep(u))
         /\ WF_uploadVars(FinalizerStep(u))

FairServerSpec == ServerSpec /\ ServerFairness

------------------------------------------------------------------------------
(* The types, and that the mutex of the owners is held by the attempt that *)
(* is being spooled and by no other.                                       *)
ServerTypeOK ==
    /\ closed \in BOOLEAN /\ signalled \in BOOLEAN
    /\ permits \subseteq Uploads
    /\ ownersLock \in Uploads \cup {Nobody}
    /\ owners \subseteq Uploads /\ finalizations \subseteq Uploads
    /\ spools \subseteq Uploads \cup OldSpools
    /\ leases \subseteq Uploads /\ started \subseteq Uploads
    /\ answer \in [Uploads -> {"none", "ok", "failed"}]
    /\ req \in [Uploads -> {"idle", "receiving", "arrived", "admitting", "spooling",
                            "streaming", "starting", "preparing", "prepared", "awaiting",
                            "finishing", "gone"}]
    /\ own \in [Uploads -> {"none", "select", "processing", "reaping", "hold", "cleanup",
                            "freeing", "done"}]
    /\ fin \in [Uploads -> {"none", "running", "finishing", "done"}]
    /\ \A u \in Uploads : ownersLock = u <=> req[u] = "spooling"
    /\ serve \in {"locked", "prepared", "starting", "rollback", "serving", "stopping",
                  "draining", "owners", "finalizers", "workers", "leaving", "releasing",
                  "released", "failed"}

(* Private copies are bounded by the slots, whoever disconnects and        *)
(* whatever a killed predecessor left: once the server serves, every spool *)
(* is that of an attempt that still holds its slot.                        *)
SpoolsHoldSlots ==
    serve \notin {"locked", "prepared", "failed"} =>
        /\ spools \subseteq permits
        /\ Cardinality(permits) <= Slots

(* "Successful bytes remain private and owned through hashing, placement   *)
(* and registration": the spool is there as long as the request or the     *)
(* finalizer that took over from it may read it, even if the client has    *)
(* gone and the server is stopping.                                        *)
BytesOutliveTheirUse ==
    \A u \in Uploads :
        req[u] = "prepared" \/ fin[u] = "running" => u \in spools

(* Root shutdown drains: when the storage lock is released by a server     *)
(* that ran, no request, upload owner, finalizer or admitted job is left,  *)
(* and its spools are gone, so the next process may clean and migrate.     *)
ReleasedMeansQuiet ==
    serve = "released" =>
        /\ Admitted = {}
        /\ spools = {}
        /\ \A u \in Uploads :
              /\ req[u] \in {"idle", "gone"}
              /\ own[u] \in {"none", "done"}
              /\ fin[u] \in {"none", "done"}

(* The root uses the guard of its workers as ScheduledWorker describes, so *)
(* what is proved of the guard holds of the server.                        *)
ImplementsGuard == Spec

(* No client stalls for ever before its request asks for a slot.           *)
ClientsFinish == \A u \in Uploads : req[u] = "receiving" ~> req[u] # "receiving"

(* A server told to stop releases its lock if no client stalls before      *)
(* admission, where axum's drain waits for it without a timeout (a client  *)
(* that does stall holds shutdown until a second SIGINT).  An admitted     *)
(* upload is not waited for: its client may stop sending for ever, and its *)
(* owner and its request do not wait for each other.                       *)
ShutdownEnds == ClientsFinish => (serve = "stopping" ~> serve = "released")

==============================================================================
