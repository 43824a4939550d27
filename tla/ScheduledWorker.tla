--------------------------- MODULE ScheduledWorker ---------------------------
(***************************************************************************)
(* The lifecycle guard of a cron-backed worker: jobs are admitted while    *)
(* the guard is open, and shutdown drains every admitted job before it     *)
(* returns.                                                                *)
(*                                                                         *)
(*   server/src/scheduled_worker.rs   WorkTracker, ScheduledWorkerGuard    *)
(*   server/src/feed/worker.rs        start: the two kinds of job          *)
(*                                                                         *)
(* A step is one critical section of the tracker's mutex, one operation on *)
(* its Notify, or one await point.  The mutex is dropped before the        *)
(* waiters are notified, so the two are separate steps.  A Notify keeps no *)
(* permit: notify_waiters wakes whoever has enabled its Notified by then.  *)
(***************************************************************************)
EXTENDS Naturals, FiniteSets

CONSTANTS
    Jobs,    \* activations of a repeated job: one tick each
    Loops,   \* activations of a subsecond job: a loop of ticks until stopped
    Owner    \* the task that holds the guard

Workload == Jobs \cup Loops
Tasks == Workload \cup {Owner}

ASSUME TasksAssumption ==
    /\ IsFiniteSet(Workload)
    /\ Jobs \cap Loops = {}
    /\ Owner \notin Workload

VARIABLES
    stopping,   \* WorkStateInner.stopping
    active,     \* WorkStateInner.active
    listening,  \* tasks whose Notified is enabled and has not fired
    woken,      \* tasks whose Notified has fired
    firing,     \* the scheduler still starts activations
    pc          \* where each task is

vars == <<stopping, active, listening, woken, firing, pc>>

(* Where an activation holds an ActiveWork.                                *)
Holding == {"working", "listen", "check", "select"}
(* Where the owner has called tracker.stop.                                *)
Closed == {"stop_notify", "drop_notify", "notify", "stopped", "dropped",
           "scheduler", "enable", "wait", "parked", "returned"}

TypeOK ==
    /\ stopping \in BOOLEAN
    /\ active \in Nat
    /\ listening \subseteq Tasks
    /\ woken \subseteq Tasks
    /\ firing \in BOOLEAN
    /\ pc \in [Tasks -> {"idle", "fired", "lowered", "serving"} \cup Holding \cup Closed]
    /\ pc[Owner] \in {"serving"} \cup Closed

Init ==
    /\ stopping = FALSE
    /\ active = 0
    /\ listening = {}
    /\ woken = {}
    /\ firing = TRUE
    /\ pc = [t \in Tasks |-> IF t = Owner THEN "serving" ELSE "idle"]

Goto(t, l) == pc' = [pc EXCEPT ![t] = l]

(* Notified::enable, and dropping a Notified.                              *)
Enable(t) == listening' = listening \cup {t} /\ woken' = woken \ {t}
Unlisten(t) == listening' = listening \ {t} /\ woken' = woken \ {t}

NotifyWaiters == listening' = {} /\ woken' = woken \cup listening

------------------------------------------------------------------------------
(* Activations.                                                            *)

(* The scheduler spawns the job's future, which has not been polled yet.   *)
Fire(j) ==
    /\ pc[j] = "idle"
    /\ firing
    /\ Goto(j, "fired")
    /\ UNCHANGED <<stopping, active, listening, woken, firing>>

(* Mutant of Admit: stopping is not looked at.                             *)
AdmitAlways(j) ==
    /\ pc[j] = "fired"
    /\ Goto(j, IF j \in Loops THEN "listen" ELSE "working")
    /\ active' = active + 1
    /\ UNCHANGED <<stopping, listening, woken, firing>>

(* WorkTracker::run, admit.                                                *)
Admit(j) ==
    /\ pc[j] = "fired"
    /\ IF stopping
         THEN Goto(j, "idle") /\ UNCHANGED active
         ELSE /\ Goto(j, IF j \in Loops THEN "listen" ELSE "working")
              /\ active' = active + 1
    /\ UNCHANGED <<stopping, listening, woken, firing>>

(* Mutant of LowerActive: the count is kept when others are active.        *)
LowerActiveLast(j) ==
    /\ active' = IF active = 1 THEN 0 ELSE active
    /\ Goto(j, IF active' = 0 THEN "lowered" ELSE "idle")

(* Mutant of LowerActive: idleness is decided before the count is lowered. *)
LowerActiveEarly(j) ==
    /\ active' = active - 1
    /\ Goto(j, IF active = 0 THEN "lowered" ELSE "idle")

(* The drop of ActiveWork, when the work ends, panics or is cancelled.     *)
LowerActive(j) ==
    /\ active' = active - 1
    /\ Goto(j, IF active' = 0 THEN "lowered" ELSE "idle")

Finish(j) ==
    /\ pc[j] = "working"
    /\ j \in Jobs
    /\ LowerActive(j)
    /\ UNCHANGED <<stopping, listening, woken, firing>>

NotifyIdle(j) ==
    /\ pc[j] = "lowered"
    /\ Goto(j, "idle")
    /\ NotifyWaiters
    /\ UNCHANGED <<stopping, active, firing>>

(* One round of the subsecond loop: a fresh stopped() future, polled       *)
(* before the ticker.                                                      *)
LoopListen(l) ==
    /\ pc[l] = "listen"
    /\ Enable(l)
    /\ Goto(l, "check")
    /\ UNCHANGED <<stopping, active, firing>>

LoopCheck(l) ==
    /\ pc[l] = "check"
    /\ IF stopping
         THEN LowerActive(l) /\ Unlisten(l)
         ELSE Goto(l, "select") /\ UNCHANGED <<active, listening, woken>>
    /\ UNCHANGED <<stopping, firing>>

LoopWoken(l) ==
    /\ pc[l] = "select"
    /\ l \in woken
    /\ Goto(l, "listen")
    /\ UNCHANGED <<stopping, active, listening, woken, firing>>

(* The ticker fires: the stopped() future is dropped and a tick runs.      *)
LoopTick(l) ==
    /\ pc[l] = "select"
    /\ l \notin woken
    /\ Unlisten(l)
    /\ Goto(l, "working")
    /\ UNCHANGED <<stopping, active, firing>>

(* Mutant of LoopTicked: no fresh stopped() future after a tick.           *)
LoopTickedDeaf(l) ==
    /\ pc[l] = "working"
    /\ l \in Loops
    /\ Goto(l, "select")
    /\ UNCHANGED <<stopping, active, listening, woken, firing>>

LoopTicked(l) ==
    /\ pc[l] = "working"
    /\ l \in Loops
    /\ Goto(l, "listen")
    /\ UNCHANGED <<stopping, active, listening, woken, firing>>

------------------------------------------------------------------------------
(* The owner.                                                              *)

(* tracker.stop: called by ScheduledWorkerGuard::stop, by shutdown (which  *)
(* may follow a stop), by a failed start, and by the drop of the guard.    *)
CloseTracker(from, to) ==
    /\ pc[Owner] \in from
    /\ stopping' = TRUE
    /\ Goto(Owner, to)
    /\ UNCHANGED <<active, listening, woken, firing>>

Stop == CloseTracker({"serving"}, "stop_notify")
DropGuard == CloseTracker({"serving", "stopped", "returned"}, "drop_notify")
Shutdown == CloseTracker({"serving", "stopped"}, "notify")

NotifyStopped ==
    /\ pc[Owner] \in {"stop_notify", "drop_notify", "notify"}
    /\ NotifyWaiters
    /\ Goto(Owner, CASE pc[Owner] = "stop_notify" -> "stopped"
                     [] pc[Owner] = "drop_notify" -> "dropped"
                     [] pc[Owner] = "notify" -> "scheduler")
    /\ UNCHANGED <<stopping, active, firing>>

(* scheduler.shutdown: its failure is kept for later, and the scheduler    *)
(* may then go on firing.                                                  *)
ShutScheduler ==
    /\ pc[Owner] = "scheduler"
    /\ firing' \in {FALSE, firing}
    /\ Goto(Owner, "enable")
    /\ UNCHANGED <<stopping, active, listening, woken>>

(* WorkTracker::wait: enable, then look, then await.                       *)
WaitEnable ==
    /\ pc[Owner] = "enable"
    /\ Enable(Owner)
    /\ Goto(Owner, "wait")
    /\ UNCHANGED <<stopping, active, firing>>

WaitCheck ==
    /\ pc[Owner] = "wait"
    /\ IF active = 0
         THEN Goto(Owner, "returned") /\ Unlisten(Owner)
         ELSE Goto(Owner, "parked") /\ UNCHANGED <<listening, woken>>
    /\ UNCHANGED <<stopping, active, firing>>

WaitWoken ==
    /\ pc[Owner] = "parked"
    /\ Owner \in woken
    /\ Goto(Owner, "enable")
    /\ UNCHANGED <<stopping, active, listening, woken, firing>>

JobStep(j) == Admit(j) \/ Finish(j) \/ NotifyIdle(j)

LoopStep(l) ==
    LoopListen(l) \/ LoopCheck(l) \/ LoopWoken(l) \/ LoopTick(l) \/ LoopTicked(l)

DrainStep == NotifyStopped \/ ShutScheduler \/ WaitEnable \/ WaitCheck \/ WaitWoken

Next ==
    \/ \E j \in Workload : Fire(j)
    \/ \E j \in Workload : JobStep(j)
    \/ \E l \in Loops : LoopStep(l)
    \/ Stop \/ DropGuard \/ Shutdown
    \/ DrainStep

Spec == Init /\ [][Next]_vars

(* The runtime polls what is ready: every admitted job ends, every woken   *)
(* task runs.  Nothing obliges the scheduler to fire or the owner to stop. *)
Fairness ==
    /\ \A j \in Workload : WF_vars(JobStep(j))
    /\ \A l \in Loops : WF_vars(LoopStep(l))
    /\ WF_vars(DrainStep)

FairSpec == Spec /\ Fairness

------------------------------------------------------------------------------
Admitted == {j \in Workload : pc[j] \in Holding}

(* The counter is the number of admitted jobs that have not dropped their  *)
(* ActiveWork: it never underflows and never keeps a job that has ended.   *)
ActiveCounts == active = Cardinality(Admitted)

(* Once shutdown has returned no admitted job is left and none will be     *)
(* admitted, even if the scheduler could not be stopped and keeps firing:  *)
(* storage can be closed under the worker.                                 *)
Drained == pc[Owner] = "returned" => Admitted = {}

(* A guard that has been stopped or dropped admits nothing any more, even  *)
(* activations that the scheduler had spawned before.                      *)
StopIsFinal == [][pc[Owner] \in Closed => Admitted' \subseteq Admitted]_vars

(* Why Drained holds, inductively: the owner has closed admission before   *)
(* it looks at the counter, and the counter is exact.                      *)
DrainInv ==
    /\ TypeOK
    /\ ActiveCounts
    /\ pc[Owner] \in Closed => stopping
    /\ pc[Owner] = "returned" => active = 0

(* Shutdown returns: the last job's notification is not lost, wherever     *)
(* between the owner's check and its await it falls.                       *)
ShutdownReturns == pc[Owner] = "notify" ~> pc[Owner] = "returned"

(* A subsecond loop ends once the tracker is stopped, wherever in its      *)
(* round it is: the notification of the stop, or the flag it reads at its  *)
(* next round, reaches it.                                                 *)
LoopsEnd == \A l \in Loops : stopping ~> pc[l] \notin Holding

==============================================================================
