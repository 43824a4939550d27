------------------------ MODULE ScheduledWorkerProofs ------------------------
(***************************************************************************)
(* Proofs about ScheduledWorker, for any finite set of activations.        *)
(***************************************************************************)
EXTENDS ScheduledWorker, FiniteSetTheorems, TLAPS

(* The admitted activations are finite in number.                          *)
LEMMA AdmittedFinite == IsFiniteSet(Admitted)
  BY TasksAssumption, FS_Subset DEF Admitted

(* Where every task is after one of them has moved.                        *)
LEMMA GotoMoves ==
  ASSUME TypeOK, NEW t \in Tasks, NEW l, Goto(t, l)
  PROVE  \A u \in Tasks : pc'[u] = IF u = t THEN l ELSE pc[u]
  BY DEF TypeOK, Goto

(* An activation that starts to hold an ActiveWork adds one.               *)
LEMMA CountAdmission ==
  ASSUME TypeOK, ActiveCounts, NEW j \in Workload, NEW l \in Holding,
         pc[j] \notin Holding, Goto(j, l), active' = active + 1
  PROVE  ActiveCounts' /\ active' \in Nat
<1>1. Admitted' = Admitted \cup {j} /\ j \notin Admitted
  BY GotoMoves DEF Admitted, Tasks
<1>2. Cardinality(Admitted \cup {j}) = Cardinality(Admitted) + 1
  BY <1>1, AdmittedFinite, FS_AddElement
<1> QED
  BY <1>1, <1>2 DEF ActiveCounts, TypeOK

(* An activation that stops holding one takes one away, and there was one  *)
(* to take.                                                                *)
LEMMA CountDrop ==
  ASSUME TypeOK, ActiveCounts, NEW j \in Workload, pc[j] \in Holding,
         NEW l, l \notin Holding, Goto(j, l), active' = active - 1
  PROVE  ActiveCounts' /\ active' \in Nat
<1>1. Admitted' = Admitted \ {j} /\ j \in Admitted
  BY GotoMoves DEF Admitted, Tasks
<1>2. Cardinality(Admitted \ {j}) = Cardinality(Admitted) - 1
  BY <1>1, AdmittedFinite, FS_RemoveElement
<1>3. Cardinality(Admitted \ {j}) \in Nat
  BY AdmittedFinite, FS_RemoveElement, FS_CardinalityType
<1> QED
  BY <1>1, <1>2, <1>3 DEF ActiveCounts, TypeOK

(* Any other move keeps the count.                                         *)
LEMMA CountKept ==
  ASSUME TypeOK, ActiveCounts, NEW t \in Tasks, NEW l, Goto(t, l), UNCHANGED active,
         t \in Workload => (pc[t] \in Holding <=> l \in Holding)
  PROVE  ActiveCounts' /\ active' \in Nat
<1>1. Admitted' = Admitted
  BY GotoMoves DEF Admitted, Tasks
<1> QED
  BY <1>1 DEF ActiveCounts, TypeOK

(* The initial state.                                                      *)
LEMMA DrainInit == Init => DrainInv
<1> SUFFICES ASSUME Init PROVE DrainInv
  OBVIOUS
<1>1. TypeOK
  BY TasksAssumption DEF Init, TypeOK, Tasks, Closed, Holding
<1>2. Admitted = {}
  BY TasksAssumption DEF Init, Admitted, Tasks, Holding
<1>3. ActiveCounts
  BY <1>2, FS_EmptySet DEF Init, ActiveCounts
<1>4. pc[Owner] = "serving" /\ active = 0
  BY DEF Init, Tasks
<1> QED
  BY <1>1, <1>3, <1>4 DEF DrainInv, Closed

(* An activation's move says nothing of the owner.                         *)
LEMMA OwnerKept ==
  ASSUME TypeOK, NEW j \in Workload, NEW l, Goto(j, l)
  PROVE  pc'[Owner] = pc[Owner]
  BY GotoMoves, TasksAssumption DEF Tasks

(* The types of what every action touches.                                 *)
LEMMA MoveType ==
  ASSUME TypeOK, NEW t \in Tasks,
         NEW l \in {"idle", "fired", "lowered", "serving"} \cup Holding \cup Closed,
         t = Owner => l \in Closed, Goto(t, l),
         active' \in Nat, stopping' \in BOOLEAN, firing' \in BOOLEAN,
         listening' \subseteq Tasks, woken' \subseteq Tasks
  PROVE  TypeOK'
  BY DEF TypeOK, Goto, Tasks

(* Every step keeps the inductive invariant.                               *)
LEMMA DrainStepInv == DrainInv /\ [Next]_vars => DrainInv'
<1> SUFFICES ASSUME DrainInv, [Next]_vars PROVE DrainInv'
  OBVIOUS
<1> USE DEF DrainInv
<1>1. ASSUME NEW j \in Workload, Fire(j) PROVE DrainInv'
  <2>1. ActiveCounts' /\ active' \in Nat
    BY <1>1, CountKept DEF Fire, Tasks, Holding
  <2>2. TypeOK'
    BY <1>1, <2>1, MoveType, TasksAssumption DEF Fire, Tasks, TypeOK
  <2> QED
    BY <1>1, <2>1, <2>2, OwnerKept DEF Fire
<1>2. ASSUME NEW j \in Workload, Admit(j) PROVE DrainInv'
  <2>1. CASE stopping
    <3>1. ActiveCounts' /\ active' \in Nat
      BY <1>2, <2>1, CountKept DEF Admit, Tasks, Holding
    <3>2. TypeOK'
      BY <1>2, <2>1, <3>1, MoveType, TasksAssumption DEF Admit, Tasks, TypeOK
    <3> QED
      BY <1>2, <2>1, <3>1, <3>2, OwnerKept DEF Admit
  <2>2. CASE ~stopping
    <3> DEFINE l == IF j \in Loops THEN "listen" ELSE "working"
    <3>1. l \in Holding /\ Goto(j, l) /\ active' = active + 1 /\ pc[j] \notin Holding
      BY <1>2, <2>2 DEF Admit, Holding
    <3>2. ActiveCounts' /\ active' \in Nat
      BY <3>1, CountAdmission
    <3>3. TypeOK'
      BY <1>2, <3>1, <3>2, MoveType, TasksAssumption DEF Admit, Tasks, TypeOK
    <3>4. pc'[Owner] = pc[Owner]
      BY <3>1, OwnerKept
    <3>5. pc[Owner] \notin Closed
      BY <2>2
    <3> QED
      BY <1>2, <2>2, <3>2, <3>3, <3>4, <3>5 DEF Admit, Closed
  <2> QED
    BY <2>1, <2>2
<1>3. ASSUME NEW j \in Workload, pc[j] \in Holding, LowerActive(j),
             UNCHANGED <<stopping, firing>>,
             listening' \subseteq Tasks, woken' \subseteq Tasks
      PROVE DrainInv'
  <2> DEFINE l == IF active' = 0 THEN "lowered" ELSE "idle"
  <2>1. Goto(j, l) /\ active' = active - 1 /\ l \notin Holding
    BY <1>3 DEF LowerActive, Holding
  <2>2. ActiveCounts' /\ active' \in Nat
    BY <1>3, <2>1, CountDrop
  <2>3. TypeOK'
    BY <1>3, <2>1, <2>2, MoveType, TasksAssumption DEF Tasks, TypeOK
  <2>4. pc'[Owner] = pc[Owner]
    BY <2>1, OwnerKept
  <2>5. pc[Owner] = "returned" => FALSE
    BY <2>1, <2>2 DEF TypeOK
  <2> QED
    BY <1>3, <2>2, <2>3, <2>4, <2>5
<1>4. ASSUME NEW j \in Workload, NEW l, Goto(j, l),
             pc[j] \in Holding <=> l \in Holding,
             l \in {"idle", "fired", "lowered", "serving"} \cup Holding \cup Closed,
             UNCHANGED <<stopping, active, firing>>,
             listening' \subseteq Tasks, woken' \subseteq Tasks
      PROVE DrainInv'
  <2>1. ActiveCounts' /\ active' \in Nat
    BY <1>4, CountKept DEF Tasks
  <2>2. TypeOK'
    BY <1>4, <2>1, MoveType, TasksAssumption DEF Tasks, TypeOK
  <2> QED
    BY <1>4, <2>1, <2>2, OwnerKept
<1>5. ASSUME NEW j \in Workload, JobStep(j) PROVE DrainInv'
  <2>1. CASE Admit(j)
    BY <2>1, <1>2
  <2>2. CASE Finish(j)
    BY <2>2, <1>3 DEF Finish, Holding, TypeOK
  <2>3. CASE NotifyIdle(j)
    BY <2>3, <1>4 DEF NotifyIdle, NotifyWaiters, Holding, TypeOK
  <2> QED
    BY <1>5, <2>1, <2>2, <2>3 DEF JobStep
<1>6. ASSUME NEW j \in Loops, LoopStep(j) PROVE DrainInv'
  <2> j \in Workload /\ j \in Tasks
    BY DEF Workload, Tasks
  <2>1. CASE LoopListen(j)
    BY <2>1, <1>4 DEF LoopListen, Enable, Holding, TypeOK
  <2>2. CASE LoopCheck(j)
    <3>1. CASE stopping
      BY <2>2, <3>1, <1>3 DEF LoopCheck, Unlisten, Holding, TypeOK
    <3>2. CASE ~stopping
      BY <2>2, <3>2, <1>4 DEF LoopCheck, Holding, TypeOK
    <3> QED
      BY <3>1, <3>2
  <2>3. CASE LoopWoken(j)
    BY <2>3, <1>4 DEF LoopWoken, Holding, TypeOK
  <2>4. CASE LoopTick(j)
    BY <2>4, <1>4 DEF LoopTick, Unlisten, Holding, TypeOK
  <2>5. CASE LoopTicked(j)
    BY <2>5, <1>4 DEF LoopTicked, Holding, TypeOK
  <2> QED
    BY <1>6, <2>1, <2>2, <2>3, <2>4, <2>5 DEF LoopStep
<1>7. ASSUME NEW l \in Closed, Goto(Owner, l), UNCHANGED active,
             stopping', firing' \in BOOLEAN, stopping' \in BOOLEAN,
             listening' \subseteq Tasks, woken' \subseteq Tasks,
             l = "returned" => active = 0
      PROVE DrainInv'
  <2>1. ActiveCounts' /\ active' \in Nat
    BY <1>7, CountKept, TasksAssumption DEF Tasks
  <2>2. TypeOK'
    BY <1>7, <2>1, MoveType DEF Tasks
  <2>3. pc'[Owner] = l
    BY <1>7, GotoMoves DEF Tasks
  <2> QED
    BY <1>7, <2>1, <2>2, <2>3
<1>8. CASE Stop \/ DropGuard \/ Shutdown
  BY <1>8, <1>7 DEF Stop, DropGuard, Shutdown, CloseTracker, Closed, TypeOK
<1>9. CASE DrainStep
  <2>1. CASE NotifyStopped
    BY <2>1, <1>7 DEF NotifyStopped, NotifyWaiters, Closed, TypeOK
  <2>2. CASE ShutScheduler
    BY <2>2, <1>7 DEF ShutScheduler, Closed, TypeOK
  <2>3. CASE WaitEnable
    BY <2>3, <1>7 DEF WaitEnable, Enable, Closed, TypeOK, Tasks
  <2>4. CASE WaitCheck
    BY <2>4, <1>7 DEF WaitCheck, Unlisten, Closed, TypeOK
  <2>5. CASE WaitWoken
    BY <2>5, <1>7 DEF WaitWoken, Closed, TypeOK
  <2> QED
    BY <1>9, <2>1, <2>2, <2>3, <2>4, <2>5 DEF DrainStep
<1>10. CASE UNCHANGED vars
  <2>1. Admitted' = Admitted
    BY <1>10 DEF vars, Admitted
  <2> QED
    BY <1>10, <2>1 DEF vars, TypeOK, ActiveCounts
<1> QED
  BY <1>1, <1>5, <1>6, <1>8, <1>9, <1>10 DEF Next

(* The counter of admitted work is exact and admission is closed before    *)
(* it is read, in every reachable state (WorkTracker's mutex-protected     *)
(* state and ScheduledWorkerGuard::shutdown).                              *)
THEOREM DrainCorrect == Spec => []DrainInv
  BY DrainInit, DrainStepInv, PTL DEF Spec

(* WorkTracker's counter equals the number of admitted jobs that have not  *)
(* dropped their ActiveWork: it never underflows and never leaks.          *)
THEOREM CounterExact == Spec => []ActiveCounts
<1>1. DrainInv => ActiveCounts
  BY DEF DrainInv
<1> QED
  BY <1>1, DrainCorrect, PTL

(* When ScheduledWorkerGuard::shutdown has returned, no admitted job is    *)
(* running, for any number of jobs and loops.                              *)
THEOREM ShutdownDrains == Spec => []Drained
<1>1. DrainInv => Drained
  <2> SUFFICES ASSUME DrainInv, pc[Owner] = "returned" PROVE Admitted = {}
    BY DEF Drained
  <2>1. Cardinality(Admitted) = 0
    BY DEF DrainInv, ActiveCounts
  <2> QED
    BY <2>1, AdmittedFinite, FS_EmptySet
<1> QED
  BY <1>1, DrainCorrect, PTL

(* Once the tracker is closed, no step admits a job.                       *)
LEMMA ClosedAdmitsNone ==
  ASSUME DrainInv, [Next]_vars, pc[Owner] \in Closed
  PROVE  Admitted' \subseteq Admitted
<1> SUFFICES ASSUME NEW a \in Workload, pc'[a] \in Holding PROVE pc[a] \in Holding
  BY DEF Admitted
<1> a \in Tasks /\ a # Owner
  BY TasksAssumption DEF Tasks
<1> TypeOK /\ stopping
  BY DEF DrainInv
<1>1. ASSUME NEW t \in Tasks, NEW l, Goto(t, l),
             l \notin Holding \/ t = Owner \/ pc[t] \in Holding
      PROVE  pc[a] \in Holding
  BY <1>1, GotoMoves
<1>2. ASSUME NEW j \in Workload, Fire(j) \/ JobStep(j) PROVE pc[a] \in Holding
  <2>1. \E l \in {"fired", "idle", "lowered"} : Goto(j, l)
    BY <1>2 DEF Fire, JobStep, Admit, Finish, NotifyIdle, LowerActive
  <2> QED
    BY <2>1, <1>1 DEF Tasks, Holding
<1>3. ASSUME NEW j \in Loops, LoopStep(j) PROVE pc[a] \in Holding
  <2>1. (\E l : Goto(j, l)) /\ pc[j] \in Holding
    BY <1>3 DEF LoopStep, LoopListen, LoopCheck, LoopWoken, LoopTick, LoopTicked,
                LowerActive, Holding
  <2> QED
    BY <2>1, <1>1 DEF Tasks, Workload
<1>4. CASE Stop \/ DropGuard \/ Shutdown \/ DrainStep
  <2>1. \E l : Goto(Owner, l)
    BY <1>4 DEF Stop, DropGuard, Shutdown, CloseTracker, DrainStep, NotifyStopped,
                ShutScheduler, WaitEnable, WaitCheck, WaitWoken
  <2> QED
    BY <2>1, <1>1 DEF Tasks
<1>5. CASE UNCHANGED vars
  BY <1>5 DEF vars
<1> QED
  BY <1>2, <1>3, <1>4, <1>5 DEF Next

(* A guard that has been stopped, shut down or dropped admits no job       *)
(* again, whatever the scheduler still fires (WorkTracker::admit).         *)
THEOREM AdmissionStaysClosed == Spec => StopIsFinal
<1>1. DrainInv /\ [Next]_vars => [pc[Owner] \in Closed => Admitted' \subseteq Admitted]_vars
  BY ClosedAdmitsNone
<1> QED
  BY <1>1, DrainCorrect, PTL DEF Spec, StopIsFinal

==============================================================================
