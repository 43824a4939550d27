--------------------------- MODULE PublisherProofs ---------------------------
(***************************************************************************)
(* Proofs about Publisher, for any number of workers, handlers, editors,   *)
(* paths, hubs and generations.                                            *)
(***************************************************************************)
EXTENDS Publisher, TLAPS

(* Parsing keeps a configuration a configuration.                          *)
LEMMA ParsedType == \A c \in Configs : Parsed(c) \in Configs
  BY DEF Parsed, ParseHub, Configs, HubValues

(* What a reconfiguration makes of the stored state, for any well-formed   *)
(* new configuration.                                                      *)
LEMMA ReconfigureType ==
  ASSUME TypeOK, NEW c \in Configs, Reconfigure(c)
  PROVE  /\ config' \in Configs
         /\ generation' \in Nat
         /\ cache' \in [Paths -> Rows \cup {NoRow}]
  BY DEF TypeOK, Reconfigure, EmptyCache

(* An edit, applied or found to be a no-op, keeps the stored state typed.  *)
LEMMA ApplyType ==
  ASSUME TypeOK, NEW m \in Edits, Apply(m) \/ UNCHANGED stored
  PROVE  /\ config' \in Configs
         /\ generation' \in Nat
         /\ cache' \in [Paths -> Rows \cup {NoRow}]
<1>1. CASE UNCHANGED stored
  BY <1>1 DEF TypeOK, stored
<1>2. CASE Apply(m) /\ m.key = "hub"
  <2>1. [config EXCEPT !.hub = m.value] \in Configs
    BY <1>2 DEF TypeOK, Configs, HubValues, Edits
  <2>2. UNCHANGED stored \/ Reconfigure([config EXCEPT !.hub = m.value])
    BY <1>2 DEF Apply
  <2> QED  BY <1>1, <2>1, <2>2, ReconfigureType
<1>3. CASE Apply(m) /\ m.key = "identity"
  <2>1. [config EXCEPT !.identity = m.value] \in Configs
    BY <1>3 DEF TypeOK, Configs, Edits
  <2>2. Reconfigure([config EXCEPT !.identity = m.value])
    BY <1>3 DEF Apply
  <2> QED  BY <2>1, <2>2, ReconfigureType
<1>4. CASE Apply(m) /\ m.key = "window"
  <2>1. [config EXCEPT !.window = m.value] \in Configs
    BY <1>4 DEF TypeOK, Configs, Edits
  <2>2. Reconfigure([config EXCEPT !.window = m.value])
    BY <1>4 DEF Apply
  <2> QED  BY <2>1, <2>2, ReconfigureType
<1> QED  BY <1>1, <1>2, <1>3, <1>4 DEF Edits

(* An edit leaves the stored state alone or reconfigures.                  *)
LEMMA AppliedChange ==
  ASSUME NEW m \in Edits, Apply(m) \/ UNCHANGED stored
  PROVE  \E c : UNCHANGED stored \/ Reconfigure(c)
<1>1. CASE UNCHANGED stored
  BY <1>1
<1>2. CASE Apply(m) /\ m.key = "hub"
  <2>1. UNCHANGED stored \/ Reconfigure([config EXCEPT !.hub = m.value])
    BY <1>2 DEF Apply
  <2> QED  BY <2>1
<1>3. CASE Apply(m) /\ m.key = "identity"
  <2>1. Reconfigure([config EXCEPT !.identity = m.value])
    BY <1>3 DEF Apply
  <2> QED  BY <2>1
<1>4. CASE Apply(m) /\ m.key = "window"
  <2>1. Reconfigure([config EXCEPT !.window = m.value])
    BY <1>4 DEF Apply
  <2> QED  BY <2>1
<1> QED  BY <1>1, <1>2, <1>3, <1>4 DEF Edits

(* The repair of a malformed hub keeps the stored state typed.             *)
LEMMA RepairType ==
  ASSUME TypeOK, RepairMalformedHub \/ UNCHANGED stored
  PROVE  /\ config' \in Configs
         /\ generation' \in Nat
         /\ cache' \in [Paths -> Rows \cup {NoRow}]
<1>1. [config EXCEPT !.hub = NoHub] \in Configs
  BY DEF TypeOK, Configs, HubValues
<1>2. CASE UNCHANGED stored
  BY <1>2 DEF TypeOK, stored
<1>3. CASE Reconfigure([config EXCEPT !.hub = NoHub])
  BY <1>1, <1>3, ReconfigureType
<1> QED  BY <1>2, <1>3 DEF RepairMalformedHub

(* Every step keeps the types.                                             *)
LEMMA TypeStep == TypeOK /\ [Next]_vars => TypeOK'
<1> SUFFICES ASSUME TypeOK, [Next]_vars PROVE TypeOK'
  OBVIOUS
<1> USE DEF TypeOK, Readers, Procs
<1>1. ASSUME NEW w \in Workers, NEW p \in Paths, NEW rg \in BOOLEAN, BeginGroup(w, p, rg)
      PROVE  TypeOK'
  BY <1>1 DEF BeginGroup, Goto, stored
<1>2. ASSUME NEW h \in Handlers, NEW p \in Paths, CacheMiss(h, p) PROVE TypeOK'
  BY <1>2 DEF CacheMiss, Goto, stored
<1>3. ASSUME NEW r \in Readers, ReadSnapshot(r) PROVE TypeOK'
  BY <1>3, ParsedType DEF ReadSnapshot, Snapshot, Snapshots, Goto, stored
<1>4. ASSUME NEW r \in Readers, RepairGate(r) PROVE TypeOK'
  BY <1>4 DEF RepairGate, Goto, stored, locals
<1>5. ASSUME NEW r \in Readers, Repair(r) PROVE TypeOK'
  <2>1. RepairMalformedHub \/ UNCHANGED stored
    BY <1>5 DEF Repair
  <2>2. /\ config' \in Configs
        /\ generation' \in Nat
        /\ cache' \in [Paths -> Rows \cup {NoRow}]
    BY <2>1, RepairType
  <2> QED  BY <1>5, <2>2 DEF Repair, Goto, locals
<1>6. ASSUME NEW r \in Readers, RepairUnconfirmed(r) PROVE TypeOK'
  <2>1. RepairMalformedHub \/ UNCHANGED stored
    BY <1>6 DEF RepairUnconfirmed
  <2>2. /\ config' \in Configs
        /\ generation' \in Nat
        /\ cache' \in [Paths -> Rows \cup {NoRow}]
    BY <2>1, RepairType
  <2> QED  BY <1>6, <2>2 DEF RepairUnconfirmed, Goto, Release, Fault, OnError, locals
<1>7. ASSUME NEW r \in Readers, Resnapshot(r) PROVE TypeOK'
  BY <1>7, ParsedType DEF Resnapshot, Snapshot, Snapshots, Goto, Release, stored
<1>8. ASSUME NEW r \in Readers, ReaderFails(r) PROVE TypeOK'
  BY <1>8 DEF ReaderFails, Goto, Release, Fault, OnError, stored, locals
<1>9. ASSUME NEW r \in Readers, Render(r) PROVE TypeOK'
  BY <1>9 DEF Render, Rows, Snapshots, Goto, stored
<1>10. ASSUME NEW r \in Readers, BaseUrlRequired(r) PROVE TypeOK'
  BY <1>10 DEF BaseUrlRequired, Goto, OnError, stored, locals
<1>11. ASSUME NEW w \in Workers, LoadCached(w) PROVE TypeOK'
  BY <1>11 DEF LoadCached, Goto, stored
<1>12. ASSUME NEW r \in Readers, FinalizationGuard(r) PROVE TypeOK'
  BY <1>12 DEF FinalizationGuard, Goto, stored, locals
<1>13. ASSUME NEW r \in Readers, CommitCache(r) PROVE TypeOK'
  BY <1>13 DEF CommitCache, Upsert, Goto, Release, locals
<1>14. ASSUME NEW r \in Readers, CommitStale(r) PROVE TypeOK'
  BY <1>14 DEF CommitStale, Goto, Release, stored, locals
<1>15. ASSUME NEW r \in Readers, CommitUnconfirmed(r) PROVE TypeOK'
  BY <1>15 DEF CommitUnconfirmed, Upsert, Goto, Release, Fault, OnError, locals
<1>16. ASSUME NEW w \in Workers, CheckCurrent(w) PROVE TypeOK'
  BY <1>16 DEF CheckCurrent, Goto, stored, locals
<1>17. ASSUME NEW w \in Workers, FinalizeFails(w) PROVE TypeOK'
  BY <1>17 DEF FinalizeFails, Goto, Fault, stored, locals
<1>18. ASSUME NEW w \in Workers, Publish(w) PROVE TypeOK'
  BY <1>18 DEF Publish, Goto, stored, locals
<1>19. ASSUME NEW w \in Workers, PingReturns(w) PROVE TypeOK'
  BY <1>19 DEF PingReturns, Goto, stored, locals
<1>20. ASSUME NEW w \in Workers, EndGroup(w) PROVE TypeOK'
  BY <1>20 DEF EndGroup, Goto, Release, stored, locals
<1>21. ASSUME NEW e \in Editors, NEW m \in Edits, RequestEdit(e, m) PROVE TypeOK'
  BY <1>21 DEF RequestEdit, Goto, stored
<1>22. ASSUME NEW e \in Editors, EditGate(e) PROVE TypeOK'
  BY <1>22 DEF EditGate, Goto, stored, locals
<1>23. ASSUME NEW e \in Editors, Mutate(e) PROVE TypeOK'
  <2>1. Apply(want[e]) \/ UNCHANGED stored
    BY <1>23 DEF Mutate
  <2>2. /\ config' \in Configs
        /\ generation' \in Nat
        /\ cache' \in [Paths -> Rows \cup {NoRow}]
    BY <2>1, ApplyType
  <2> QED  BY <1>23, <2>2 DEF Mutate, Goto, Release, locals
<1>24. ASSUME NEW e \in Editors, MutateUnconfirmed(e) PROVE TypeOK'
  <2>1. Apply(want[e]) \/ UNCHANGED stored
    BY <1>24 DEF MutateUnconfirmed
  <2>2. /\ config' \in Configs
        /\ generation' \in Nat
        /\ cache' \in [Paths -> Rows \cup {NoRow}]
    BY <2>1, ApplyType
  <2> QED  BY <1>24, <2>2 DEF MutateUnconfirmed, Goto, Release, Fault, locals
<1>25. ASSUME NEW p \in Paths, PostChange(p) PROVE TypeOK'
  BY <1>25 DEF PostChange, stored, locals
<1>26. ASSUME NEW x \in Procs, Abort(x) PROVE TypeOK'
  BY <1>26 DEF Abort, Goto, Release, Fault, stored, locals
<1>27. CASE UNCHANGED vars
  BY <1>27 DEF vars, stored, locals
<1> QED
  BY <1>1, <1>2, <1>3, <1>4, <1>5, <1>6, <1>7, <1>8, <1>9, <1>10, <1>11, <1>12,
     <1>13, <1>14, <1>15, <1>16, <1>17, <1>18, <1>19, <1>20, <1>21, <1>22,
     <1>23, <1>24, <1>25, <1>26, <1>27
     DEF Next, ReaderStep, WorkerStep, EditorStep

(* The initial states are typed.                                           *)
LEMMA TypeInit == Init => TypeOK
  BY ParsedType DEF Init, TypeOK, Readers, Procs, EmptyCache, Snapshots, Edits

(* Every variable keeps its type, whatever fails and however the           *)
(* processes interleave.                                                   *)
THEOREM TypeCorrect == Spec => []TypeOK
<1>1. Init => TypeOK
  BY TypeInit
<1>2. TypeOK /\ [Next]_vars => TypeOK'
  BY TypeStep
<1> QED  BY <1>1, <1>2, PTL DEF Spec

(* A holder of the gate that changes the stored state, or finds nothing to *)
(* change, keeps the invariant: no publication is under way, and every     *)
(* snapshot taken before belongs to an older generation.                   *)
LEMMA GatedChange ==
  ASSUME PublisherInv, TypeOK',
         NEW x \in Procs, pc[x] \in {"repair", "mutate"},
         NEW l \in {"idle", "settle", "resnapshot"}, Goto(x, l),
         NEW c, UNCHANGED stored \/ Reconfigure(c),
         IF l = "resnapshot" THEN gate' = gate ELSE Release(x),
         UNCHANGED locals
  PROVE  PublisherInv'
<1> USE ProcsAssumption DEF PublisherInv, Region, Fenced, Readers, Procs
<1>1. gate = x /\ \A w \in Workers : pc[w] \notin {"publish", "pinging"}
  BY DEF GateDiscipline
<1>2. \A y \in Procs : pc'[y] = IF y = x THEN l ELSE pc[y]
  BY DEF TypeOK, Goto
<1>3. CacheFromCurrentConfig'
  BY DEF CacheFromCurrentConfig, Reconfigure, EmptyCache, stored
<1>4. GateDiscipline'
  BY <1>1, <1>2 DEF GateDiscipline, Release
<1>5. SnapshotsAgree' /\ (Reconfigure(c) => \A r \in Readers : ~Fenced(r)')
  BY DEF SnapshotsAgree, Reconfigure, stored, locals, TypeOK, Snapshots
<1>6. DraftsFollowSnapshot'
  BY <1>2 DEF DraftsFollowSnapshot, locals
<1>7. RepublishedRowsStay'
  BY <1>2, <1>5 DEF RepublishedRowsStay, stored, locals
<1>8. PublicationIsFenced'
  BY <1>1, <1>2 DEF PublicationIsFenced
<1> QED  BY <1>3, <1>4, <1>5, <1>6, <1>7, <1>8

(* Every step keeps the invariant.                                         *)
LEMMA InvStep == PublisherInv /\ [Next]_vars => PublisherInv'
<1> SUFFICES ASSUME PublisherInv, [Next]_vars PROVE PublisherInv'
  OBVIOUS
<1>0. TypeOK /\ TypeOK'
  BY TypeStep DEF PublisherInv
<1> USE <1>0, ProcsAssumption
<1> USE DEF PublisherInv, CacheFromCurrentConfig, GateDiscipline, SnapshotsAgree,
        DraftsFollowSnapshot, RepublishedRowsStay, PublicationIsFenced,
        Region, Fenced, Readers, Procs
<1>1. ASSUME NEW w \in Workers, NEW p \in Paths, NEW rg \in BOOLEAN, BeginGroup(w, p, rg)
      PROVE  PublisherInv'
  BY <1>1 DEF TypeOK, BeginGroup, Goto, stored
<1>2. ASSUME NEW h \in Handlers, NEW p \in Paths, CacheMiss(h, p) PROVE PublisherInv'
  BY <1>2 DEF TypeOK, CacheMiss, Goto, stored
<1>3. ASSUME NEW r \in Readers, ReadSnapshot(r) PROVE PublisherInv'
  BY <1>3 DEF TypeOK, ReadSnapshot, Snapshot, Goto, stored
<1>4. ASSUME NEW r \in Readers, RepairGate(r) PROVE PublisherInv'
  BY <1>4 DEF TypeOK, RepairGate, Goto, stored, locals
<1>5. ASSUME NEW r \in Readers, Repair(r) PROVE PublisherInv'
  <2>1. UNCHANGED stored \/ Reconfigure([config EXCEPT !.hub = NoHub])
    BY <1>5 DEF Repair, RepairMalformedHub
  <2>2. pc[r] = "repair" /\ Goto(r, "resnapshot") /\ gate' = gate /\ UNCHANGED locals
    BY <1>5 DEF Repair
  <2> HIDE DEF PublisherInv
  <2> QED  BY <2>1, <2>2, GatedChange
<1>6. ASSUME NEW r \in Readers, RepairUnconfirmed(r) PROVE PublisherInv'
  <2>1. UNCHANGED stored \/ Reconfigure([config EXCEPT !.hub = NoHub])
    BY <1>6 DEF RepairUnconfirmed, RepairMalformedHub
  <2>2. /\ pc[r] = "repair" /\ Goto(r, OnError(r)) /\ Release(r) /\ UNCHANGED locals
        /\ OnError(r) \in {"idle", "settle"}
    BY <1>6 DEF RepairUnconfirmed, OnError
  <2> HIDE DEF PublisherInv
  <2> QED  BY <2>1, <2>2, GatedChange
<1>7. ASSUME NEW r \in Readers, Resnapshot(r) PROVE PublisherInv'
  BY <1>7 DEF TypeOK, Resnapshot, Snapshot, Goto, Release, stored
<1>8. ASSUME NEW r \in Readers, ReaderFails(r) PROVE PublisherInv'
  BY <1>8 DEF TypeOK, ReaderFails, Goto, Release, OnError, stored, locals
<1>9. ASSUME NEW r \in Readers, Render(r) PROVE PublisherInv'
  <2>1. [config |-> snap[r].config, version |-> content[target[r]]] \in Rows
    BY DEF TypeOK, Rows, Snapshots
  <2>2. draft'[r] # NoRow /\ draft'[r].config = snap[r].config
    BY <1>9, <2>1, ValuesAssumption DEF Render, TypeOK
  <2> QED  BY <1>9, <2>2 DEF TypeOK, Render, Goto, stored
<1>10. ASSUME NEW r \in Readers, BaseUrlRequired(r) PROVE PublisherInv'
  BY <1>10 DEF TypeOK, BaseUrlRequired, Goto, OnError, stored, locals
<1>11. ASSUME NEW w \in Workers, LoadCached(w) PROVE PublisherInv'
  BY <1>11 DEF TypeOK, LoadCached, Goto, stored
<1>12. ASSUME NEW r \in Readers, FinalizationGuard(r) PROVE PublisherInv'
  BY <1>12 DEF TypeOK, FinalizationGuard, Goto, stored, locals
<1>13. ASSUME NEW r \in Readers, CommitCache(r) PROVE PublisherInv'
  BY <1>13 DEF TypeOK, CommitCache, Upsert, Goto, Release, locals
<1>14. ASSUME NEW r \in Readers, CommitStale(r) PROVE PublisherInv'
  BY <1>14 DEF TypeOK, CommitStale, Goto, Release, stored, locals
<1>15. ASSUME NEW r \in Readers, CommitUnconfirmed(r) PROVE PublisherInv'
  BY <1>15 DEF TypeOK, CommitUnconfirmed, Upsert, Goto, Release, OnError, locals
<1>16. ASSUME NEW w \in Workers, CheckCurrent(w) PROVE PublisherInv'
  BY <1>16 DEF TypeOK, CheckCurrent, Goto, stored, locals
<1>17. ASSUME NEW w \in Workers, FinalizeFails(w) PROVE PublisherInv'
  BY <1>17 DEF TypeOK, FinalizeFails, Goto, stored, locals
<1>18. ASSUME NEW w \in Workers, Publish(w) PROVE PublisherInv'
  BY <1>18 DEF TypeOK, Publish, Goto, stored, locals
<1>19. ASSUME NEW w \in Workers, PingReturns(w) PROVE PublisherInv'
  BY <1>19 DEF TypeOK, PingReturns, Goto, stored, locals
<1>20. ASSUME NEW w \in Workers, EndGroup(w) PROVE PublisherInv'
  BY <1>20 DEF TypeOK, EndGroup, Goto, Release, stored, locals
<1>21. ASSUME NEW e \in Editors, NEW m \in Edits, RequestEdit(e, m) PROVE PublisherInv'
  BY <1>21 DEF TypeOK, RequestEdit, Goto, stored
<1>22. ASSUME NEW e \in Editors, EditGate(e) PROVE PublisherInv'
  BY <1>22 DEF TypeOK, EditGate, Goto, stored, locals
<1>23. ASSUME NEW e \in Editors, Mutate(e) PROVE PublisherInv'
  <2>1. PICK c : UNCHANGED stored \/ Reconfigure(c)
    BY <1>23, AppliedChange DEF Mutate, TypeOK
  <2>2. pc[e] = "mutate" /\ Goto(e, "idle") /\ Release(e) /\ UNCHANGED locals
    BY <1>23 DEF Mutate
  <2> HIDE DEF PublisherInv
  <2> QED  BY <2>1, <2>2, GatedChange
<1>24. ASSUME NEW e \in Editors, MutateUnconfirmed(e) PROVE PublisherInv'
  <2>1. PICK c : UNCHANGED stored \/ Reconfigure(c)
    BY <1>24, AppliedChange DEF MutateUnconfirmed, TypeOK
  <2>2. pc[e] = "mutate" /\ Goto(e, "idle") /\ Release(e) /\ UNCHANGED locals
    BY <1>24 DEF MutateUnconfirmed
  <2> HIDE DEF PublisherInv
  <2> QED  BY <2>1, <2>2, GatedChange
<1>25. ASSUME NEW p \in Paths, PostChange(p) PROVE PublisherInv'
  BY <1>25 DEF TypeOK, PostChange, stored, locals
<1>26. ASSUME NEW x \in Procs, Abort(x) PROVE PublisherInv'
  BY <1>26 DEF TypeOK, Abort, Goto, Release, stored, locals
<1>27. CASE UNCHANGED vars
  BY <1>27 DEF vars, stored, locals
<1> QED
  BY <1>1, <1>2, <1>3, <1>4, <1>5, <1>6, <1>7, <1>8, <1>9, <1>10, <1>11, <1>12,
     <1>13, <1>14, <1>15, <1>16, <1>17, <1>18, <1>19, <1>20, <1>21, <1>22,
     <1>23, <1>24, <1>25, <1>26, <1>27
     DEF Next, ReaderStep, WorkerStep, EditorStep

(* The initial states satisfy the invariant.                               *)
LEMMA InvInit == Init => PublisherInv
<1> SUFFICES ASSUME Init PROVE PublisherInv
  OBVIOUS
<1>1. TypeOK
  BY TypeInit
<1>2. \A r \in Readers : snap[r].generation = generation /\ snap[r].config = Parsed(config)
  BY DEF Init
<1> QED
  BY <1>1, <1>2 DEF Init, PublisherInv, CacheFromCurrentConfig, GateDiscipline,
     SnapshotsAgree, DraftsFollowSnapshot, RepublishedRowsStay, PublicationIsFenced,
     EmptyCache, Region, Readers, Procs

(* The invariant holds in every reachable state.                           *)
THEOREM InvCorrect == Spec => []PublisherInv
<1>1. Init => PublisherInv
  BY InvInit
<1>2. PublisherInv /\ [Next]_vars => PublisherInv'
  BY InvStep
<1> QED  BY <1>1, <1>2, PTL DEF Spec

(* The generation fence works: whatever render was overtaken by whatever   *)
(* edit, the cache holds only rows of the stored configuration.            *)
THEOREM CacheIsCurrent == Spec => []CacheFromCurrentConfig
<1>1. PublisherInv => CacheFromCurrentConfig
  BY DEF PublisherInv
<1> QED  BY <1>1, InvCorrect, PTL

(* The gate works: while a ping is outstanding the configuration it was    *)
(* sent under is the stored one, and the announced feed is cached.         *)
THEOREM PingsCurrent == Spec => []PingsAreCurrent
<1>1. PublisherInv => PingsAreCurrent
  BY DEF PublisherInv, PublicationIsFenced, SnapshotsAgree, PingsAreCurrent, Readers
<1> QED  BY <1>1, InvCorrect, PTL

(* Repair never loses an edit: whatever an editor stored between the read  *)
(* of the malformed hub and its repair is kept.                            *)
THEOREM RepairSpares == Spec => RepairSparesGoodHub
<1>1. ASSUME TypeOK, [Next]_vars, NEW r \in Readers, pc[r] = "repair", pc'[r] # "repair",
             config.hub # Malformed
      PROVE  config' = config
  <2> USE <1>1
  <2>1. ASSUME NEW x \in Procs, NEW l, Goto(x, l) PROVE x = r
    BY <2>1 DEF Goto, TypeOK, Readers, Procs
  <2>2. ASSUME NEW q \in Readers, Repair(q) \/ RepairUnconfirmed(q) PROVE config' = config
    BY <2>2 DEF Repair, RepairUnconfirmed, RepairMalformedHub, stored
  <2>3. ASSUME NEW e \in Editors, Mutate(e) \/ MutateUnconfirmed(e) PROVE config' = config
    BY <2>1, <2>3, ProcsAssumption DEF Mutate, MutateUnconfirmed, Readers, Procs
  <2>4. CASE UNCHANGED vars
    BY <2>4 DEF vars
  <2> QED
    BY <2>2, <2>3, <2>4
       DEF Next, ReaderStep, WorkerStep, EditorStep, stored, BeginGroup, CacheMiss,
           ReadSnapshot, RepairGate, Resnapshot, ReaderFails, Render, BaseUrlRequired,
           LoadCached, FinalizationGuard, CommitCache, CommitStale, CommitUnconfirmed,
           CheckCurrent, FinalizeFails, Publish, PingReturns, EndGroup, RequestEdit,
           EditGate, PostChange, Abort
<1>2. TypeOK /\ [Next]_vars =>
        [\A r \in Readers :
            (pc[r] = "repair" /\ pc'[r] # "repair" /\ config.hub # Malformed)
                => config' = config]_vars
  BY <1>1
<1> QED  BY <1>2, TypeCorrect, PTL DEF Spec, RepairSparesGoodHub

(* An abstract configuration step: no ping is outstanding, every feed is   *)
(* emptied.                                                                *)
LEMMA ConfigureStep ==
  ASSUME PublisherInv, TypeOK', NEW x \in Procs, pc[x] \in {"repair", "mutate"},
         NEW c, UNCHANGED stored \/ Reconfigure(c),
         NEW l \in {"idle", "settle", "resnapshot"}, Goto(x, l), UNCHANGED locals
  PROVE  [Promise!PubNext]_Promise!pvars
<1>1. gate = x /\ \A w \in Workers : pc[w] # "pinging"
  BY ProcsAssumption DEF PublisherInv, GateDiscipline, Region, Readers, Procs
<1>2. \A w \in Workers : pc'[w] # "pinging"
  BY <1>1 DEF Goto, PublisherInv, TypeOK, Readers, Procs
<1>3. Pinging = [w \in Workers |-> NoRow] /\ Pinging' = Pinging
  BY <1>1, <1>2 DEF Pinging
<1>4. CASE UNCHANGED stored
  BY <1>3, <1>4 DEF Promise!pvars, Served, stored
<1>5. CASE Reconfigure(c)
  <2>1. Served' = [p \in Paths |-> NoRow]
    BY <1>5 DEF Reconfigure, EmptyCache, Served
  <2>2. Parsed(config)' \in {Parsed(d) : d \in Configs}
    BY DEF TypeOK
  <2> QED  BY <1>3, <2>1, <2>2 DEF Promise!PubNext, Promise!PubConfigure
<1> QED  BY <1>4, <1>5

(* A step of a process that neither starts nor ends a ping, and touches    *)
(* only its own snapshot and target, leaves the outstanding pings alone.   *)
LEMMA PingsUntouched ==
  ASSUME TypeOK, NEW x \in Procs, pc[x] # "pinging",
         NEW l, l # "pinging", Goto(x, l),
         \A w \in Workers : w # x => snap'[w] = snap[w] /\ target'[w] = target[w]
  PROVE  Pinging' = Pinging
<1>1. \A w \in Workers : pc'[w] = IF w = x THEN l ELSE pc[w]
  BY DEF Goto, TypeOK, Readers, Procs
<1> QED  BY <1>1 DEF Pinging

(* The end of a ping, answered or cut off.                                 *)
LEMMA PongStep ==
  ASSUME TypeOK, NEW x \in Procs, NEW l, l # "pinging", Goto(x, l),
         UNCHANGED <<config, cache, snap, target>>
  PROVE  [Promise!PubNext]_Promise!pvars
<1>1. \A w \in Workers : pc'[w] = IF w = x THEN l ELSE pc[w]
  BY DEF Goto, TypeOK, Readers, Procs
<1>2. UNCHANGED <<Parsed(config), Served>>
  BY DEF Served
<1>3. CASE x \in Workers
  <2>1. Pinging' = [Pinging EXCEPT ![x] = NoRow]
    BY <1>1, <1>3 DEF Pinging
  <2>2. Promise!PubPong(x)
    BY <1>2, <2>1 DEF Promise!PubPong
  <2> QED  BY <1>3, <2>2 DEF Promise!PubNext
<1>4. CASE x \notin Workers
  <2>1. Pinging' = Pinging
    BY <1>1, <1>4 DEF Pinging
  <2> QED  BY <1>2, <2>1 DEF Promise!pvars
<1> QED  BY <1>3, <1>4

(* A commit under the fence fills the feed from the configuration in       *)
(* force.                                                                  *)
LEMMA FillStep ==
  ASSUME PublisherInv, NEW r \in Readers, pc[r] = "finalize", regen[r], Fenced(r),
         Upsert(target[r], draft[r]),
         UNCHANGED <<config, Pinging>>
  PROVE  [Promise!PubNext]_Promise!pvars
<1>1. target[r] \in Paths /\ cache \in [Paths -> Rows \cup {NoRow}]
  BY DEF PublisherInv, TypeOK
<1>2. draft[r] # NoRow /\ draft[r].config = Parsed(config)
  BY DEF PublisherInv, DraftsFollowSnapshot, SnapshotsAgree
<1>3. cache' = [cache EXCEPT ![target[r]] = draft[r]]
  BY <1>1 DEF Upsert
<1>4. Served' = [Served EXCEPT ![target[r]] = Parsed(config)]
  BY <1>1, <1>2, <1>3 DEF Served
<1>5. Promise!PubFill(target[r])
  BY <1>4 DEF Promise!PubFill
<1> QED  BY <1>1, <1>5 DEF Promise!PubNext

(* A request leaves for the configured hub about a feed that is cached.    *)
LEMMA PingStep ==
  ASSUME PublisherInv, NEW w \in Workers, pc[w] = "publish", Goto(w, "pinging"),
         snap[w].config.hub # NoHub, UNCHANGED <<config, cache, snap, target>>
  PROVE  [Promise!PubNext]_Promise!pvars
<1>1. \A v \in Workers : pc'[v] = IF v = w THEN "pinging" ELSE pc[v]
  BY DEF Goto, PublisherInv, TypeOK, Readers, Procs
<1>2. target[w] \in Paths /\ config \in Configs
  BY DEF PublisherInv, TypeOK, Readers
<1>3. snap[w].config = Parsed(config) /\ cache[target[w]] # NoRow
  BY DEF PublisherInv, PublicationIsFenced, SnapshotsAgree, Readers
<1>4. Parsed(config).hub \in Hubs
  BY <1>2, <1>3 DEF Parsed, ParseHub, Configs, HubValues
<1>5. Served[target[w]] = Parsed(config) /\ Served' = Served
  BY <1>2, <1>3 DEF Served, PublisherInv, CacheFromCurrentConfig
<1>6. /\ Pinging[w] = NoRow
      /\ Pinging' = [Pinging EXCEPT ![w] = [hub |-> Parsed(config).hub, path |-> target[w]]]
  BY <1>1, <1>3 DEF Pinging
<1>7. Promise!PubPing(w, target[w])
  BY <1>4, <1>5, <1>6 DEF Promise!PubPing
<1> QED  BY <1>2, <1>7 DEF Promise!PubNext

(* Every step of the seam is a step of its promise, or no step at all.     *)
LEMMA RefinementStep ==
  PublisherInv /\ [Next]_vars => [Promise!PubNext]_Promise!pvars
<1> SUFFICES ASSUME PublisherInv, [Next]_vars PROVE [Promise!PubNext]_Promise!pvars
  OBVIOUS
<1>0. TypeOK /\ TypeOK'
  BY TypeStep DEF PublisherInv
<1> USE <1>0
<1>q. ASSUME UNCHANGED <<config, cache, Pinging>>
      PROVE  [Promise!PubNext]_Promise!pvars
  BY <1>q DEF Promise!pvars, Served
<1>c. ASSUME NEW x \in Procs, pc[x] # "pinging", NEW l, l # "pinging", Goto(x, l),
             \A w \in Workers : w # x => snap'[w] = snap[w] /\ target'[w] = target[w]
      PROVE  Pinging' = Pinging
  BY <1>c, PingsUntouched
<1>1. ASSUME NEW w \in Workers, NEW p \in Paths, NEW rg \in BOOLEAN, BeginGroup(w, p, rg)
      PROVE  [Promise!PubNext]_Promise!pvars
  <2>1. /\ pc[w] # "pinging" /\ Goto(w, "snapshot")
        /\ UNCHANGED <<config, cache>>
        /\ \A v \in Workers : v # w => snap'[v] = snap[v] /\ target'[v] = target[v]
    BY <1>1 DEF BeginGroup, stored, locals, TypeOK, Readers
  <2>2. Pinging' = Pinging
    BY <1>c, <2>1 DEF Procs, Readers
  <2> QED  BY <1>q, <2>1, <2>2
<1>2. ASSUME NEW h \in Handlers, NEW p \in Paths, CacheMiss(h, p)
      PROVE  [Promise!PubNext]_Promise!pvars
  <2>1. /\ pc[h] # "pinging" /\ Goto(h, "snapshot")
        /\ UNCHANGED <<config, cache>>
        /\ \A v \in Workers : v # h => snap'[v] = snap[v] /\ target'[v] = target[v]
    BY <1>2 DEF CacheMiss, stored, locals, TypeOK, Readers
  <2>2. Pinging' = Pinging
    BY <1>c, <2>1 DEF Procs, Readers
  <2> QED  BY <1>q, <2>1, <2>2
<1>3. ASSUME NEW r \in Readers, ReadSnapshot(r) PROVE [Promise!PubNext]_Promise!pvars
  <2>1. PICK l \in {"repair_gate", "load"} : Goto(r, l)
    BY <1>3 DEF ReadSnapshot
  <2>2. /\ pc[r] # "pinging" /\ UNCHANGED <<config, cache>>
        /\ \A w \in Workers : w # r => snap'[w] = snap[w] /\ target'[w] = target[w]
    BY <1>3 DEF ReadSnapshot, Snapshot, stored, TypeOK, Readers
  <2>3. Pinging' = Pinging
    BY <1>c, <2>1, <2>2 DEF Procs
  <2> QED  BY <1>q, <2>2, <2>3
<1>4. ASSUME NEW r \in Readers, RepairGate(r) PROVE [Promise!PubNext]_Promise!pvars
  <2>1. /\ pc[r] # "pinging" /\ Goto(r, "repair")
        /\ UNCHANGED <<config, cache>>
        /\ \A v \in Workers : v # r => snap'[v] = snap[v] /\ target'[v] = target[v]
    BY <1>4 DEF RepairGate, stored, locals, TypeOK, Readers
  <2>2. Pinging' = Pinging
    BY <1>c, <2>1 DEF Procs, Readers
  <2> QED  BY <1>q, <2>1, <2>2
<1>5. ASSUME NEW r \in Readers, Resnapshot(r) PROVE [Promise!PubNext]_Promise!pvars
  <2>1. /\ pc[r] # "pinging" /\ Goto(r, "load")
        /\ UNCHANGED <<config, cache>>
        /\ \A v \in Workers : v # r => snap'[v] = snap[v] /\ target'[v] = target[v]
    BY <1>5 DEF Resnapshot, stored, locals, TypeOK, Readers, Snapshot
  <2>2. Pinging' = Pinging
    BY <1>c, <2>1 DEF Procs, Readers
  <2> QED  BY <1>q, <2>1, <2>2
<1>6. ASSUME NEW r \in Readers, ReaderFails(r) PROVE [Promise!PubNext]_Promise!pvars
  <2>1. /\ pc[r] # "pinging" /\ Goto(r, OnError(r)) /\ (OnError(r)) # "pinging"
        /\ UNCHANGED <<config, cache>>
        /\ \A v \in Workers : v # r => snap'[v] = snap[v] /\ target'[v] = target[v]
    BY <1>6 DEF ReaderFails, stored, locals, TypeOK, Readers, OnError
  <2>2. Pinging' = Pinging
    BY <1>c, <2>1 DEF Procs, Readers
  <2> QED  BY <1>q, <2>1, <2>2
<1>7. ASSUME NEW r \in Readers, Render(r) PROVE [Promise!PubNext]_Promise!pvars
  <2>1. /\ pc[r] # "pinging" /\ Goto(r, "gate")
        /\ UNCHANGED <<config, cache>>
        /\ \A v \in Workers : v # r => snap'[v] = snap[v] /\ target'[v] = target[v]
    BY <1>7 DEF Render, stored, locals, TypeOK, Readers
  <2>2. Pinging' = Pinging
    BY <1>c, <2>1 DEF Procs, Readers
  <2> QED  BY <1>q, <2>1, <2>2
<1>8. ASSUME NEW r \in Readers, BaseUrlRequired(r) PROVE [Promise!PubNext]_Promise!pvars
  <2>1. /\ pc[r] # "pinging" /\ Goto(r, OnError(r)) /\ (OnError(r)) # "pinging"
        /\ UNCHANGED <<config, cache>>
        /\ \A v \in Workers : v # r => snap'[v] = snap[v] /\ target'[v] = target[v]
    BY <1>8 DEF BaseUrlRequired, stored, locals, TypeOK, Readers, OnError
  <2>2. Pinging' = Pinging
    BY <1>c, <2>1 DEF Procs, Readers
  <2> QED  BY <1>q, <2>1, <2>2
<1>9. ASSUME NEW w \in Workers, LoadCached(w) PROVE [Promise!PubNext]_Promise!pvars
  <2>1. PICK l \in {"settle", "gate"} : Goto(w, l)
    BY <1>9 DEF LoadCached
  <2>2. /\ pc[w] # "pinging" /\ UNCHANGED <<config, cache>>
        /\ \A v \in Workers : v # w => snap'[v] = snap[v] /\ target'[v] = target[v]
    BY <1>9 DEF LoadCached, stored
  <2>3. Pinging' = Pinging
    BY <1>c, <2>1, <2>2 DEF Procs, Readers
  <2> QED  BY <1>q, <2>2, <2>3
<1>10. ASSUME NEW r \in Readers, FinalizationGuard(r)
       PROVE  [Promise!PubNext]_Promise!pvars
  <2>1. /\ pc[r] # "pinging" /\ Goto(r, "finalize")
        /\ UNCHANGED <<config, cache>>
        /\ \A v \in Workers : v # r => snap'[v] = snap[v] /\ target'[v] = target[v]
    BY <1>10 DEF FinalizationGuard, stored, locals, TypeOK, Readers
  <2>2. Pinging' = Pinging
    BY <1>c, <2>1 DEF Procs, Readers
  <2> QED  BY <1>q, <2>1, <2>2
<1>11. ASSUME NEW r \in Readers, CommitStale(r) PROVE [Promise!PubNext]_Promise!pvars
  <2>1. PICK l \in {"settle", "snapshot"} : Goto(r, l)
    BY <1>11 DEF CommitStale
  <2>2. /\ pc[r] # "pinging" /\ UNCHANGED <<config, cache>>
        /\ \A v \in Workers : v # r => snap'[v] = snap[v] /\ target'[v] = target[v]
    BY <1>11 DEF CommitStale, stored, locals
  <2>3. Pinging' = Pinging
    BY <1>c, <2>1, <2>2 DEF Procs, Readers
  <2> QED  BY <1>q, <2>2, <2>3
<1>12. ASSUME NEW w \in Workers, CheckCurrent(w) PROVE [Promise!PubNext]_Promise!pvars
  <2>1. PICK l \in {"publish", "settle"} : Goto(w, l)
    BY <1>12 DEF CheckCurrent
  <2>2. /\ pc[w] # "pinging" /\ UNCHANGED <<config, cache>>
        /\ \A v \in Workers : v # w => snap'[v] = snap[v] /\ target'[v] = target[v]
    BY <1>12 DEF CheckCurrent, stored, locals
  <2>3. Pinging' = Pinging
    BY <1>c, <2>1, <2>2 DEF Procs, Readers
  <2> QED  BY <1>q, <2>2, <2>3
<1>13. ASSUME NEW w \in Workers, FinalizeFails(w) PROVE [Promise!PubNext]_Promise!pvars
  <2>1. /\ pc[w] # "pinging" /\ Goto(w, "settle")
        /\ UNCHANGED <<config, cache>>
        /\ \A v \in Workers : v # w => snap'[v] = snap[v] /\ target'[v] = target[v]
    BY <1>13 DEF FinalizeFails, stored, locals, TypeOK, Readers
  <2>2. Pinging' = Pinging
    BY <1>c, <2>1 DEF Procs, Readers
  <2> QED  BY <1>q, <2>1, <2>2
<1>14. ASSUME NEW w \in Workers, EndGroup(w) PROVE [Promise!PubNext]_Promise!pvars
  <2>1. /\ pc[w] # "pinging" /\ Goto(w, "idle")
        /\ UNCHANGED <<config, cache>>
        /\ \A v \in Workers : v # w => snap'[v] = snap[v] /\ target'[v] = target[v]
    BY <1>14 DEF EndGroup, stored, locals, TypeOK, Readers
  <2>2. Pinging' = Pinging
    BY <1>c, <2>1 DEF Procs, Readers
  <2> QED  BY <1>q, <2>1, <2>2
<1>15. ASSUME NEW e \in Editors, NEW m \in Edits, RequestEdit(e, m)
       PROVE  [Promise!PubNext]_Promise!pvars
  <2>1. /\ pc[e] # "pinging" /\ Goto(e, "edit_gate")
        /\ UNCHANGED <<config, cache>>
        /\ \A v \in Workers : v # e => snap'[v] = snap[v] /\ target'[v] = target[v]
    BY <1>15 DEF RequestEdit, stored, locals, TypeOK, Readers
  <2>2. Pinging' = Pinging
    BY <1>c, <2>1 DEF Procs, Readers
  <2> QED  BY <1>q, <2>1, <2>2
<1>16. ASSUME NEW e \in Editors, EditGate(e) PROVE [Promise!PubNext]_Promise!pvars
  <2>1. /\ pc[e] # "pinging" /\ Goto(e, "mutate")
        /\ UNCHANGED <<config, cache>>
        /\ \A v \in Workers : v # e => snap'[v] = snap[v] /\ target'[v] = target[v]
    BY <1>16 DEF EditGate, stored, locals, TypeOK, Readers
  <2>2. Pinging' = Pinging
    BY <1>c, <2>1 DEF Procs, Readers
  <2> QED  BY <1>q, <2>1, <2>2
<1>17. ASSUME NEW r \in Readers, Repair(r) PROVE [Promise!PubNext]_Promise!pvars
  <2>1. PICK c : UNCHANGED stored \/ Reconfigure(c)
    BY <1>17 DEF Repair, RepairMalformedHub
  <2>2. pc[r] = "repair" /\ Goto(r, "resnapshot") /\ UNCHANGED locals
    BY <1>17 DEF Repair
  <2> QED  BY <2>1, <2>2, ConfigureStep DEF Procs
<1>18. ASSUME NEW r \in Readers, RepairUnconfirmed(r)
       PROVE  [Promise!PubNext]_Promise!pvars
  <2>1. PICK c : UNCHANGED stored \/ Reconfigure(c)
    BY <1>18 DEF RepairUnconfirmed, RepairMalformedHub
  <2>2. pc[r] = "repair" /\ Goto(r, OnError(r)) /\ UNCHANGED locals /\ OnError(r) \in {"idle", "settle"}
    BY <1>18 DEF RepairUnconfirmed, OnError
  <2> QED  BY <2>1, <2>2, ConfigureStep DEF Procs
<1>19. ASSUME NEW e \in Editors, Mutate(e) PROVE [Promise!PubNext]_Promise!pvars
  <2>1. PICK c : UNCHANGED stored \/ Reconfigure(c)
    BY <1>19, AppliedChange DEF Mutate, TypeOK
  <2>2. pc[e] = "mutate" /\ Goto(e, "idle") /\ UNCHANGED locals
    BY <1>19 DEF Mutate
  <2> QED  BY <2>1, <2>2, ConfigureStep DEF Procs
<1>20. ASSUME NEW e \in Editors, MutateUnconfirmed(e)
       PROVE  [Promise!PubNext]_Promise!pvars
  <2>1. PICK c : UNCHANGED stored \/ Reconfigure(c)
    BY <1>20, AppliedChange DEF MutateUnconfirmed, TypeOK
  <2>2. pc[e] = "mutate" /\ Goto(e, "idle") /\ UNCHANGED locals
    BY <1>20 DEF MutateUnconfirmed
  <2> QED  BY <2>1, <2>2, ConfigureStep DEF Procs
<1>21. ASSUME NEW r \in Readers, CommitCache(r) PROVE [Promise!PubNext]_Promise!pvars
  <2>1. PICK l \in {"publish", "idle"} : Goto(r, l)
    BY <1>21 DEF CommitCache
  <2>2. Pinging' = Pinging
    BY <1>21, <1>c, <2>1 DEF CommitCache, locals, Procs
  <2> QED  BY <1>21, <2>2, FillStep DEF CommitCache
<1>22. ASSUME NEW r \in Readers, CommitUnconfirmed(r)
       PROVE  [Promise!PubNext]_Promise!pvars
  <2>1. Pinging' = Pinging
    BY <1>22, <1>c DEF CommitUnconfirmed, OnError, locals, Procs
  <2>2. CASE UNCHANGED cache
    BY <1>22, <1>q, <2>1, <2>2 DEF CommitUnconfirmed
  <2>3. CASE Fenced(r) /\ Upsert(target[r], draft[r])
    BY <1>22, <2>1, <2>3, FillStep DEF CommitUnconfirmed
  <2> QED  BY <1>22, <2>2, <2>3 DEF CommitUnconfirmed
<1>23. ASSUME NEW w \in Workers, Publish(w) PROVE [Promise!PubNext]_Promise!pvars
  <2>1. pc[w] = "publish" /\ UNCHANGED <<config, cache, snap, target>>
    BY <1>23 DEF Publish, stored, locals
  <2>2. CASE Goto(w, "settle")
    <3>1. Pinging' = Pinging
      BY <1>c, <2>1, <2>2 DEF Procs, Readers
    <3> QED  BY <1>q, <2>1, <3>1
  <2>3. CASE Goto(w, "pinging") /\ snap[w].config.hub # NoHub
    BY <2>1, <2>3, PingStep
  <2> QED  BY <1>23, <2>2, <2>3 DEF Publish
<1>24. ASSUME NEW w \in Workers, PingReturns(w) PROVE [Promise!PubNext]_Promise!pvars
  BY <1>24, PongStep DEF PingReturns, stored, locals, Procs, Readers
<1>25. ASSUME NEW x \in Procs, Abort(x) PROVE [Promise!PubNext]_Promise!pvars
  BY <1>25, PongStep DEF Abort, stored, locals
<1>26. ASSUME NEW p \in Paths, PostChange(p) PROVE [Promise!PubNext]_Promise!pvars
  BY <1>26, <1>q DEF PostChange, Pinging, stored, locals
<1>27. CASE UNCHANGED vars
  BY <1>27, <1>q DEF vars, Pinging, stored, locals
<1> QED
  BY <1>1, <1>2, <1>3, <1>4, <1>5, <1>6, <1>7, <1>8, <1>9, <1>10, <1>11,
     <1>12, <1>13, <1>14, <1>15, <1>16, <1>17, <1>18, <1>19, <1>20, <1>21,
     <1>22, <1>23, <1>24, <1>25, <1>26, <1>27
     DEF Next, ReaderStep, WorkerStep, EditorStep

(* The seam implements its promise: what FeedPublication says of readers,  *)
(* hubs and configuration changes is true of the gate, the generations and *)
(* the transactions that implement it.                                     *)
THEOREM Implementation == Spec => ImplementsPublication
<1>1. Init => Promise!PubInit
  <2> SUFFICES ASSUME Init PROVE Promise!PubInit
    OBVIOUS
  <2>1. Served = [p \in Paths |-> NoRow] /\ Pinging = [w \in Workers |-> NoRow]
    BY DEF Init, EmptyCache, Served, Pinging, Readers, Procs
  <2> QED  BY <2>1 DEF Init, Promise!PubInit
<1>2. PublisherInv /\ [Next]_vars => [Promise!PubNext]_Promise!pvars
  BY RefinementStep
<1> QED  BY <1>1, <1>2, InvCorrect, PTL DEF Spec, ImplementsPublication, Promise!PubSpec

==============================================================================
