------------------------------ MODULE Publisher ------------------------------
(***************************************************************************)
(* The publisher seam: one stored configuration with a durable generation, *)
(* the cache of rendered Syndication Feeds, and the kernel file lock       *)
(* ("the gate") that every configuration edit and every final              *)
(* cache-commit/publish region takes.                                      *)
(*                                                                         *)
(*   storage/src/publisher.rs   the transactions on publisher_state,       *)
(*                              site_config and feed_cache                 *)
(*   server/src/publisher.rs    PublisherService and the gate              *)
(*   server/src/feed/worker.rs  the worker's path through the seam         *)
(*   server/src/feed/handlers.rs  the cache-miss path through the seam     *)
(*                                                                         *)
(* Three kinds of process use it.  A worker handles one feed at a time:    *)
(* snapshot, render (or read the cached row), gate, commit, WebSub ping.   *)
(* A handler answers a GET that missed the cache: the same without the     *)
(* ping, and again from the start when its generation is stale.  An editor *)
(* changes the configuration, in the server or in a CLI process.           *)
(*                                                                         *)
(* One step is one database transaction, one read, one lock operation or   *)
(* one HTTP exchange: no transaction spans rendering, gate wait or HTTP.   *)
(* Any process may disappear between two steps; the kernel then releases   *)
(* its lock.                                                               *)
(***************************************************************************)
EXTENDS Naturals

CONSTANTS
    Workers,        \* feed-worker ticks, which may overlap
    Handlers,       \* requests that missed the cache
    Editors,        \* configuration edits
    Paths,          \* feed paths
    Hubs,           \* well-formed hub URLs
    NoHub,          \* no stored hub, or none that parses
    Malformed,      \* a stored hub value that does not parse
    Identities,     \* site identities with a base URL
    NoBase,         \* the identity without a base URL
    Windows,        \* settings of the feed window
    NoRow,          \* absence of a cached or rendered row
    Free,           \* the gate when nobody holds it
    MaxGeneration,  \* bound: no edit starts at or above this generation
    MaxVersion,     \* bound on the number of public post changes of a feed
    MaxFaults       \* bound on failed or unacknowledged operations

Readers == Workers \cup Handlers
Procs == Readers \cup Editors

HubValues == Hubs \cup {NoHub, Malformed}
Configs == [hub: HubValues, identity: Identities \cup {NoBase}, window: Windows]
Snapshots == [config: Configs, generation: Nat]
Rows == [config: Configs, version: Nat]

(* An edit sets one key: the hub, the identity or the window.              *)
Edits == [key: {"hub"}, value: Hubs \cup {NoHub}]
           \cup [key: {"identity"}, value: Identities \cup {NoBase}]
           \cup [key: {"window"}, value: Windows]

ASSUME ProcsAssumption ==
    /\ Workers \cap Handlers = {}
    /\ Workers \cap Editors = {}
    /\ Handlers \cap Editors = {}
    /\ Free \notin Workers \cup Handlers \cup Editors

ASSUME ValuesAssumption ==
    /\ NoHub \notin Hubs
    /\ Malformed \notin Hubs
    /\ NoHub # Malformed
    /\ NoBase \notin Identities
    /\ NoRow \notin Rows

ASSUME BoundsAssumption ==
    /\ MaxGeneration \in Nat
    /\ MaxVersion \in Nat
    /\ MaxFaults \in Nat

VARIABLES
    config,      \* the stored site_config keys that feeds depend on
    generation,  \* publisher_state.generation
    cache,       \* feed_cache: path -> row or NoRow
    gate,        \* holder of publisher.lock, or Free
    content,     \* path -> number of public changes its posts have had
    pc,          \* where each process is
    target,      \* reader -> the feed path it works on
    regen,       \* reader -> it renders (TRUE) or only republishes (FALSE)
    snap,        \* reader -> its publisher snapshot
    draft,       \* reader -> the row it has rendered or loaded
    want,        \* editor -> its edit
    faults       \* operations that failed so far

stored == <<config, generation, cache>>
locals == <<target, regen, snap, draft, want>>
vars == <<config, generation, cache, gate, content, pc, locals, faults>>

(* parse_hub: a stored value that does not parse reads as no hub.          *)
ParseHub(h) == IF h = Malformed THEN NoHub ELSE h

(* The configuration a snapshot exposes: SnapshotRow through               *)
(* snapshot_from_row.                                                      *)
Parsed(c) == [c EXCEPT !.hub = ParseHub(c.hub)]

EmptyCache == [p \in Paths |-> NoRow]

------------------------------------------------------------------------------
TypeOK ==
    /\ config \in Configs
    /\ generation \in Nat
    /\ cache \in [Paths -> Rows \cup {NoRow}]
    /\ gate \in Procs \cup {Free}
    /\ content \in [Paths -> Nat]
    /\ pc \in [Procs -> {"idle", "snapshot", "repair_gate", "repair",
                         "resnapshot", "load", "gate", "finalize", "publish",
                         "pinging", "settle", "edit_gate", "mutate"}]
    /\ target \in [Readers -> Paths]
    /\ regen \in [Readers -> BOOLEAN]
    /\ snap \in [Readers -> Snapshots]
    /\ draft \in [Readers -> Rows \cup {NoRow}]
    /\ want \in [Editors -> Edits]
    /\ faults \in Nat

(* A start of the program: nothing is running, the cache is empty, and the *)
(* stored hub may be one that an earlier release let in malformed.         *)
Init ==
    /\ config \in Configs
    /\ generation = 0
    /\ cache = EmptyCache
    /\ gate = Free
    /\ content = [p \in Paths |-> 0]
    /\ pc = [x \in Procs |-> "idle"]
    /\ target \in [Readers -> Paths]
    /\ regen = [r \in Readers |-> TRUE]
    /\ snap = [r \in Readers |-> [config |-> Parsed(config), generation |-> 0]]
    /\ draft = [r \in Readers |-> NoRow]
    /\ want = [e \in Editors |-> [key |-> "hub", value |-> NoHub]]
    /\ faults = 0

------------------------------------------------------------------------------
(* Vocabulary of the steps.                                                *)

Goto(x, l) == pc' = [pc EXCEPT ![x] = l]

Release(x) == gate' = IF gate = x THEN Free ELSE gate

(* Where an error sends a reader: a worker goes on to record the outcome   *)
(* of its feed group, a handler answers 500.                               *)
OnError(r) == IF r \in Workers THEN "settle" ELSE "idle"

Fault == faults < MaxFaults /\ faults' = faults + 1

(* Mutant of Fenced: the generation is not compared.                       *)
Unfenced(r) == TRUE

Fenced(r) == snap[r].generation = generation

(* The snapshot statement reads configuration and generation together.     *)
Snapshot(r) ==
    snap' = [snap EXCEPT ![r] = [config |-> Parsed(config),
                                 generation |-> generation]]

(* Mutant of Reconfigure: the cache is not invalidated.                    *)
ReconfigureKeepingCache(c) ==
    /\ config' = c
    /\ generation' = generation + 1
    /\ UNCHANGED cache

(* Every change of the configuration advances the generation and empties   *)
(* the cache, in the transaction that makes the change.                    *)
Reconfigure(c) ==
    /\ config' = c
    /\ generation' = generation + 1
    /\ cache' = EmptyCache

------------------------------------------------------------------------------
(* Readers: from the snapshot to the gate.                                 *)

(* A worker takes up the group of one feed path.                           *)
BeginGroup(w, p, rg) ==
    /\ pc[w] = "idle"
    /\ Goto(w, "snapshot")
    /\ target' = [target EXCEPT ![w] = p]
    /\ regen' = [regen EXCEPT ![w] = rg]
    /\ UNCHANGED <<stored, gate, content, snap, draft, want, faults>>

(* A GET that finds no cached row renders one inline.                      *)
CacheMiss(h, p) ==
    /\ pc[h] = "idle"
    /\ cache[p] = NoRow
    /\ Goto(h, "snapshot")
    /\ target' = [target EXCEPT ![h] = p]
    /\ regen' = [regen EXCEPT ![h] = TRUE]
    /\ UNCHANGED <<stored, gate, content, snap, draft, want, faults>>

(* PublisherService::snapshot: a malformed hub is not exposed, it is       *)
(* repaired first.                                                         *)
ReadSnapshot(r) ==
    /\ pc[r] = "snapshot"
    /\ IF config.hub = Malformed
         THEN Goto(r, "repair_gate") /\ UNCHANGED snap
         ELSE Goto(r, "load") /\ Snapshot(r)
    /\ UNCHANGED <<stored, gate, content, target, regen, draft, want, faults>>

RepairGate(r) ==
    /\ pc[r] = "repair_gate"
    /\ gate = Free
    /\ gate' = r
    /\ Goto(r, "repair")
    /\ UNCHANGED <<stored, content, locals, faults>>

(* Mutant of RepairMalformedHub: the value read before is not compared.    *)
RepairAnyHub == Reconfigure([config EXCEPT !.hub = NoHub])

(* repair_malformed_hub: delete the stored value if it is still the        *)
(* malformed one that was read.                                            *)
RepairMalformedHub ==
    IF config.hub = Malformed
      THEN Reconfigure([config EXCEPT !.hub = NoHub])
      ELSE UNCHANGED stored

Repair(r) ==
    /\ pc[r] = "repair"
    /\ RepairMalformedHub
    /\ Goto(r, "resnapshot")
    /\ UNCHANGED <<gate, content, locals, faults>>

(* The repair fails, or its commit is not acknowledged: it may or may not  *)
(* have happened, and the caller gets an error.                            *)
RepairUnconfirmed(r) ==
    /\ pc[r] = "repair"
    /\ Fault
    /\ RepairMalformedHub \/ UNCHANGED stored
    /\ Goto(r, OnError(r))
    /\ Release(r)
    /\ UNCHANGED <<content, locals>>

Resnapshot(r) ==
    /\ pc[r] = "resnapshot"
    /\ Snapshot(r)
    /\ Goto(r, "load")
    /\ Release(r)
    /\ UNCHANGED <<stored, content, target, regen, draft, want, faults>>

(* A read, the lock file or the rendering fails before the final region.   *)
ReaderFails(r) ==
    /\ pc[r] \in {"snapshot", "repair_gate", "resnapshot", "load", "gate"}
    /\ Fault
    /\ Goto(r, OnError(r))
    /\ Release(r)
    /\ UNCHANGED <<stored, content, locals>>

(* regenerate::render: the feed as the posts are now, under the snapshot's *)
(* configuration.  Without a base URL there is nothing to render.          *)
Render(r) ==
    /\ pc[r] = "load"
    /\ regen[r]
    /\ snap[r].config.identity # NoBase
    /\ draft' = [draft EXCEPT ![r] = [config |-> snap[r].config,
                                      version |-> content[target[r]]]]
    /\ Goto(r, "gate")
    /\ UNCHANGED <<stored, gate, content, target, regen, snap, want, faults>>

BaseUrlRequired(r) ==
    /\ pc[r] = "load"
    /\ regen[r]
    /\ snap[r].config.identity = NoBase
    /\ Goto(r, OnError(r))
    /\ UNCHANGED <<stored, gate, content, locals, faults>>

(* A group whose rows have all been regenerated only needs the cached row. *)
LoadCached(w) ==
    /\ pc[w] = "load"
    /\ ~regen[w]
    /\ draft' = [draft EXCEPT ![w] = cache[target[w]]]
    /\ Goto(w, IF cache[target[w]] = NoRow THEN "settle" ELSE "gate")
    /\ UNCHANGED <<stored, gate, content, target, regen, snap, want, faults>>

------------------------------------------------------------------------------
(* Readers: the final region, under the gate.                              *)

FinalizationGuard(r) ==
    /\ pc[r] = "gate"
    /\ gate = Free
    /\ gate' = r
    /\ Goto(r, "finalize")
    /\ UNCHANGED <<stored, content, locals, faults>>

(* upsert_on_connection: the row replaces the stored one.  (With an equal  *)
(* fingerprint the stored bytes and validators stay, which says the same   *)
(* of configuration and posts.)                                            *)
Upsert(p, row) == cache' = [cache EXCEPT ![p] = row]

(* commit_cache: the generation fence and the upsert, in one transaction.  *)
CommitCache(r) ==
    /\ pc[r] = "finalize"
    /\ regen[r]
    /\ Fenced(r)
    /\ Upsert(target[r], draft[r])
    /\ IF r \in Workers
         THEN Goto(r, "publish") /\ UNCHANGED gate
         ELSE Goto(r, "idle") /\ Release(r)
    /\ UNCHANGED <<config, generation, content, locals, faults>>

(* Mutant of CommitStale: a handler retries the commit, not the snapshot.  *)
CommitStaleAgain(r) ==
    /\ pc[r] = "finalize"
    /\ regen[r]
    /\ ~Fenced(r)
    /\ IF r \in Workers
         THEN Goto(r, "settle") /\ UNCHANGED gate
         ELSE Goto(r, "gate") /\ Release(r)
    /\ UNCHANGED <<stored, content, locals, faults>>

(* The fence finds another generation.  A worker records it, still in the  *)
(* region; a handler drops the guard and starts again.                     *)
CommitStale(r) ==
    /\ pc[r] = "finalize"
    /\ regen[r]
    /\ ~Fenced(r)
    /\ IF r \in Workers
         THEN Goto(r, "settle") /\ UNCHANGED gate
         ELSE Goto(r, "snapshot") /\ Release(r)
    /\ UNCHANGED <<stored, content, locals, faults>>

(* The commit fails or is not acknowledged.                                *)
CommitUnconfirmed(r) ==
    /\ pc[r] = "finalize"
    /\ regen[r]
    /\ Fault
    /\ \/ Fenced(r) /\ Upsert(target[r], draft[r])
       \/ UNCHANGED cache
    /\ Goto(r, OnError(r))
    /\ IF r \in Workers THEN UNCHANGED gate ELSE Release(r)
    /\ UNCHANGED <<config, generation, content, locals>>

(* is_current, for a group that only republishes.                          *)
CheckCurrent(w) ==
    /\ pc[w] = "finalize"
    /\ ~regen[w]
    /\ Goto(w, IF Fenced(w) THEN "publish" ELSE "settle")
    /\ UNCHANGED <<stored, gate, content, locals, faults>>

(* The generation cannot be read, or mark_regenerated fails after the      *)
(* cache commit: the group ends without a ping.                            *)
FinalizeFails(w) ==
    /\ \/ pc[w] = "finalize" /\ ~regen[w]
       \/ pc[w] = "publish" /\ regen[w]
    /\ Fault
    /\ Goto(w, "settle")
    /\ UNCHANGED <<stored, gate, content, locals>>

(* publish_feed: nothing to send without a hub or a base URL; otherwise    *)
(* the request to the snapshot's hub leaves.                               *)
Publish(w) ==
    /\ pc[w] = "publish"
    /\ Goto(w, IF snap[w].config.hub = NoHub \/ snap[w].config.identity = NoBase
                 THEN "settle" ELSE "pinging")
    /\ UNCHANGED <<stored, gate, content, locals, faults>>

(* The hub answers, refuses, or the request times out.                     *)
PingReturns(w) ==
    /\ pc[w] = "pinging"
    /\ Goto(w, "settle")
    /\ UNCHANGED <<stored, gate, content, locals, faults>>

(* The group is over and its finalization guard, if any, is dropped.       *)
EndGroup(w) ==
    /\ pc[w] = "settle"
    /\ Goto(w, "idle")
    /\ Release(w)
    /\ UNCHANGED <<stored, content, locals, faults>>

------------------------------------------------------------------------------
(* Editors.                                                                *)

RequestEdit(e, m) ==
    /\ pc[e] = "idle"
    /\ generation < MaxGeneration
    /\ want' = [want EXCEPT ![e] = m]
    /\ Goto(e, "edit_gate")
    /\ UNCHANGED <<stored, gate, content, target, regen, snap, draft, faults>>

(* Mutant of EditGate: the edit does not wait for the gate.                *)
EditGateOpen(e) ==
    /\ pc[e] = "edit_gate"
    /\ Goto(e, "mutate")
    /\ UNCHANGED <<stored, gate, content, locals, faults>>

EditGate(e) ==
    /\ pc[e] = "edit_gate"
    /\ gate = Free
    /\ gate' = e
    /\ Goto(e, "mutate")
    /\ UNCHANGED <<stored, content, locals, faults>>

(* mutate_hub leaves a normalized no-op alone; the identity and the window *)
(* always make a new generation.                                           *)
Apply(m) ==
    CASE m.key = "hub" ->
           IF config.hub = m.value
             THEN UNCHANGED stored
             ELSE Reconfigure([config EXCEPT !.hub = m.value])
      [] m.key = "identity" -> Reconfigure([config EXCEPT !.identity = m.value])
      [] m.key = "window" -> Reconfigure([config EXCEPT !.window = m.value])

(* Mutant of Mutate: an edit that changes nothing is tried again.          *)
MutateUntilChanged(e) ==
    /\ pc[e] = "mutate"
    /\ Apply(want[e])
    /\ Goto(e, IF config' = config THEN "edit_gate" ELSE "idle")
    /\ Release(e)
    /\ UNCHANGED <<content, locals, faults>>

Mutate(e) ==
    /\ pc[e] = "mutate"
    /\ Apply(want[e])
    /\ Goto(e, "idle")
    /\ Release(e)
    /\ UNCHANGED <<content, locals, faults>>

(* Rolled back (the passkey guard may refuse a base URL), or committed     *)
(* without acknowledgement.                                                *)
MutateUnconfirmed(e) ==
    /\ pc[e] = "mutate"
    /\ Fault
    /\ Apply(want[e]) \/ UNCHANGED stored
    /\ Goto(e, "idle")
    /\ Release(e)
    /\ UNCHANGED <<content, locals>>

------------------------------------------------------------------------------
(* A public change of the posts of a feed.                                 *)
PostChange(p) ==
    /\ content[p] < MaxVersion
    /\ content' = [content EXCEPT ![p] = @ + 1]
    /\ UNCHANGED <<stored, gate, pc, locals, faults>>

(* A request is cancelled, a task panics or a process dies.                *)
Abort(x) ==
    /\ pc[x] # "idle"
    /\ Fault
    /\ Goto(x, "idle")
    /\ Release(x)
    /\ UNCHANGED <<stored, content, locals>>

ReaderStep(r) ==
    \/ ReadSnapshot(r) \/ RepairGate(r) \/ Repair(r) \/ Resnapshot(r)
    \/ Render(r) \/ BaseUrlRequired(r)
    \/ FinalizationGuard(r) \/ CommitCache(r) \/ CommitStale(r)

WorkerStep(w) ==
    \/ LoadCached(w) \/ CheckCurrent(w)
    \/ Publish(w) \/ PingReturns(w) \/ EndGroup(w)

EditorStep(e) == EditGate(e) \/ Mutate(e)

Next ==
    \/ \E w \in Workers, p \in Paths, rg \in BOOLEAN : BeginGroup(w, p, rg)
    \/ \E h \in Handlers, p \in Paths : CacheMiss(h, p)
    \/ \E r \in Readers : ReaderStep(r)
    \/ \E r \in Readers : RepairUnconfirmed(r)
    \/ \E r \in Readers : ReaderFails(r)
    \/ \E r \in Readers : CommitUnconfirmed(r)
    \/ \E w \in Workers : WorkerStep(w)
    \/ \E w \in Workers : FinalizeFails(w)
    \/ \E e \in Editors, m \in Edits : RequestEdit(e, m)
    \/ \E e \in Editors : EditorStep(e)
    \/ \E e \in Editors : MutateUnconfirmed(e)
    \/ \E p \in Paths : PostChange(p)
    \/ \E x \in Procs : Abort(x)

Spec == Init /\ [][Next]_vars

(* The runtime keeps driving every task it has started.  A gate waiter     *)
(* polls the lock every 10 ms: one that keeps finding it free gets it.  A  *)
(* ping returns because the client has a timeout.  Nothing is assumed of   *)
(* faults, of requests or of edits being made.                             *)
Fairness ==
    /\ \A r \in Readers :
          /\ WF_vars(ReaderStep(r))
          /\ SF_vars(RepairGate(r))
          /\ SF_vars(FinalizationGuard(r))
    /\ \A w \in Workers : WF_vars(WorkerStep(w))
    /\ \A e \in Editors : WF_vars(EditorStep(e)) /\ SF_vars(EditGate(e))

FairSpec == Spec /\ Fairness

------------------------------------------------------------------------------
(* Every row the cache can serve was rendered under the configuration that *)
(* is stored now: a render that started before an edit, wherever it was    *)
(* overtaken, never leaves its output behind the edit.                     *)
CacheFromCurrentConfig ==
    \A p \in Paths : cache[p] # NoRow => cache[p].config = Parsed(config)

(* While a request to a hub is outstanding, that hub is the configured one *)
(* and the feed it announces is in the cache under the configuration that  *)
(* names it: an edit that has returned is never followed by a ping to the  *)
(* hub it replaced, and no ping announces a feed that is not there.        *)
PingsAreCurrent ==
    \A w \in Workers :
        pc[w] = "pinging" =>
            /\ snap[w].config = Parsed(config)
            /\ cache[target[w]] # NoRow

(* Repairing a malformed hub never discards a well-formed one that an      *)
(* editor stored after the malformed value was read.                       *)
RepairSparesGoodHub ==
    [][\A r \in Readers :
          (pc[r] = "repair" /\ pc'[r] # "repair" /\ config.hub # Malformed)
              => config' = config]_vars

(* Why the two hold: the parts of an inductive invariant.                  *)

(* Only the holder of the gate is in a region the gate protects.           *)
Region == {"repair", "resnapshot", "finalize", "publish", "pinging", "mutate"}
GateDiscipline == \A x \in Procs : pc[x] \in Region => gate = x

(* A snapshot of the current generation shows the current configuration.   *)
SnapshotsAgree ==
    \A r \in Readers :
        /\ snap[r].generation <= generation
        /\ Fenced(r) => snap[r].config = Parsed(config)

(* What is about to be committed was rendered under the snapshot.          *)
DraftsFollowSnapshot ==
    \A r \in Readers :
        (pc[r] \in {"gate", "finalize"} /\ regen[r]) =>
            draft[r] # NoRow /\ draft[r].config = snap[r].config

(* A row found for republishing can only go with its generation.           *)
RepublishedRowsStay ==
    \A w \in Workers :
        (pc[w] \in {"gate", "finalize"} /\ ~regen[w] /\ Fenced(w)) =>
            cache[target[w]] # NoRow

(* From the commit to the end of the ping the generation stands still.     *)
PublicationIsFenced ==
    \A w \in Workers :
        pc[w] \in {"publish", "pinging"} => Fenced(w) /\ cache[target[w]] # NoRow

(* The inductive invariant: cached rows and pings are current because the  *)
(* fence and the gate together keep every reader's view attached to the    *)
(* generation it read.                                                     *)
PublisherInv ==
    /\ TypeOK
    /\ CacheFromCurrentConfig
    /\ GateDiscipline
    /\ SnapshotsAgree
    /\ DraftsFollowSnapshot
    /\ RepublishedRowsStay
    /\ PublicationIsFenced

(* The seam implements its promise: FeedPublication, whose cache holds the *)
(* configuration each row was rendered under and whose outstanding ping of *)
(* a worker is the request it has sent and not seen returned.              *)
Served == [p \in Paths |-> IF cache[p] = NoRow THEN NoRow ELSE cache[p].config]
Pinging ==
    [w \in Workers |->
       IF pc[w] = "pinging" THEN [hub |-> snap[w].config.hub, path |-> target[w]]
                            ELSE NoRow]

Promise == INSTANCE FeedPublication WITH
    Configs <- {Parsed(c) : c \in Configs},
    current <- Parsed(config),
    served <- Served,
    pinging <- Pinging,
    NoPing <- NoRow

ImplementsPublication == Promise!PubSpec

(* An edit that waits for the gate is carried out or refused, however many *)
(* workers and handlers keep taking the gate.                              *)
EditsReturn == \A e \in Editors : pc[e] # "idle" ~> pc[e] = "idle"

(* A request that missed the cache is answered: the retry loop on a stale  *)
(* generation ends once the edits do.                                      *)
MissesReturn == \A h \in Handlers : pc[h] # "idle" ~> pc[h] = "idle"

==============================================================================
