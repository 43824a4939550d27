------------------------ MODULE MediaCancellationProofs ------------------------
(***************************************************************************)
(* What abandoned deletions cannot break, for any finite set of tasks and  *)
(* any sets of users, media, Posts and themes.                             *)
(***************************************************************************)
EXTENDS MediaCancellation, MediaManagerProofs

\* For the media store an abandoned deletion is a death: its locks go, its
\* transaction is rolled back, its file is a possible leak.
LEMMA AbandonIsADeath ==
  ASSUME NEW c \in Procs, Abandon(c)
  PROVE  Next
<1>1. Die(c)
  BY DEF Abandon, Die
<1> QED BY <1>1 DEF Next

\* Each step is one of the media store's, or a late unlink.
LEMMA CancelSteps ==
  ASSUME [CancelNext]_<<vars, detached>>
  PROVE  [Next]_vars \/ \E m \in Media : RunDetached(m)
  BY AbandonIsADeath DEF CancelNext

\* A late unlink takes away the file it was handed and nothing else.
LEMMA LateUnlink ==
  ASSUME NEW S, InvOn(S), NEW n \in Media \ S, RunDetached(n)
  PROVE  InvOn(S)'
<1>1. /\ files' = files \ {n}
      /\ UNCHANGED <<rows, refs, posts, bindings, contentLock, writer, pc, job, todo, leaked>>
  BY DEF RunDetached, db, task
<1>2. Typed'
  BY <1>1 DEF InvOn, Typed, TypeOK
<1>3. LockInv'
  BY <1>1 DEF InvOn, LockInv, Locked, Holds, Needs, Uses
<1>4. \A m : RowsOf(m)' = RowsOf(m) /\ RefsTo(m)' = RefsTo(m) /\ InHand(m)' = InHand(m)
  BY <1>1 DEF RowsOf, RefsTo, InHand
<1>5. ASSUME NEW d \in Procs PROVE PlacedInv(d, S)'
  <2>1. /\ RowsOf(job[d].media)' = RowsOf(job[d].media)
        /\ RefsTo(job[d].media)' = RefsTo(job[d].media)
    BY <1>1 DEF RowsOf, RefsTo
  <2> QED BY <1>1, <2>1 DEF InvOn, PlacedInv, Kept
<1>6. ASSUME NEW d \in Procs PROVE UnlinkInv(d)'
  BY <1>1 DEF InvOn, UnlinkInv, Reclaimable, RowsOf, RefsTo, BoundBy, Live
<1>7. RowsBacked(S)' /\ BindingsOwned'
  BY <1>1 DEF InvOn, RowsBacked, BindingsOwned
<1>8. FilesAccounted(S)'
  <2> SUFFICES ASSUME NEW m \in files' \cap S PROVE (Kept(m) \/ InHand(m) \/ m \in leaked)'
    BY DEF FilesAccounted
  <2> QED BY <1>1, <1>4 DEF InvOn, FilesAccounted, Kept
<1> QED BY <1>2, <1>3, <1>5, <1>6, <1>7, <1>8 DEF InvOn

\* The invariant of MediaManagerProofs, for media whose deletion nobody
\* abandons.
LEMMA CancelStep ==
  ASSUME NEW S, InvOn(S), S \cap detached = {}, [CancelNext]_<<vars, detached>>
  PROVE  InvOn(S)'
<1>1. CASE [Next]_vars
  BY <1>1, InvStep
<1>2. ASSUME NEW n \in Media, RunDetached(n) PROVE InvOn(S)'
  <2>1. n \notin S
    BY <1>2 DEF RunDetached
  <2> QED BY <1>2, <2>1, LateUnlink
<1> QED BY <1>1, <1>2, CancelSteps

\* A dropped deletion future harms only the media it was deleting: whatever
\* deletions of other media are abandoned (remove_media_file on the blocking
\* pool), a row of a media in S has its file.
THEOREM CancellationIsConfined ==
  ASSUME NEW S
  PROVE  CancelSpec /\ [](S \cap detached = {}) => []RowsBacked(S)
<1>1. CancelInit => InvOn(S)
  BY InvInit DEF CancelInit
<1>2. InvOn(S) /\ S \cap detached = {} /\ [CancelNext]_<<vars, detached>> => InvOn(S)'
  BY CancelStep
<1>3. InvOn(S) => RowsBacked(S)
  BY DEF InvOn
<1> QED BY <1>1, <1>2, <1>3, PTL DEF CancelSpec

\* Abandoned deletions leave no lock behind and no cycle of waiting tasks
\* (MediaContentLocks::acquire, MediaContentGuard).
THEOREM CancelledLocksNeverCycle == CancelSpec => []NoWaitCycle
<1>1. CancelInit => InvOn({})
  BY InvInit DEF CancelInit
<1>2. InvOn({}) /\ [CancelNext]_<<vars, detached>> => InvOn({})'
  BY CancelStep
<1>3. InvOn({}) => NoWaitCycle
  BY NoCycle DEF InvOn
<1> QED BY <1>1, <1>2, <1>3, PTL DEF CancelSpec
===============================================================================
