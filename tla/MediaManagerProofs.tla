-------------------------- MODULE MediaManagerProofs --------------------------
(***************************************************************************)
(* Proofs about MediaManager, for any finite set of tasks and any sets of  *)
(* users, media, Posts and themes.                                         *)
(***************************************************************************)
EXTENDS MediaManager, FiniteSetTheorems, WellFoundedInduction, TLAPS

\* The operations a task may be running.
RefRec == [post : Posts, revision : 0 .. MaxRevisions,
           media : Media, form : {"local", "foreign"}]
Jobs ==
  {IdleJob}
  \cup [op : {"upload"}, user : Users, media : Media, fresh : BOOLEAN, created : BOOLEAN]
  \cup [op : {"delete"}, user : Users, media : Media, force : BOOLEAN,
        evidence : SUBSET {r \in RefRec : r.form = "foreign"}]
  \cup [op : {"post"}, post : Posts, body : Bodies]
  \cup [op : {"bind"}, theme : Themes, new : SUBSET Media, snapshot : SUBSET Media]

\* The steps an operation can be at, and what it still has to lock.
StepOf(p, j, t) ==
  /\ p = "idle" => j = IdleJob
  /\ p = "placed" => j.op = "upload"
  /\ p \in {"deleted", "unlinking"} => j.op = "delete"
  /\ p # "locking" => t = {}

\* The types, and that steps and operations go together.
Typed ==
  /\ TypeOK
  /\ job \in [Procs -> Jobs]
  /\ \A c \in Procs : StepOf(pc[c], job[c], todo[c])

\* What the end of an operation leaves.
LEMMA FinishTyped ==
  ASSUME Typed, NEW c \in Procs, Finish(c),
         files' \subseteq Media, leaked' \subseteq Media, rows' \subseteq Users \X Media,
         refs' \subseteq RefRec,
         posts' \in [Posts -> [state : {"absent", "live", "deleted"},
                               revisions : 0 .. MaxRevisions]],
         bindings' \subseteq Themes \X Media
  PROVE  Typed'
<1>1. job' \in [Procs -> Jobs]
  BY DEF Typed, Finish, Jobs
<1>2. TypeOK'
  BY MediaAssumption DEF Typed, TypeOK, Finish, RefRec
<1>3. \A d \in Procs : StepOf(pc[d], job[d], todo[d])'
  BY DEF Typed, TypeOK, Finish, StepOf
<1> QED BY <1>1, <1>2, <1>3 DEF Typed

\* What the start of an operation does.
LEMMA BeginTyped ==
  ASSUME Typed, NEW c \in Procs, NEW j \in Jobs, NEW hashes \in SUBSET Hashes,
         Begin(c, j, hashes)
  PROVE  Typed'
  BY DEF Typed, TypeOK, Begin, StepOf, db

\* One step of the task c.
Step(c) ==
  Upload(c) \/ Delete(c) \/ Write(c) \/ AcquireNext(c) \/ AcquireNone(c) \/ Die(c)

\* The media whose file, rows or references an operation may change.
Uses(j) ==
  CASE j.op \in {"upload", "delete"} -> {j.media}
    [] j.op = "post" -> {r.media : r \in j.body}
    [] OTHER -> {}

\* The content hashes whose lock files an operation needs for its media.
Needs(j) == {HashOf[m] : m \in Uses(j)}

\* A task that starts an operation asks for the locks the operation needs.
Starts(c) ==
  \E j \in Jobs, hashes \in SUBSET Hashes : Needs(j) \subseteq hashes /\ Begin(c, j, hashes)

\* A task that goes on within its operation, its locks in its hands.
Advances(c) ==
  Place(c) \/ TryDelete(c) \/ BeginReclaim(c)

\* The actions that start an operation.
LEMMA Starting ==
  ASSUME Typed, NEW c \in Procs,
         \/ \E up \in Uploads : StartUpload(c, up[1], up[2])
         \/ \E u \in Users, m \in Media, force \in BOOLEAN : StartDelete(c, u, m, force)
         \/ \E p \in Posts, body \in Bodies : StartPost(c, p, body)
         \/ \E t \in Themes, new \in {{}} \cup {{m} : m \in Media} : StartBind(c, t, new)
  PROVE  Starts(c)
<1>1. ASSUME NEW up \in Uploads, StartUpload(c, up[1], up[2]) PROVE Starts(c)
  <2> DEFINE j == [op |-> "upload", user |-> up[1], media |-> up[2],
                   fresh |-> FALSE, created |-> FALSE]
  <2>1. up[1] \in Users /\ up[2] \in Media
    BY MediaAssumption
  <2>2. j \in Jobs
    BY <2>1 DEF Jobs
  <2>3. Needs(j) = {HashOf[up[2]]}
    BY DEF Needs, Uses
  <2>4. {HashOf[up[2]]} \in SUBSET Hashes
    BY <2>1 DEF Hashes
  <2> QED BY <1>1, <2>2, <2>3, <2>4 DEF Starts, StartUpload
<1>2. ASSUME NEW u \in Users, NEW m \in Media, NEW force \in BOOLEAN,
             StartDelete(c, u, m, force)
      PROVE  Starts(c)
  <2>1. PICK evidence \in SUBSET {r \in RefsTo(m) : r.form = "foreign"} :
          Begin(c, [op |-> "delete", user |-> u, media |-> m,
                    force |-> force, evidence |-> evidence], {HashOf[m]})
    BY <1>2 DEF StartDelete
  <2> DEFINE j == [op |-> "delete", user |-> u, media |-> m,
                   force |-> force, evidence |-> evidence]
  <2>2. evidence \in SUBSET {r \in RefRec : r.form = "foreign"}
    BY DEF RefsTo, Typed, TypeOK, RefRec
  <2>3. j \in Jobs
    BY <2>2 DEF Jobs
  <2>4. Needs(j) = {HashOf[m]}
    BY DEF Needs, Uses
  <2>5. {HashOf[m]} \in SUBSET Hashes
    BY DEF Hashes
  <2> QED BY <2>1, <2>3, <2>4, <2>5 DEF Starts
<1>3. ASSUME NEW p \in Posts, NEW body \in Bodies, StartPost(c, p, body) PROVE Starts(c)
  <2> DEFINE j == [op |-> "post", post |-> p, body |-> body]
             hashes == {HashOf[r.media] : r \in body}
  <2>1. j \in Jobs
    BY DEF Jobs
  <2>2. Needs(j) = hashes
    BY DEF Needs, Uses
  <2>3. \A r \in body : r.media \in Media
    BY MediaAssumption
  <2>4. hashes \in SUBSET Hashes
    BY <2>3 DEF Hashes
  <2>5. Begin(c, j, hashes)
    BY <1>3 DEF StartPost
  <2> QED BY <2>1, <2>2, <2>4, <2>5 DEF Starts
<1>4. ASSUME NEW t \in Themes, NEW new \in {{}} \cup {{m} : m \in Media},
             StartBind(c, t, new)
      PROVE  Starts(c)
  <2> DEFINE j == [op |-> "bind", theme |-> t, new |-> new, snapshot |-> MediaOf(t)]
             hashes == {HashOf[m] : m \in MediaOf(t) \cup new}
  <2>1. new \subseteq Media /\ MediaOf(t) \subseteq Media
    BY DEF MediaOf, Typed, TypeOK
  <2>2. j \in Jobs
    BY <2>1 DEF Jobs
  <2>3. Needs(j) = {}
    BY DEF Needs, Uses
  <2>4. hashes \in SUBSET Hashes
    BY <2>1 DEF Hashes
  <2>5. Begin(c, j, hashes)
    BY <1>4 DEF StartBind
  <2> QED BY <2>2, <2>3, <2>4, <2>5 DEF Starts
<1> QED BY <1>1, <1>2, <1>3, <1>4

\* Every step of a task starts its operation, takes a lock, goes on, or ends it.
LEMMA StepForms ==
  ASSUME Typed, NEW c \in Procs, Step(c)
  PROVE  Starts(c) \/ AcquireNext(c) \/ AcquireNone(c) \/ Advances(c) \/ Finish(c)
<1>1. CASE Upload(c)
  <2>1. CASE \E up \in Uploads : StartUpload(c, up[1], up[2])
    BY <2>1, Starting
  <2>2. CASE PlaceFails(c) \/ MakePublicFails(c) \/ Register(c)
              \/ RegisterUnconfirmed(c) \/ RegisterFails(c)
    BY <2>2 DEF PlaceFails, MakePublicFails, Register, RegisterUnconfirmed, RegisterFails
  <2> QED BY <1>1, <2>1, <2>2 DEF Upload, Advances
<1>2. CASE Delete(c)
  <2>1. CASE \E u \in Users, m \in Media, force \in BOOLEAN : StartDelete(c, u, m, force)
    BY <2>1, Starting
  <2>2. CASE DeleteRefused(c) \/ DeleteUnconfirmed(c) \/ ReclaimRefused(c)
              \/ ReclaimFails(c) \/ Unlink(c)
    BY <2>2 DEF DeleteRefused, DeleteUnconfirmed, ReclaimRefused, ReclaimFails, Unlink
  <2> QED BY <1>2, <2>1, <2>2 DEF Delete, Advances
<1>3. CASE Write(c)
  <2>1. CASE \E p \in Posts, body \in Bodies : StartPost(c, p, body)
    BY <2>1, Starting
  <2>2. CASE \E t \in Themes, new \in {{}} \cup {{m} : m \in Media} : StartBind(c, t, new)
    BY <2>2, Starting
  <2>3. CASE CreatePost(c) \/ UpdatePost(c) \/ ReplaceBinding(c) \/ WriteFails(c)
    BY <2>3 DEF CreatePost, UpdatePost, ReplaceBinding, WriteFails
  <2> QED BY <1>3, <2>1, <2>2, <2>3 DEF Write
<1>4. CASE Die(c)
  BY <1>4 DEF Die
<1> QED BY <1>1, <1>2, <1>3, <1>4 DEF Step

-----------------------------------------------------------------------------
(* What a step of one task leaves to the others.                           *)

\* The locks, the step and the operation of d.
Untouched(d) ==
  /\ pc'[d] = pc[d] /\ job'[d] = job[d] /\ todo'[d] = todo[d]
  /\ \A h \in Hashes : contentLock'[h] = d <=> contentLock[h] = d
  /\ writer' = d <=> writer = d

\* A task changes its own locks, step and operation only.
LEMMA OthersUntouched ==
  ASSUME Typed, NEW c \in Procs, Step(c), NEW d \in Procs, d # c
  PROVE  Untouched(d)
<1> USE MediaAssumption
<1>1. CASE Starts(c)
  BY <1>1 DEF Starts, Begin, Untouched, Typed, TypeOK
<1>2. CASE AcquireNext(c)
  BY <1>2 DEF AcquireNext, NextHash, Untouched, Typed, TypeOK
<1>3. CASE AcquireNone(c)
  BY <1>3 DEF AcquireNone, Untouched, Typed, TypeOK
<1>4. CASE Advances(c)
  BY <1>4 DEF Advances, Place, TryDelete, BeginReclaim, InTransaction, Untouched, Typed, TypeOK
<1>5. CASE Finish(c)
  BY <1>5 DEF Finish, Holds, Untouched, Typed, TypeOK
<1> QED BY <1>1, <1>2, <1>3, <1>4, <1>5, StepForms

-----------------------------------------------------------------------------
(* The locks.                                                              *)

\* What the lock files and the reclaim transaction say about the task c.
Locked(c) ==
  /\ pc[c] = "idle" => \A h \in Hashes : ~Holds(c, h)
  /\ \A h \in Needs(job[c]) : h \in todo[c] \/ Holds(c, h)
  /\ \A h \in Hashes, g \in todo[c] : Holds(c, h) => h < g
  /\ pc[c] = "unlinking" <=> writer = c

LockInv == \A c \in Procs : Locked(c)

\* A step keeps what the locks say about its task.
LEMMA LockedOwnStep ==
  ASSUME Typed, NEW c \in Procs, Locked(c), Step(c)
  PROVE  Locked(c)'
<1> USE MediaAssumption
<1>0. Hashes \subseteq Nat
  BY DEF Hashes
<1>1. CASE Starts(c)
  <2>1. PICK j \in Jobs, hashes \in SUBSET Hashes : Needs(j) \subseteq hashes /\ Begin(c, j, hashes)
    BY <1>1 DEF Starts
  <2>2. job'[c] = j /\ todo'[c] = hashes /\ pc'[c] = "locking" /\ pc[c] = "idle"
    BY <2>1 DEF Begin, Typed, TypeOK
  <2>3. \A h \in Hashes : ~Holds(c, h) /\ ~Holds(c, h)'
    BY <2>1, <2>2 DEF Locked, Begin, Holds
  <2>4. writer' # c
    BY <2>1, <2>2 DEF Locked, Begin
  <2>5. \A h \in Needs(job[c])' : h \in todo'[c]
    BY <2>1, <2>2 DEF Needs, Uses
  <2> QED BY <2>2, <2>3, <2>4, <2>5 DEF Locked
<1>2. CASE AcquireNext(c)
  <2>1. PICK h \in NextHash(c) :
          /\ contentLock[h] = NoProc
          /\ contentLock' = [contentLock EXCEPT ![h] = c]
          /\ todo' = [todo EXCEPT ![c] = @ \ {h}]
          /\ pc' = [pc EXCEPT ![c] = IF todo[c] = {h} THEN "locked" ELSE "locking"]
    BY <1>2 DEF AcquireNext
  <2>2. job' = job /\ writer' = writer /\ pc[c] = "locking"
    BY <1>2 DEF AcquireNext
  <2>3. h \in todo[c] /\ h \in Hashes /\ \A g \in todo[c] : h <= g
    BY <2>1 DEF NextHash, Typed, TypeOK
  <2>4. todo'[c] = todo[c] \ {h} /\ pc'[c] \in {"locked", "locking"}
    BY <2>1 DEF Typed, TypeOK
  <2>5. \A g \in Hashes : Holds(c, g)' <=> (g = h \/ Holds(c, g))
    BY <2>1, <2>3 DEF Holds, Typed, TypeOK
  <2>6. \A g \in Hashes, k \in todo'[c] : Holds(c, g)' => g < k
    <3> SUFFICES ASSUME NEW g \in Hashes, NEW k \in todo'[c], Holds(c, g)' PROVE g < k
      OBVIOUS
    <3>1. k \in todo[c] /\ k # h /\ k \in Nat /\ h \in Nat
      BY <1>0, <2>3, <2>4 DEF Typed, TypeOK
    <3>2. CASE g = h
      BY <3>1, <3>2, <2>3
    <3>3. CASE Holds(c, g)
      BY <3>1, <3>3 DEF Locked
    <3> QED BY <3>2, <3>3, <2>5
  <2>7. Needs(job[c])' = Needs(job[c])
    BY <2>2 DEF Needs, Uses
  <2>8. \A g \in Needs(job[c])' : g \in todo'[c] \/ Holds(c, g)'
    <3> SUFFICES ASSUME NEW g \in Needs(job[c]) PROVE g \in todo'[c] \/ Holds(c, g)'
      BY <2>7
    <3>1. CASE g \in todo[c]
      BY <3>1, <2>3, <2>4, <2>5
    <3>2. CASE Holds(c, g)
      BY <3>2, <2>1, <2>3 DEF Holds, Typed, TypeOK
    <3> QED BY <3>1, <3>2 DEF Locked
  <2> QED BY <2>2, <2>4, <2>6, <2>8 DEF Locked
<1>3. CASE AcquireNone(c)
  BY <1>3 DEF AcquireNone, Locked, Holds, Needs, Uses, Typed, TypeOK
<1>4. CASE Advances(c)
  <2>1. todo' = todo /\ contentLock' = contentLock /\ pc[c] # "idle" /\ pc'[c] # "idle"
    BY <1>4 DEF Advances, Place, TryDelete, BeginReclaim, InTransaction, Typed, TypeOK
  <2>2. Needs(job[c])' = Needs(job[c])
    <3>1. CASE Place(c)
      <4>1. job[c].op = "upload" /\ job'[c] = [job[c] EXCEPT !.created = job'[c].created, !.fresh = job'[c].fresh]
        BY <3>1 DEF Place, Typed, TypeOK
      <4>2. job[c] \in [op : {"upload"}, user : Users, media : Media, fresh : BOOLEAN, created : BOOLEAN]
        BY <4>1 DEF Typed, Jobs, IdleJob
      <4>3. job'[c].op = job[c].op /\ job'[c].media = job[c].media
        BY <4>1, <4>2
      <4> QED BY <4>1, <4>3 DEF Needs, Uses
    <3>2. CASE job' = job
      BY <3>2 DEF Needs, Uses
    <3> QED BY <1>4, <3>1, <3>2 DEF Advances, TryDelete, BeginReclaim
  <2>3. pc'[c] = "unlinking" <=> writer' = c
    BY <1>4 DEF Advances, Place, TryDelete, BeginReclaim, InTransaction, Locked, Typed, TypeOK
  <2> QED BY <2>1, <2>2, <2>3 DEF Locked, Holds
<1>5. CASE Finish(c)
  <2>1. pc'[c] = "idle" /\ job'[c] = IdleJob /\ todo'[c] = {} /\ writer' # c
    BY <1>5 DEF Finish, Typed, TypeOK
  <2>2. \A h \in Hashes : ~Holds(c, h)'
    BY <1>5 DEF Finish, Holds
  <2>3. Needs(IdleJob) = {}
    BY DEF Needs, Uses, IdleJob
  <2>4. Needs(job[c])' = {}
    BY <2>1, <2>3 DEF Needs, Uses
  <2> QED BY <2>1, <2>2, <2>4 DEF Locked
<1> QED BY <1>1, <1>2, <1>3, <1>4, <1>5, StepForms

\* An untouched task keeps its locks.
LEMMA LockedUntouched ==
  ASSUME Typed, NEW d \in Procs, Locked(d), Untouched(d)
  PROVE  Locked(d)'
<1>1. Needs(job[d])' = Needs(job[d])
  BY DEF Needs, Uses, Untouched
<1>2. Needs(job[d]) \subseteq Hashes
  <2>1. ASSUME job[d].op \in {"upload", "delete"} PROVE job[d].media \in Media
    BY <2>1 DEF Typed, Jobs, IdleJob
  <2>2. ASSUME job[d].op = "post" PROVE \A r \in job[d].body : r.media \in Media
    BY <2>2, MediaAssumption DEF Typed, Jobs, IdleJob
  <2> QED BY <2>1, <2>2 DEF Needs, Uses, Hashes
<1> QED BY <1>1, <1>2 DEF Locked, Untouched, Holds

\* The locks survive every step.
LEMMA LockStep ==
  ASSUME Typed, LockInv, [Next]_vars
  PROVE  LockInv'
<1>1. ASSUME NEW c \in Procs, Step(c) PROVE LockInv'
  <2> SUFFICES ASSUME NEW d \in Procs PROVE Locked(d)'
    BY DEF LockInv
  <2>1. CASE d = c
    BY <1>1, <2>1, LockedOwnStep DEF LockInv
  <2>2. CASE d # c
    BY <1>1, <2>2, OthersUntouched, LockedUntouched DEF LockInv
  <2> QED BY <2>1, <2>2
<1>2. CASE UNCHANGED <<pc, job, todo, contentLock, writer>>
  BY <1>2, LockedUntouched DEF LockInv, Untouched
<1> QED BY <1>1, <1>2 DEF Next, Step, Lifecycle, vars, task

\* What an operation needs, it holds once every lock has been taken.
LEMMA HoldsNeeds ==
  ASSUME Typed, LockInv, NEW c \in Procs, pc[c] # "locking", NEW h \in Needs(job[c])
  PROVE  Holds(c, h)
  BY DEF Typed, StepOf, LockInv, Locked

-----------------------------------------------------------------------------
(* No cycle of waiting tasks.                                              *)

\* The tasks of S that wait for a lock above the one c waits for.
Above(S, c) ==
  {d \in S : \E h \in NextHash(c), g \in NextHash(d) : h < g}

\* The first hash of a task is one hash.
LEMMA NextHashUnique ==
  ASSUME Typed, NEW c \in Procs, NEW h \in NextHash(c), NEW g \in NextHash(c)
  PROVE  h = g /\ h \in Nat /\ h \in todo[c]
<1>1. Hashes \subseteq Nat
  BY MediaAssumption DEF Hashes
<1>2. NextHash(c) \subseteq Nat
  BY <1>1 DEF NextHash, Typed, TypeOK
<1> QED BY <1>2 DEF NextHash

\* A task that waits for another has fewer tasks above it than the other
\* has: the holder of a lock only asks for larger hashes.
LEMMA WaitsGoesUp ==
  ASSUME Typed, LockInv, NEW S \in SUBSET Procs, NEW c \in S, NEW d \in S,
         Waits(c, d), \E e \in S : Waits(d, e)
  PROVE  Above(S, d) \subseteq Above(S, c) /\ d \in Above(S, c) \ Above(S, d)
<1>1. PICK h \in NextHash(c) : contentLock[h] = d
  BY DEF Waits
<1>2. PICK g \in NextHash(d) : TRUE
  BY DEF Waits
<1>3. h \in Hashes /\ g \in todo[d] /\ h \in Nat /\ g \in Nat
  BY <1>1, <1>2, NextHashUnique DEF NextHash, Typed, TypeOK
<1>4. h < g
  BY <1>1, <1>3 DEF LockInv, Locked, Holds
<1>5. d \in Above(S, c)
  BY <1>1, <1>2, <1>4 DEF Above
<1>6. d \notin Above(S, d)
  BY NextHashUnique DEF Above
<1>7. Above(S, d) \subseteq Above(S, c)
  <2> SUFFICES ASSUME NEW e \in Above(S, d) PROVE e \in Above(S, c)
    OBVIOUS
  <2>1. PICK k \in NextHash(d), l \in NextHash(e) : k < l
    BY DEF Above
  <2>2. e \in S /\ l \in Nat /\ k = g
    BY <1>2, <2>1, NextHashUnique DEF Above
  <2>3. h < l
    BY <1>3, <1>4, <2>1, <2>2
  <2> QED BY <1>1, <2>1, <2>2, <2>3 DEF Above
<1> QED BY <1>5, <1>6, <1>7

\* With the lock files taken in the order of their hashes no set of tasks
\* waits inside itself (MediaContentLocks::acquire).
LEMMA NoCycle ==
  ASSUME Typed, LockInv
  PROVE  NoWaitCycle
<1> SUFFICES ASSUME NEW S \in SUBSET Procs, S # {},
                    \A c \in S : \E d \in S : Waits(c, d)
             PROVE  FALSE
  BY DEF NoWaitCycle
<1> DEFINE T == {Above(S, c) : c \in S}
<1>1. IsFiniteSet(S)
  BY MediaAssumption, FS_Subset
<1>2. T \subseteq FiniteSubsetsOf(S)
  BY <1>1, FS_Subset DEF FiniteSubsetsOf, Above
<1>3. IsWellFoundedOn(StrictSubsetOrdering(S), FiniteSubsetsOf(S))
  BY FS_StrictSubsetOrderingWellFounded
<1>4. PICK x \in T : \A y \in T : ~(<<y, x>> \in StrictSubsetOrdering(S))
  <2>1. T # {}
    OBVIOUS
  <2> HIDE DEF T
  <2> QED BY <1>2, <1>3, <2>1, WFMin
<1>5. PICK c \in S : x = Above(S, c)
  OBVIOUS
<1>6. PICK d \in S : Waits(c, d)
  OBVIOUS
<1>7. Above(S, d) \subseteq Above(S, c) /\ d \in Above(S, c) \ Above(S, d)
  BY <1>6, WaitsGoesUp
<1>8. <<Above(S, d), x>> \in StrictSubsetOrdering(S)
  BY <1>5, <1>7 DEF StrictSubsetOrdering, Above
<1> QED BY <1>4, <1>8

-----------------------------------------------------------------------------
(* The files, the rows and the references.                                 *)

\* A media row or a reference of a Post is there.
Kept(m) == RowsOf(m) # {} \/ RefsTo(m) # {}

\* The invariant speaks of a set S of media, those whose files are handled by
\* the tasks alone; here that is every media.

\* What an upload knows about the file it placed: a file it created has no
\* row yet, a file it adopted was accounted for.
PlacedInv(c, S) ==
  pc[c] = "placed" /\ job[c].media \in S =>
    /\ job[c].media \in files
    /\ job[c].fresh => job[c].created
    /\ job[c].created => RowsOf(job[c].media) = {}
    /\ ~job[c].created => Kept(job[c].media) \/ job[c].media \in leaked

\* What a reclaim checked holds until its transaction ends.
UnlinkInv(c) == pc[c] = "unlinking" => Reclaimable(job[c])

\* A binding of a theme is backed by a row of the theme's owner.
BindingsOwned == \A b \in bindings : <<Owner[b[1]], b[2]>> \in rows

\* A file without a row and without a reference is in hand or a leak.
FilesAccounted(S) == \A m \in files \cap S : Kept(m) \/ InHand(m) \/ m \in leaked

\* A row has its file.
RowsBacked(S) == \A r \in rows : r[2] \in S => r[2] \in files

InvOn(S) ==
  /\ Typed
  /\ LockInv
  /\ \A c \in Procs : PlacedInv(c, S) /\ UnlinkInv(c)
  /\ RowsBacked(S)
  /\ BindingsOwned
  /\ FilesAccounted(S)

IInv == InvOn(Media)

\* The operation a task is at decides what its record holds.
LEMMA JobForms ==
  ASSUME Typed, NEW c \in Procs
  PROVE  /\ job[c].op = "upload" =>
              job[c] \in [op : {"upload"}, user : Users, media : Media,
                          fresh : BOOLEAN, created : BOOLEAN]
         /\ job[c].op = "delete" =>
              job[c] \in [op : {"delete"}, user : Users, media : Media, force : BOOLEAN,
                          evidence : SUBSET {r \in RefRec : r.form = "foreign"}]
         /\ job[c].op = "post" =>
              job[c] \in [op : {"post"}, post : Posts, body : Bodies]
         /\ job[c].op = "bind" =>
              job[c] \in [op : {"bind"}, theme : Themes, new : SUBSET Media,
                          snapshot : SUBSET Media]
  BY DEF Typed, Jobs, IdleJob

\* The media an upload or a deletion works on, and its lock.
LEMMA OwnMedia ==
  ASSUME Typed, LockInv, NEW c \in Procs, job[c].op \in {"upload", "delete"}
  PROVE  /\ job[c].media \in Media
         /\ HashOf[job[c].media] \in Hashes
         /\ pc[c] # "locking" => Holds(c, HashOf[job[c].media])
<1>1. job[c].media \in Media
  BY JobForms
<1>2. HashOf[job[c].media] \in Needs(job[c])
  BY DEF Needs, Uses
<1> QED BY <1>1, <1>2, HoldsNeeds DEF Hashes

\* The operation of a task that is past its locks.
LEMMA StepOps ==
  ASSUME Typed, NEW c \in Procs
  PROVE  /\ pc[c] = "placed" => job[c].op = "upload"
         /\ pc[c] \in {"deleted", "unlinking"} => job[c].op = "delete"
  BY DEF Typed, StepOf

\* A captured revision keeps every media the Post refers to.
LEMMA CapturedTyped ==
  ASSUME Typed, NEW p \in Posts, posts[p].revisions < MaxRevisions
  PROVE  /\ Captured(p) \subseteq RefRec
         /\ \A m : (\E r \in CurrentRefs(p) : r.media = m) => \E r \in Captured(p) : r.media = m
<1> USE MediaAssumption
<1>1. posts[p].revisions + 1 \in 0 .. MaxRevisions
  BY DEF Typed, TypeOK
<1>2. \A r \in CurrentRefs(p) : r \in RefRec
  BY DEF CurrentRefs, Typed, TypeOK, RefRec
<1>3. \A r \in CurrentRefs(p) :
        /\ [r EXCEPT !.revision = posts[p].revisions + 1] \in RefRec
        /\ [r EXCEPT !.revision = posts[p].revisions + 1].media = r.media
  BY <1>1, <1>2 DEF RefRec
<1> QED BY <1>3 DEF Captured

\* The references of a body.
LEMMA BodyRefsTyped ==
  ASSUME NEW p \in Posts, NEW body \in Bodies
  PROVE  /\ BodyRefs(p, body) \subseteq RefRec
         /\ \A r \in BodyRefs(p, body) : \E x \in body : x.media = r.media
         /\ Materialized(p, body) \subseteq Users \X Media
         /\ \A r \in Materialized(p, body) :
              RowsOf(r[2]) # {} /\ \E x \in body : x.media = r[2]
<1>1. /\ \A x \in body : x.media \in Media /\ x.form \in {"local", "foreign"}
      /\ 0 \in 0 .. MaxRevisions /\ Author[p] \in Users
  BY MediaAssumption
<1>2. BodyRefs(p, body) \subseteq RefRec
  BY <1>1 DEF BodyRefs, RefRec
<1>3. \A r \in BodyRefs(p, body) : \E x \in body : x.media = r.media
  BY DEF BodyRefs
<1>4. Materialized(p, body) \subseteq Users \X Media
  BY <1>1 DEF Materialized
<1>5. \A r \in Materialized(p, body) : RowsOf(r[2]) # {} /\ \E x \in body : x.media = r[2]
  BY DEF Materialized
<1> QED BY <1>2, <1>3, <1>4, <1>5

\* The types survive a step of a task.
LEMMA TypedTask ==
  ASSUME Typed, LockInv, NEW c \in Procs, Step(c)
  PROVE  Typed'
<1> USE MediaAssumption
<1> DEFINE Tables == /\ files' \subseteq Media /\ leaked' \subseteq Media
                     /\ rows' \subseteq Users \X Media
                     /\ refs' \subseteq RefRec
                     /\ posts' \in [Posts -> [state : {"absent", "live", "deleted"},
                                              revisions : 0 .. MaxRevisions]]
                     /\ bindings' \subseteq Themes \X Media
<1>0. /\ files \subseteq Media /\ leaked \subseteq Media
      /\ rows \subseteq Users \X Media
      /\ refs \subseteq RefRec
      /\ posts \in [Posts -> [state : {"absent", "live", "deleted"},
                              revisions : 0 .. MaxRevisions]]
      /\ bindings \subseteq Themes \X Media
  BY DEF Typed, TypeOK, RefRec
<1>1. CASE Starts(c)
  BY <1>1, BeginTyped DEF Starts
<1>2. CASE AcquireNext(c)
  <2>1. PICK h \in NextHash(c) :
          /\ contentLock[h] = NoProc
          /\ contentLock' = [contentLock EXCEPT ![h] = c]
          /\ todo' = [todo EXCEPT ![c] = @ \ {h}]
          /\ pc' = [pc EXCEPT ![c] = IF todo[c] = {h} THEN "locked" ELSE "locking"]
    BY <1>2 DEF AcquireNext
  <2>2. UNCHANGED <<files, rows, refs, posts, bindings, writer, job, leaked>>
    BY <1>2 DEF AcquireNext, db
  <2>3. TypeOK'
    BY <2>1, <2>2 DEF Typed, TypeOK
  <2>4. \A d \in Procs : StepOf(pc[d], job[d], todo[d])'
    <3> SUFFICES ASSUME NEW d \in Procs PROVE StepOf(pc[d], job[d], todo[d])'
      OBVIOUS
    <3>1. CASE d = c
      BY <2>1, <3>1 DEF Typed, TypeOK, StepOf, NextHash
    <3>2. CASE d # c
      BY <2>1, <2>2, <3>2 DEF Typed, TypeOK, StepOf
    <3> QED BY <3>1, <3>2
  <2> QED BY <2>2, <2>3, <2>4 DEF Typed
<1>3. CASE AcquireNone(c)
  BY <1>3 DEF AcquireNone, Typed, TypeOK, StepOf, db
<1>4. CASE Place(c)
  <2>1. /\ pc[c] = "locked" /\ job[c].op = "upload"
        /\ files' = files \cup {job[c].media}
        /\ pc' = [pc EXCEPT ![c] = "placed"]
        /\ UNCHANGED <<rows, refs, posts, bindings, contentLock, writer, todo, leaked>>
    BY <1>4 DEF Place, db
  <2>2. job' = [job EXCEPT ![c] = [job[c] EXCEPT !.created = job[c].media \notin files,
                 !.fresh = {f \in files : HashOf[f] = HashOf[job[c].media]} = {}]]
    BY <1>4 DEF Place, Typed
  <2>3. job[c] \in [op : {"upload"}, user : Users, media : Media,
                    fresh : BOOLEAN, created : BOOLEAN]
    BY <2>1, JobForms
  <2>4. job'[c] \in [op : {"upload"}, user : Users, media : Media,
                     fresh : BOOLEAN, created : BOOLEAN]
    BY <2>2, <2>3 DEF Typed
  <2>5. job' \in [Procs -> Jobs]
    BY <2>2, <2>4 DEF Typed, Jobs
  <2>6. TypeOK'
    BY <2>1, <2>3 DEF Typed, TypeOK
  <2>7. \A d \in Procs : StepOf(pc[d], job[d], todo[d])'
    BY <2>1, <2>2, <2>4 DEF Typed, TypeOK, StepOf
  <2> QED BY <2>5, <2>6, <2>7 DEF Typed
<1>5. CASE TryDelete(c) \/ BeginReclaim(c)
  BY <1>5 DEF TryDelete, BeginReclaim, InTransaction, Typed, TypeOK, StepOf, db
<1>6. ASSUME Finish(c), Tables PROVE Typed'
  BY <1>6, FinishTyped
<1>7. CASE PlaceFails(c) \/ DeleteRefused(c) \/ ReclaimRefused(c) \/ WriteFails(c)
  BY <1>0, <1>6, <1>7 DEF PlaceFails, DeleteRefused, ReclaimRefused, WriteFails, db
<1>8. CASE MakePublicFails(c) \/ RegisterFails(c) \/ Unlink(c) \/ Register(c)
           \/ RegisterUnconfirmed(c) \/ DeleteUnconfirmed(c) \/ ReclaimFails(c)
  <2>1. job[c].op \in {"upload", "delete"}
    BY <1>8, StepOps DEF MakePublicFails, RegisterFails, Unlink, Register, RegisterUnconfirmed,
       DeleteUnconfirmed, ReclaimFails, InTransaction
  <2>2. job[c].media \in Media /\ job[c].user \in Users
    BY <2>1, JobForms
  <2>3. CASE MakePublicFails(c) \/ RegisterFails(c) \/ Unlink(c)
    BY <1>0, <1>6, <2>2, <2>3 DEF MakePublicFails, RegisterFails, Unlink, RemoveTarget, db
  <2>4. CASE Register(c) \/ RegisterUnconfirmed(c) \/ DeleteUnconfirmed(c) \/ ReclaimFails(c)
    BY <1>0, <1>6, <2>2, <2>4
       DEF Register, RegisterUnconfirmed, DeleteUnconfirmed, ReclaimFails, db
  <2> QED BY <1>8, <2>3, <2>4
<1>9. CASE CreatePost(c) \/ UpdatePost(c)
  <2> DEFINE p == job[c].post
             body == job[c].body
  <2>1. p \in Posts /\ body \in Bodies
    BY <1>9, JobForms DEF CreatePost, UpdatePost, InTransaction
  <2>2. /\ BodyRefs(p, body) \subseteq RefRec
        /\ Materialized(p, body) \subseteq Users \X Media
    BY <2>1, BodyRefsTyped
  <2>3. CASE CreatePost(c)
    <3>1. posts' = [posts EXCEPT ![p].state = "live"]
      BY <2>3 DEF CreatePost
    <3>2. posts' \in [Posts -> [state : {"absent", "live", "deleted"},
                                revisions : 0 .. MaxRevisions]]
      BY <1>0, <2>1, <3>1
    <3> QED BY <1>0, <1>6, <2>2, <2>3, <3>2 DEF CreatePost
  <2>4. CASE UpdatePost(c)
    <3>1. posts' = [posts EXCEPT ![p].revisions = @ + 1] /\ posts[p].revisions < MaxRevisions
      BY <2>4 DEF UpdatePost
    <3>2. posts' \in [Posts -> [state : {"absent", "live", "deleted"},
                                revisions : 0 .. MaxRevisions]]
      BY <1>0, <2>1, <3>1
    <3>3. Captured(p) \subseteq RefRec
      BY <2>1, <3>1, CapturedTyped
    <3>4. refs' \subseteq RefRec /\ rows' \subseteq Users \X Media
      BY <1>0, <2>2, <2>4, <3>3 DEF UpdatePost
    <3> QED BY <1>0, <1>6, <2>4, <3>2, <3>4 DEF UpdatePost
  <2> QED BY <1>9, <2>3, <2>4
<1>10. CASE ReplaceBinding(c)
  <2>1. job[c].theme \in Themes /\ job[c].new \subseteq Media
    BY <1>10, JobForms DEF ReplaceBinding, InTransaction
  <2> QED BY <1>0, <1>6, <1>10, <2>1 DEF ReplaceBinding
<1>11. CASE Die(c)
  <2>1. pc[c] \in {"placed", "deleted", "unlinking"} => job[c].media \in Media
    BY StepOps, JobForms
  <2>2. leaked' \subseteq Media
    BY <1>0, <1>11, <2>1 DEF Die
  <2> QED BY <1>0, <1>6, <1>11, <2>2 DEF Die, db
<1> QED
  <2>1. CASE Upload(c)
    BY <2>1, <1>1, <1>4, <1>7, <1>8, Starting DEF Upload
  <2>2. CASE Delete(c)
    BY <2>2, <1>1, <1>5, <1>7, <1>8, Starting DEF Delete
  <2>3. CASE Write(c)
    BY <2>3, <1>1, <1>7, <1>9, <1>10, Starting DEF Write
  <2> QED BY <2>1, <2>2, <2>3, <1>2, <1>3, <1>11 DEF Step

\* The types survive every step.
LEMMA TypedStep ==
  ASSUME Typed, LockInv, [Next]_vars
  PROVE  Typed'
<1>1. ASSUME NEW p \in Posts, Lifecycle(p) PROVE Typed'
  <2>1. posts[p].revisions < MaxRevisions
    BY <1>1 DEF Lifecycle
  <2>2. refs' \subseteq RefRec
    BY <1>1, <2>1, CapturedTyped DEF Lifecycle, Typed, TypeOK, RefRec
  <2>3. posts' \in [Posts -> [state : {"absent", "live", "deleted"},
                              revisions : 0 .. MaxRevisions]]
    <3>1. PICK state \in {"live", "deleted"} :
            posts' = [posts EXCEPT ![p] = [state |-> state, revisions |-> @.revisions + 1]]
      BY <1>1 DEF Lifecycle
    <3>2. posts[p].revisions + 1 \in 0 .. MaxRevisions
      BY <2>1, MediaAssumption DEF Typed, TypeOK
    <3> QED BY <3>1, <3>2 DEF Typed, TypeOK
  <2> QED BY <1>1, <2>2, <2>3 DEF Lifecycle, Typed, TypeOK, RefRec, StepOf, task
<1>2. CASE UNCHANGED vars
  BY <1>2 DEF vars, db, task, Typed, TypeOK, StepOf
<1> QED BY <1>1, <1>2, TypedTask DEF Next, Step

-----------------------------------------------------------------------------
(* What a step leaves of the media it holds no lock for.                   *)

\* A reference of a Post is never lost: an edit keeps the old body's
\* references in the revision it captures.
LEMMA RefsStay ==
  ASSUME Typed, LockInv, [Next]_vars, NEW m, RefsTo(m) # {}
  PROVE  RefsTo(m)' # {}
<1> SUFFICES ASSUME refs' # refs PROVE RefsTo(m)' # {}
  BY DEF RefsTo
<1>1. PICK r \in refs : r.media = m
  BY DEF RefsTo
<1>2. ASSUME r \in refs' PROVE RefsTo(m)' # {}
  BY <1>1, <1>2 DEF RefsTo
<1>3. ASSUME NEW c \in Procs, UpdatePost(c) PROVE RefsTo(m)' # {}
  <2> DEFINE p == job[c].post
  <2>1. /\ p \in Posts /\ posts[p].revisions < MaxRevisions
        /\ refs' = (refs \ CurrentRefs(p)) \cup Captured(p) \cup BodyRefs(p, job[c].body)
    BY <1>3, JobForms DEF UpdatePost, InTransaction
  <2>2. CASE r \in CurrentRefs(p)
    <3>1. \E x \in Captured(p) : x.media = m
      BY <1>1, <2>1, <2>2, CapturedTyped
    <3> QED BY <2>1, <3>1 DEF RefsTo
  <2>3. CASE r \notin CurrentRefs(p)
    BY <1>1, <1>2, <2>1, <2>3
  <2> QED BY <2>2, <2>3
<1>4. ASSUME NEW c \in Procs, CreatePost(c) PROVE RefsTo(m)' # {}
  BY <1>1, <1>2, <1>4 DEF CreatePost
<1>5. ASSUME NEW p \in Posts, Lifecycle(p) PROVE RefsTo(m)' # {}
  BY <1>1, <1>2, <1>5 DEF Lifecycle
<1>6. ASSUME NEW c \in Procs, Step(c) PROVE UpdatePost(c) \/ CreatePost(c)
  <2>1. ~UNCHANGED refs
    OBVIOUS
  <2>2. ~Starts(c)
    BY <2>1 DEF Starts, Begin, db
  <2>3. ~(AcquireNext(c) \/ AcquireNone(c) \/ Die(c))
    BY <2>1 DEF AcquireNext, AcquireNone, Die, db
  <2>4. CASE Upload(c)
    BY <2>1, <2>2, <2>4, Starting DEF Upload, Place, PlaceFails, MakePublicFails, Register,
       RegisterUnconfirmed, RegisterFails, db
  <2>5. CASE Delete(c)
    BY <2>1, <2>2, <2>5, Starting DEF Delete, TryDelete, DeleteRefused, DeleteUnconfirmed,
       BeginReclaim, ReclaimRefused, ReclaimFails, Unlink, db
  <2>6. CASE Write(c)
    BY <2>1, <2>2, <2>6, Starting DEF Write, ReplaceBinding, WriteFails, db
  <2> QED BY <1>6, <2>3, <2>4, <2>5, <2>6 DEF Step
<1>7. ~UNCHANGED vars
  BY DEF vars, db
<1> QED BY <1>3, <1>4, <1>5, <1>6, <1>7 DEF Next, Step

\* A task past its locks holds the lock of every media it uses.
LEMMA UsesLocked ==
  ASSUME Typed, LockInv, NEW c \in Procs, pc[c] \notin {"idle", "locking"},
         NEW m \in Uses(job[c])
  PROVE  Holds(c, HashOf[m])
  BY HoldsNeeds DEF Needs

\* A media the task does not use, or not yet, keeps its file and its rows.
LEMMA MediaFrame ==
  ASSUME Typed, LockInv, NEW c \in Procs, Step(c), NEW m \in Media,
         m \notin Uses(job[c]) \/ pc[c] \in {"idle", "locking"}
  PROVE  /\ m \in files' <=> m \in files
         /\ m \in leaked' <=> m \in leaked
         /\ RowsOf(m)' = RowsOf(m)
<1>1. CASE UNCHANGED <<files, leaked, rows>>
  BY <1>1 DEF RowsOf
<1>2. ASSUME job[c].op \in {"upload", "delete"}, pc[c] \notin {"idle", "locking"}
      PROVE  m # job[c].media
  BY <1>2 DEF Uses
<1>3. CASE Upload(c)
  <2>1. CASE Starts(c) \/ PlaceFails(c)
    BY <2>1, <1>1 DEF Starts, Begin, PlaceFails, db
  <2>2. CASE Place(c)
    BY <2>2, <1>2 DEF Place, RowsOf, db
  <2>3. CASE MakePublicFails(c) \/ RegisterFails(c)
    <3>1. m # job[c].media
      BY <2>3, <1>2, StepOps DEF MakePublicFails, RegisterFails
    <3> QED BY <2>3, <3>1 DEF MakePublicFails, RegisterFails, RemoveTarget, RowsOf, db
  <2>4. CASE Register(c) \/ RegisterUnconfirmed(c)
    <3>1. m # job[c].media
      BY <2>4, <1>2 DEF Register, RegisterUnconfirmed, InTransaction
    <3> QED BY <2>4, <3>1 DEF Register, RegisterUnconfirmed, RowsOf, db
  <2> QED BY <1>3, <2>1, <2>2, <2>3, <2>4, Starting DEF Upload
<1>4. CASE Delete(c)
  <2>1. CASE Starts(c) \/ DeleteRefused(c) \/ BeginReclaim(c) \/ ReclaimRefused(c)
    BY <2>1, <1>1 DEF Starts, Begin, DeleteRefused, BeginReclaim, ReclaimRefused, db
  <2>2. CASE TryDelete(c) \/ DeleteUnconfirmed(c) \/ ReclaimFails(c) \/ Unlink(c)
    <3>1. m # job[c].media
      BY <2>2, <1>2, StepOps DEF TryDelete, DeleteUnconfirmed, ReclaimFails, Unlink, InTransaction
    <3> QED BY <2>2, <3>1
        DEF TryDelete, DeleteUnconfirmed, ReclaimFails, Unlink, RemoveTarget, RowsOf, db
  <2> QED BY <1>4, <2>1, <2>2, Starting DEF Delete
<1>5. CASE Write(c)
  <2>1. CASE Starts(c) \/ ReplaceBinding(c) \/ WriteFails(c)
    BY <2>1, <1>1 DEF Starts, Begin, ReplaceBinding, WriteFails, db
  <2>2. CASE CreatePost(c) \/ UpdatePost(c)
    <3> DEFINE p == job[c].post
               body == job[c].body
    <3>1. /\ pc[c] = "locked" /\ job[c].op = "post" /\ p \in Posts /\ body \in Bodies
          /\ UNCHANGED <<files, leaked>>
          /\ rows' = rows \cup Materialized(p, body)
      BY <2>2, JobForms DEF CreatePost, UpdatePost, InTransaction
    <3>2. \A x \in body : x.media # m
      BY <3>1 DEF Uses
    <3>3. \A r \in Materialized(p, body) : r[2] # m
      BY <3>1, <3>2, BodyRefsTyped
    <3> QED BY <3>1, <3>3 DEF RowsOf
  <2> QED BY <1>5, <2>1, <2>2, Starting DEF Write
<1>6. CASE AcquireNext(c) \/ AcquireNone(c)
  BY <1>1, <1>6 DEF AcquireNext, AcquireNone, db
<1>7. CASE Die(c)
  <2>1. pc[c] \in {"placed", "deleted", "unlinking"} => m # job[c].media
    BY <1>2, StepOps
  <2> QED BY <1>7, <2>1 DEF Die, RowsOf, db
<1> QED BY <1>3, <1>4, <1>5, <1>6, <1>7 DEF Step

\* While a reclaim has its transaction open, the tables do not change.
LEMMA WriterExcludes ==
  ASSUME Typed, LockInv, [Next]_vars, writer # NoProc
  PROVE  UNCHANGED db
<1>1. ASSUME NEW c \in Procs, Step(c) PROVE UNCHANGED db
  <2>1. CASE Starts(c)
    BY <2>1 DEF Starts, Begin
  <2>2. CASE Upload(c)
    BY <2>1, <2>2, Starting DEF Upload, Place, PlaceFails, MakePublicFails, Register,
       RegisterUnconfirmed, RegisterFails, InTransaction
  <2>3. CASE Delete(c)
    BY <2>1, <2>3, Starting DEF Delete, TryDelete, DeleteRefused, DeleteUnconfirmed,
       BeginReclaim, ReclaimRefused, ReclaimFails, Unlink, InTransaction
  <2>4. CASE Write(c)
    BY <2>1, <2>4, Starting DEF Write, CreatePost, UpdatePost, ReplaceBinding, WriteFails,
       InTransaction
  <2> QED BY <1>1, <2>2, <2>3, <2>4 DEF Step, AcquireNext, AcquireNone, Die
<1> QED BY <1>1 DEF Next, Step, Lifecycle, vars

\* What an untouched task knows stays true while another one steps.
LEMMA OtherTasks ==
  ASSUME NEW S, InvOn(S), NEW c \in Procs, Step(c), NEW d \in Procs, d # c
  PROVE  PlacedInv(d, S)' /\ UnlinkInv(d)'
<1>0. Typed /\ LockInv /\ [Next]_vars /\ PlacedInv(d, S) /\ UnlinkInv(d)
  BY DEF InvOn, Next, Step
<1>1. Untouched(d)
  BY <1>0, OthersUntouched
<1>2. PlacedInv(d, S)'
  <2> SUFFICES ASSUME pc'[d] = "placed", job'[d].media \in S PROVE PlacedInv(d, S)'
    BY DEF PlacedInv
  <2>1. /\ pc[d] = "placed" /\ job[d].op = "upload" /\ job'[d] = job[d]
        /\ job[d].media \in S
    BY <1>0, <1>1, StepOps DEF Untouched
  <2>2. PICK m \in Media : m = job[d].media /\ Holds(d, HashOf[m])
    BY <1>0, <2>1, OwnMedia
  <2>3. ~Holds(c, HashOf[m])
    BY <2>2 DEF Holds
  <2>4. m \notin Uses(job[c]) \/ pc[c] \in {"idle", "locking"}
    BY <1>0, <2>3, UsesLocked
  <2>5. /\ m \in files' <=> m \in files
        /\ m \in leaked' <=> m \in leaked
        /\ RowsOf(m)' = RowsOf(m)
    BY <1>0, <2>2, <2>4, MediaFrame
  <2>6. Kept(m) => RowsOf(m)' # {} \/ RefsTo(m)' # {}
    BY <1>0, <2>5, RefsStay DEF Kept
  <2>7. /\ m \in files
        /\ job[d].fresh => job[d].created
        /\ job[d].created => RowsOf(m) = {}
        /\ ~job[d].created => Kept(m) \/ m \in leaked
    BY <1>0, <2>1, <2>2 DEF PlacedInv
  <2>8. job'[d].media = m
    BY <2>1, <2>2
  <2>9. RowsOf(job[d].media)' = RowsOf(m)' /\ RefsTo(job[d].media)' = RefsTo(m)'
    BY <2>8 DEF RowsOf, RefsTo
  <2> QED BY <2>1, <2>2, <2>5, <2>6, <2>7, <2>8, <2>9 DEF PlacedInv, Kept
<1>3. UnlinkInv(d)'
  <2> SUFFICES ASSUME pc'[d] = "unlinking" PROVE UnlinkInv(d)'
    BY DEF UnlinkInv
  <2>1. pc[d] = "unlinking" /\ job'[d] = job[d]
    BY <1>1 DEF Untouched
  <2>2. writer = d /\ writer # NoProc
    BY <1>0, <2>1, MediaAssumption DEF LockInv, Locked
  <2>3. UNCHANGED <<rows, refs, posts, bindings>>
    BY <1>0, <2>2, WriterExcludes DEF db
  <2>4. Reclaimable(job[d])' = Reclaimable(job[d])
    BY <2>1, <2>3 DEF Reclaimable, RowsOf, RefsTo, BoundBy, Live
  <2> QED BY <1>0, <2>1, <2>4 DEF UnlinkInv
<1> QED BY <1>2, <1>3

\* What a task knows after its own step.
LEMMA OwnTask ==
  ASSUME NEW S, InvOn(S), NEW c \in Procs, Step(c)
  PROVE  PlacedInv(c, S)' /\ UnlinkInv(c)'
<1>0. Typed /\ LockInv
  BY DEF InvOn
<1>1. CASE Starts(c) \/ AcquireNext(c) \/ AcquireNone(c) \/ TryDelete(c) \/ Finish(c)
  <2>1. pc'[c] \in {"locking", "locked", "deleted", "idle"}
    BY <1>0, <1>1 DEF Starts, Begin, AcquireNext, AcquireNone, TryDelete, Finish, Typed, TypeOK
  <2> QED BY <2>1 DEF PlacedInv, UnlinkInv
<1>2. /\ Place(c) => pc'[c] = "placed"
      /\ BeginReclaim(c) => pc'[c] = "unlinking"
  BY <1>0 DEF Place, BeginReclaim, Typed, TypeOK
<1>3. ASSUME Place(c), job'[c].media \in S PROVE PlacedInv(c, S)'
  <2> DEFINE m == job[c].media
  <2>1. /\ pc[c] = "locked" /\ job[c].op = "upload"
        /\ files' = files \cup {m}
        /\ UNCHANGED <<rows, refs, leaked>>
    BY <1>3 DEF Place, db
  <2>2. job[c] \in [op : {"upload"}, user : Users, media : Media,
                    fresh : BOOLEAN, created : BOOLEAN]
    BY <1>0, <2>1, JobForms
  <2>3. /\ job'[c].media = m /\ job'[c].created = (m \notin files)
        /\ job'[c].fresh = ({f \in files : HashOf[f] = HashOf[m]} = {})
    BY <1>0, <1>3, <2>2 DEF Place, Typed
  <2>4. m \notin files => RowsOf(m) = {}
    BY <1>3, <2>3 DEF InvOn, RowsBacked, RowsOf
  <2>5. m \in files => Kept(m) \/ m \in leaked
    <3> SUFFICES ASSUME m \in files, InHand(m) PROVE FALSE
      BY <1>3, <2>3 DEF InvOn, FilesAccounted
    <3>1. PICK d \in Procs : pc[d] \in {"placed", "deleted", "unlinking"} /\ job[d].media = m
      BY DEF InHand
    <3>2. d # c /\ job[d].op \in {"upload", "delete"}
      BY <1>0, <2>1, <3>1, StepOps
    <3>3. Holds(d, HashOf[m]) /\ Holds(c, HashOf[m])
      BY <1>0, <2>1, <3>1, <3>2, OwnMedia
    <3> QED BY <3>2, <3>3 DEF Holds
  <2>6. RowsOf(job[c].media)' = RowsOf(m) /\ RefsTo(job[c].media)' = RefsTo(m)
    BY <2>1, <2>3 DEF RowsOf, RefsTo
  <2>7. job'[c].fresh => job'[c].created
    BY <2>3
  <2> QED BY <2>1, <2>3, <2>4, <2>5, <2>6, <2>7 DEF PlacedInv, Kept
<1>4. ASSUME BeginReclaim(c) PROVE UnlinkInv(c)'
  <2>1. Reclaimable(job[c]) /\ UNCHANGED <<rows, refs, bindings, job>>
    BY <1>4 DEF BeginReclaim, db
  <2>2. Reclaimable(job[c])' = Reclaimable(job[c])
    BY <2>1 DEF Reclaimable, RowsOf, RefsTo, BoundBy, Live
  <2> QED BY <2>1, <2>2 DEF UnlinkInv
<1> QED BY <1>0, <1>1, <1>2, <1>3, <1>4, StepForms DEF Advances, PlacedInv, UnlinkInv

\* Every row keeps its file: a file is taken away only while no row names it.
LEMMA RowsStep ==
  ASSUME NEW S, InvOn(S), NEW c \in Procs, Step(c)
  PROVE  RowsBacked(S)'
<1>0. Typed /\ LockInv /\ RowsBacked(S) /\ PlacedInv(c, S) /\ UnlinkInv(c) /\ Typed'
  BY TypedTask DEF InvOn
<1> SUFFICES ASSUME NEW r \in rows', r[2] \in S PROVE r[2] \in files'
  BY DEF RowsBacked
<1>1. PICK m \in Media : m = r[2]
  BY <1>0 DEF Typed, TypeOK
<1>2. RowsOf(m)' # {} /\ (RowsOf(m) # {} => m \in files)
  BY <1>0, <1>1 DEF RowsOf, RowsBacked
<1>3. CASE m \notin Uses(job[c]) \/ pc[c] \in {"idle", "locking"}
  BY <1>0, <1>1, <1>2, <1>3, MediaFrame
<1>4. CASE m \in Uses(job[c]) /\ pc[c] \notin {"idle", "locking"}
  <2>0. ~Starts(c) /\ ~AcquireNext(c) /\ ~AcquireNone(c)
    BY <1>4 DEF Starts, Begin, AcquireNext, AcquireNone
  <2>1. CASE job[c].op \notin {"upload", "delete"}
    <3>1. job[c].op = "post"
      BY <1>4, <2>1 DEF Uses
    <3>2. ~Upload(c) /\ ~Delete(c)
      BY <1>0, <2>0, <2>1, Starting, StepOps DEF Upload, Place, PlaceFails, MakePublicFails,
         Register, RegisterUnconfirmed, RegisterFails, Delete, TryDelete, DeleteRefused,
         DeleteUnconfirmed, BeginReclaim, ReclaimRefused, ReclaimFails, Unlink, InTransaction
    <3>3. CASE Die(c) \/ WriteFails(c) \/ ReplaceBinding(c)
      BY <1>1, <1>2, <3>3 DEF Die, WriteFails, ReplaceBinding, RowsOf, db
    <3>4. CASE CreatePost(c) \/ UpdatePost(c)
      <4>1. /\ job[c].post \in Posts /\ job[c].body \in Bodies
            /\ files' = files /\ rows' = rows \cup Materialized(job[c].post, job[c].body)
        BY <1>0, <3>1, <3>4, JobForms DEF CreatePost, UpdatePost
      <4>2. r \in rows \/ RowsOf(r[2]) # {}
        BY <4>1, BodyRefsTyped
      <4>3. RowsOf(m) # {}
        BY <1>1, <4>2 DEF RowsOf
      <4> QED BY <1>1, <1>2, <4>1, <4>3
    <3> QED BY <2>0, <3>2, <3>3, <3>4, <1>0, Starting DEF Step, Write
  <2>2. CASE job[c].op \in {"upload", "delete"}
    <3>1. m = job[c].media
      BY <1>4, <2>2 DEF Uses
    <3>2. CASE Place(c) \/ PlaceFails(c) \/ DeleteRefused(c) \/ BeginReclaim(c)
               \/ ReclaimRefused(c) \/ ReclaimFails(c) \/ RegisterUnconfirmed(c) \/ Die(c)
      <4>1. rows' = rows /\ files \subseteq files'
        BY <3>2 DEF Place, PlaceFails, DeleteRefused, BeginReclaim, ReclaimRefused,
           ReclaimFails, RegisterUnconfirmed, Die, db
      <4> QED BY <1>0, <4>1 DEF RowsBacked
    <3>3. CASE TryDelete(c) \/ DeleteUnconfirmed(c)
      BY <1>0, <3>3 DEF TryDelete, DeleteUnconfirmed, RowsBacked
    <3>4. CASE Register(c)
      BY <1>0, <3>4 DEF Register, InTransaction, PlacedInv, RowsBacked
    <3>5. CASE MakePublicFails(c) \/ RegisterFails(c) \/ Unlink(c)
      <4>1. rows' = rows
        BY <3>5 DEF MakePublicFails, RegisterFails, Unlink, db
      <4>2. RowsOf(m) # {}
        BY <1>2, <4>1 DEF RowsOf
      <4>3. ~MakePublicFails(c) /\ ~Unlink(c)
        BY <1>0, <1>1, <3>1, <4>2 DEF MakePublicFails, Unlink, PlacedInv, UnlinkInv, Reclaimable
      <4>4. files' = files
        BY <1>0, <1>1, <3>1, <3>5, <4>2, <4>3 DEF RegisterFails, WasCreatedByUpload, PlacedInv
      <4> QED BY <1>0, <4>1, <4>4 DEF RowsBacked
    <3>6. ~Write(c)
      BY <1>0, <2>0, <2>2, Starting DEF Write, CreatePost, UpdatePost, ReplaceBinding,
         WriteFails, InTransaction
    <3> QED BY <2>0, <3>2, <3>3, <3>4, <3>5, <3>6, <1>0, Starting DEF Step, Upload, Delete
  <2> QED BY <2>1, <2>2
<1> QED BY <1>3, <1>4

\* A file without a row or a reference stays in hand or becomes a known leak.
LEMMA AccountedStep ==
  ASSUME NEW S, InvOn(S), NEW c \in Procs, Step(c)
  PROVE  FilesAccounted(S)'
<1>0. /\ Typed /\ LockInv /\ PlacedInv(c, S) /\ UnlinkInv(c) /\ Typed' /\ FilesAccounted(S)
      /\ BindingsOwned /\ [Next]_vars
  BY TypedTask DEF InvOn, Next, Step
<1> SUFFICES ASSUME NEW m \in files' \cap S PROVE (Kept(m) \/ InHand(m) \/ m \in leaked)'
  BY DEF FilesAccounted
<1>1. m \in Media
  BY <1>0 DEF Typed, TypeOK
<1>2. RefsTo(m) # {} => RefsTo(m)' # {}
  BY <1>0, RefsStay
<1>3. ASSUME NEW d \in Procs, d # c, pc[d] \in {"placed", "deleted", "unlinking"},
             job[d].media = m
      PROVE  InHand(m)'
  BY <1>0, <1>3, OthersUntouched DEF Untouched, InHand
\* What goes on when the step itself takes nothing from m.
<1>4. ASSUME m \in files, RowsOf(m) # {} => RowsOf(m)' # {}, m \in leaked => m \in leaked',
             ~(pc[c] \in {"placed", "deleted", "unlinking"} /\ job[c].media = m)
      PROVE  (Kept(m) \/ InHand(m) \/ m \in leaked)'
  <2>1. CASE Kept(m)
    BY <1>2, <1>4, <2>1 DEF Kept
  <2>2. CASE InHand(m)
    BY <1>3, <1>4, <2>2 DEF InHand
  <2>3. CASE m \in leaked
    BY <1>4, <2>3
  <2> QED BY <1>0, <1>4, <2>1, <2>2, <2>3 DEF FilesAccounted
<1>5. CASE m \notin Uses(job[c]) \/ pc[c] \in {"idle", "locking"}
  <2>1. ~(pc[c] \in {"placed", "deleted", "unlinking"} /\ job[c].media = m)
    BY <1>0, <1>5, StepOps DEF Uses
  <2> QED BY <1>0, <1>1, <1>4, <1>5, <2>1, MediaFrame
<1>6. CASE m \in Uses(job[c]) /\ pc[c] \notin {"idle", "locking"}
  <2>0. ~Starts(c) /\ ~AcquireNext(c) /\ ~AcquireNone(c)
    BY <1>6 DEF Starts, Begin, AcquireNext, AcquireNone
  <2>1. CASE Write(c)
    <3>1. files' = files /\ rows \subseteq rows' /\ leaked' = leaked /\ pc[c] = "locked"
      BY <1>0, <2>0, <2>1, Starting DEF Write, CreatePost, UpdatePost, ReplaceBinding,
         WriteFails, InTransaction, db
    <3> QED BY <1>4, <3>1 DEF RowsOf
  <2>2. CASE PlaceFails(c) \/ DeleteRefused(c)
    BY <1>4, <2>2 DEF PlaceFails, DeleteRefused, RowsOf, db
  <2>3. CASE Place(c) \/ TryDelete(c) \/ BeginReclaim(c)
    <3>1. job[c].op \in {"upload", "delete"} /\ job[c].media = m
      BY <1>6, <2>3 DEF Place, TryDelete, BeginReclaim, InTransaction, Uses
    <3>2. pc'[c] \in {"placed", "deleted", "unlinking"}
      BY <1>0, <2>3 DEF Place, TryDelete, BeginReclaim, Typed, TypeOK
    <3>3. job'[c].media = m
      <4>1. CASE Place(c)
        <5>1. job[c] \in [op : {"upload"}, user : Users, media : Media,
                          fresh : BOOLEAN, created : BOOLEAN]
          BY <1>0, <4>1, JobForms DEF Place
        <5> QED BY <1>0, <3>1, <4>1, <5>1 DEF Place, Typed
      <4> QED BY <2>3, <3>1, <4>1 DEF TryDelete, BeginReclaim
    <3> QED BY <3>2, <3>3 DEF InHand
  <2>4. ASSUME pc[c] \in {"placed", "deleted", "unlinking"} \/ job[c].op = "delete"
        PROVE  job[c].media = m
    BY <1>0, <1>6, <2>4, StepOps DEF Uses
  <2>5. CASE MakePublicFails(c) \/ Unlink(c)
    BY <2>4, <2>5 DEF MakePublicFails, Unlink, RemoveTarget
  <2>6. CASE RegisterFails(c)
    <3>1. CASE job[c].created
      BY <2>4, <2>6, <3>1 DEF RegisterFails, WasCreatedByUpload, RemoveTarget
    <3>2. CASE ~job[c].created
      <4>1. (Kept(m) \/ m \in leaked) /\ UNCHANGED <<rows, leaked>>
        BY <1>0, <2>4, <2>6, <3>2 DEF RegisterFails, WasCreatedByUpload, PlacedInv, db
      <4> QED BY <1>2, <4>1 DEF Kept, RowsOf
    <3> QED BY <3>1, <3>2
  <2>7. CASE Register(c)
    <3>1. job[c].media = m /\ <<job[c].user, m>> \in rows'
      BY <2>4, <2>7 DEF Register, InTransaction
    <3>2. RowsOf(m)' # {}
      BY <3>1 DEF RowsOf
    <3> QED BY <3>2 DEF Kept
  <2>8. CASE RegisterUnconfirmed(c) \/ DeleteUnconfirmed(c) \/ ReclaimFails(c)
    BY <2>4, <2>8 DEF RegisterUnconfirmed, DeleteUnconfirmed, ReclaimFails, InTransaction
  <2>9. CASE ReclaimRefused(c)
    <3>1. /\ ~Reclaimable(job[c]) /\ job[c].media = m /\ UNCHANGED <<rows, refs>>
      BY <2>4, <2>9 DEF ReclaimRefused, InTransaction, db
    <3>2. ASSUME BoundBy(m, Users) PROVE RowsOf(m) # {}
      <4>1. PICK b \in bindings : b[2] = m
        BY <3>2 DEF BoundBy
      <4>2. <<Owner[b[1]], m>> \in rows
        BY <1>0, <4>1 DEF BindingsOwned
      <4> QED BY <4>2 DEF RowsOf
    <3>3. Kept(m)
      BY <3>1, <3>2 DEF Reclaimable, Kept
    <3> QED BY <3>1, <3>3 DEF Kept, RowsOf, RefsTo
  <2>10. CASE Die(c)
    <3>1. CASE pc[c] \in {"placed", "deleted", "unlinking"}
      BY <2>4, <2>10, <3>1 DEF Die
    <3>2. CASE pc[c] \notin {"placed", "deleted", "unlinking"}
      BY <1>4, <2>10, <3>2 DEF Die, RowsOf, db
    <3> QED BY <3>1, <3>2
  <2> QED BY <1>0, <2>0, <2>1, <2>2, <2>3, <2>5, <2>6, <2>7, <2>8, <2>9, <2>10, Starting
      DEF Step, Upload, Delete
<1> QED BY <1>5, <1>6

\* A binding keeps its owner's row: the row of a bound media is not deleted.
LEMMA BindingsStep ==
  ASSUME NEW S, InvOn(S), NEW c \in Procs, Step(c)
  PROVE  BindingsOwned'
<1>0. Typed /\ LockInv /\ BindingsOwned
  BY DEF InvOn
<1>1. CASE bindings' = bindings /\ rows \subseteq rows'
  BY <1>0, <1>1 DEF BindingsOwned
<1>2. CASE ReplaceBinding(c)
  <2>1. /\ bindings' = {b \in bindings : b[1] # job[c].theme}
                       \cup {<<job[c].theme, m>> : m \in job[c].new}
        /\ \A m \in job[c].new : <<Owner[job[c].theme], m>> \in rows
        /\ rows' = rows
    BY <1>2 DEF ReplaceBinding
  <2> QED BY <1>0, <2>1 DEF BindingsOwned
<1>3. CASE TryDelete(c) \/ DeleteUnconfirmed(c)
  <2>1. /\ bindings' = bindings /\ rows' = rows \ {<<job[c].user, job[c].media>>}
        /\ ~BoundBy(job[c].media, {job[c].user})
    BY <1>3 DEF TryDelete, DeleteUnconfirmed, Deletable
  <2> QED BY <1>0, <2>1 DEF BindingsOwned, BoundBy
<1>4. CASE Starts(c) \/ AcquireNext(c) \/ AcquireNone(c) \/ Die(c)
  BY <1>1, <1>4 DEF Starts, Begin, AcquireNext, AcquireNone, Die, db
<1>5. CASE Upload(c)
  BY <1>0, <1>1, <1>4, <1>5, Starting DEF Upload, Place, PlaceFails, MakePublicFails, Register,
     RegisterUnconfirmed, RegisterFails, db
<1>6. CASE Delete(c)
  BY <1>0, <1>1, <1>3, <1>4, <1>6, Starting DEF Delete, DeleteRefused, BeginReclaim,
     ReclaimRefused, ReclaimFails, Unlink, db
<1>7. CASE Write(c)
  BY <1>0, <1>1, <1>2, <1>4, <1>7, Starting DEF Write, CreatePost, UpdatePost, WriteFails, db
<1> QED BY <1>4, <1>5, <1>6, <1>7 DEF Step

-----------------------------------------------------------------------------
(* The theorems.                                                           *)

\* The inductive invariant holds at the start.
LEMMA InvInit ==
  ASSUME NEW S, Init
  PROVE  InvOn(S)
<1>1. Typed
  BY MediaAssumption DEF Init, Typed, TypeOK, Jobs, StepOf
<1>2. LockInv
  <2>1. Needs(IdleJob) = {}
    BY DEF Needs, Uses, IdleJob
  <2> QED BY <2>1, MediaAssumption DEF Init, LockInv, Locked, Holds
<1> QED BY <1>1, <1>2 DEF Init, InvOn, PlacedInv, UnlinkInv, RowsBacked, BindingsOwned,
           FilesAccounted

\* Every step preserves the inductive invariant.
LEMMA InvStep ==
  ASSUME NEW S, InvOn(S), [Next]_vars
  PROVE  InvOn(S)'
<1>1. Typed' /\ LockInv'
  BY TypedStep, LockStep DEF InvOn
<1>2. ASSUME NEW c \in Procs, Step(c) PROVE InvOn(S)'
  <2>1. \A d \in Procs : PlacedInv(d, S)' /\ UnlinkInv(d)'
    BY <1>2, OwnTask, OtherTasks
  <2> QED BY <1>1, <1>2, <2>1, RowsStep, AccountedStep, BindingsStep DEF InvOn
<1>3. ASSUME UNCHANGED <<files, rows, bindings, contentLock, writer, pc, job, todo, leaked>>,
             refs \subseteq refs', refs' = refs \/ writer = NoProc
      PROVE  InvOn(S)'
  <2>1. \A m : /\ RowsOf(m)' = RowsOf(m) /\ RefsTo(m) \subseteq RefsTo(m)'
               /\ InHand(m)' = InHand(m)
    BY <1>3 DEF RowsOf, RefsTo, InHand
  <2>2. ASSUME NEW d \in Procs PROVE PlacedInv(d, S)'
    <3>1. /\ RowsOf(job[d].media)' = RowsOf(job[d].media)
          /\ RefsTo(job[d].media) \subseteq RefsTo(job[d].media)'
      BY <1>3 DEF RowsOf, RefsTo
    <3> QED BY <1>3, <3>1 DEF InvOn, PlacedInv, Kept
  <2>3. ASSUME NEW d \in Procs PROVE UnlinkInv(d)'
    <3> SUFFICES ASSUME pc[d] = "unlinking" PROVE Reclaimable(job[d])'
      BY <1>3 DEF UnlinkInv
    <3>1. writer = d /\ writer # NoProc
      BY MediaAssumption DEF InvOn, LockInv, Locked
    <3>2. refs' = refs
      BY <1>3, <3>1
    <3> QED BY <1>3, <3>2 DEF InvOn, UnlinkInv, Reclaimable, RowsOf, RefsTo, BoundBy, Live
  <2>4. FilesAccounted(S)'
    <3> SUFFICES ASSUME NEW m \in files \cap S PROVE (Kept(m) \/ InHand(m) \/ m \in leaked)'
      BY <1>3 DEF FilesAccounted
    <3> QED BY <1>3, <2>1 DEF InvOn, FilesAccounted, Kept
  <2>5. RowsBacked(S)' /\ BindingsOwned'
    BY <1>3 DEF InvOn, RowsBacked, BindingsOwned
  <2> QED BY <1>1, <2>2, <2>3, <2>4, <2>5 DEF InvOn
<1>4. ASSUME NEW p \in Posts, Lifecycle(p) PROVE InvOn(S)'
  BY <1>3, <1>4 DEF Lifecycle, task
<1>5. CASE UNCHANGED vars
  BY <1>3, <1>5 DEF vars, db, task
<1> QED BY <1>2, <1>4, <1>5 DEF Next, Step

\* The inductive invariant holds in every state of the media store.
THEOREM Invariance == Spec => []IInv
<1>1. Init => IInv
  BY InvInit DEF IInv
<1>2. IInv /\ [Next]_vars => IInv'
  BY InvStep DEF IInv
<1> QED BY <1>1, <1>2, PTL DEF Spec

\* The tables, locks and steps keep their shape.
THEOREM TypeCorrect == Spec => []TypeOK
<1>1. IInv => TypeOK
  BY DEF IInv, InvOn, Typed
<1> QED BY <1>1, Invariance, PTL

\* Every media row names an existing file, for any number of tasks, users,
\* media, Posts and themes (place_and_register, delete_media).
THEOREM RowsHaveFiles == Spec => []RowHasFile
<1>1. IInv => RowHasFile
  BY DEF IInv, InvOn, RowsBacked, RowHasFile, Typed, TypeOK
<1> QED BY <1>1, Invariance, PTL

\* A file nothing names is in the hands of a task or left over from a fault
\* (was_created_by_upload, the reclaim of delete_media).
THEOREM UnnamedFilesKnown == Spec => []UnnamedFilesAreLeaks
<1>1. IInv => UnnamedFilesAreLeaks
  BY DEF IInv, InvOn, Typed, TypeOK, FilesAccounted, UnnamedFilesAreLeaks, Kept, Named
<1> QED BY <1>1, Invariance, PTL

\* No set of tasks, of whatever size, waits for locks held inside the set
\* (MediaContentLocks::acquire).
THEOREM LocksNeverCycle == Spec => []NoWaitCycle
<1>1. IInv => NoWaitCycle
  BY NoCycle DEF IInv, InvOn
<1> QED BY <1>1, Invariance, PTL

\* A step that takes a file away.
LEMMA FileGone ==
  ASSUME IInv, [Next]_vars, NEW m \in files \ files'
  PROVE  \/ ~Named(m)
         \/ \E c \in Procs : pc[c] = "placed" /\ job[c].media = m /\ job[c].created
<1>0. Typed /\ LockInv
  BY DEF IInv, InvOn
<1>1. PICK c \in Procs : Step(c)
  BY DEF Next, Step, Lifecycle, vars
<1>2. MakePublicFails(c) \/ RegisterFails(c) \/ Unlink(c)
  <2>1. files \subseteq files' \/ MakePublicFails(c) \/ RegisterFails(c) \/ Unlink(c)
    <3>1. CASE Starts(c) \/ AcquireNext(c) \/ AcquireNone(c) \/ Die(c)
      BY <3>1 DEF Starts, Begin, AcquireNext, AcquireNone, Die
    <3>2. CASE Upload(c)
      BY <1>0, <3>1, <3>2, Starting DEF Upload, Place, PlaceFails, Register, RegisterUnconfirmed
    <3>3. CASE Delete(c)
      BY <1>0, <3>1, <3>3, Starting DEF Delete, TryDelete, DeleteRefused, DeleteUnconfirmed,
         BeginReclaim, ReclaimRefused, ReclaimFails
    <3>4. CASE Write(c)
      BY <1>0, <3>1, <3>4, Starting DEF Write, CreatePost, UpdatePost, ReplaceBinding, WriteFails
    <3> QED BY <1>1, <3>1, <3>2, <3>3, <3>4 DEF Step
  <2> QED BY <2>1
<1>3. CASE MakePublicFails(c)
  <2>1. job[c].media \in Media
    BY <1>0, <1>3, StepOps, OwnMedia DEF MakePublicFails
  <2> QED BY <1>3, <2>1 DEF MakePublicFails, RemoveTarget, IInv, InvOn, PlacedInv
<1>4. CASE RegisterFails(c)
  BY <1>4 DEF RegisterFails, RemoveTarget, WasCreatedByUpload
<1>5. CASE Unlink(c)
  <2>1. pc[c] = "unlinking" /\ job[c].op = "delete" /\ job[c].media = m
    BY <1>0, <1>5, StepOps DEF Unlink, RemoveTarget
  <2>2. Reclaimable(job[c])
    BY <2>1 DEF IInv, InvOn, UnlinkInv
  <2>3. \A r \in job[c].evidence : r.form = "foreign"
    BY <1>0, <2>1, JobForms
  <2> QED BY <2>1, <2>2, <2>3 DEF Reclaimable, Named, Live
<1> QED BY <1>2, <1>3, <1>4, <1>5

\* A file goes only when nothing names it or its own upload takes it back
\* (remove_media_file, create_target_cleanup).
THEOREM NamedFilesAreKept == Spec => NamedFilesStay
<1>1. IInv /\ [Next]_vars =>
        [\A m \in files \ files' :
           \/ ~Named(m)
           \/ \E c \in Procs : pc[c] = "placed" /\ job[c].media = m /\ job[c].created]_vars
  BY FileGone
<1> QED BY <1>1, Invariance, PTL DEF Spec, NamedFilesStay
===============================================================================
