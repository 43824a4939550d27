---------------------------- MODULE MediaManager ----------------------------
(***************************************************************************)
(* The media store of jaunder: content-addressed files on disk, one media  *)
(* row per user and file, and three kinds of writers that may name a file. *)
(*                                                                         *)
(*   - uploads place a file and then register a row for it                 *)
(*     (storage/src/media_manager.rs);                                     *)
(*   - deletions remove a row and, in a second transaction, unlink the     *)
(*     file when nothing names it any more (media.rs, sqlite/media.rs);    *)
(*   - Post writes store references to media, keep them in revisions, and  *)
(*     materialize the author's own row (post_service.rs, posts/);         *)
(*   - theme edits bind media to a theme (theme_manager.rs).               *)
(*                                                                         *)
(* No transaction spans the file system and the database.  Two locks keep  *)
(* them together: the operating-system lock of a content hash              *)
(* (media_content_locks.rs), held across placement or unlink, and the      *)
(* SQLite writer, which BEGIN IMMEDIATE gives to one transaction.  A       *)
(* transaction is one step here, except the reclaim, whose transaction is  *)
(* open while the file is unlinked.  Any holder may die at any point.      *)
(***************************************************************************)
EXTENDS Integers, FiniteSets

CONSTANTS
    Procs,         \* tasks that run an operation, in one or several processes
    Users,
    Media,         \* (hash, filename) pairs, the identity MediaRef
    HashOf,        \* the content hash of a media; hashes are ordered
    Posts, Author, \* Author[p]: the user who writes Post p
    Themes, Owner, \* Owner[t]: the user who edits theme t
    Uploads,       \* <<user, media>>: the uploads users attempt
    Bodies,        \* what a Post body may refer to: sets of references
    Quota,         \* uploads a user may own (every upload has size one)
    MaxRevisions   \* bound on the revisions of a Post

NoProc == "nobody"

ASSUME MediaAssumption ==
    /\ IsFiniteSet(Procs) /\ NoProc \notin Procs
    /\ HashOf \in [Media -> Nat]
    /\ Author \in [Posts -> Users]
    /\ Owner \in [Themes -> Users]
    /\ Uploads \subseteq Users \X Media
    /\ Bodies \subseteq SUBSET [media : Media, form : {"local", "foreign"}]
    /\ Quota \in Nat /\ MaxRevisions \in Nat

VARIABLES
    files,        \* media whose file exists
    rows,         \* table media: <<user, media>>
    refs,         \* table post_media: current references and revisions
    posts,        \* state and number of revisions of each Post
    bindings,     \* table theme_role_bindings: <<theme, media>>
    contentLock,  \* the holder of each hash's lock file
    writer,       \* the open reclaim transaction
    pc, job, todo,\* per task: step, operation, hashes still to lock
    leaked        \* history: media whose file a fault may have left behind

db == <<rows, refs, posts, bindings>>
task == <<pc, job, todo>>
vars == <<files, db, contentLock, writer, task, leaked>>

Hashes == {HashOf[m] : m \in Media}
IdleJob == [op |-> "none"]

-----------------------------------------------------------------------------
(* The rows that protect a file.                                           *)

RowsOf(m) == {r \in rows : r[2] = m}
RefsTo(m) == {r \in refs : r.media = m}
BoundBy(m, who) == \E b \in bindings : b[2] = m /\ Owner[b[1]] \in who

\* Mutant: evidence about any reference of the Post is taken for this one.
LiveByPost(r, evidence) == ~\E e \in evidence : e.post = r.post

\* A reference is live unless the evidence proves this exact row foreign.
Live(r, evidence) == r \notin evidence

\* GUARDED deletion respects the owner's own references, FORCED does not;
\* both respect the other owners' unless another user's row accounts for them.
Deletable(j) ==
    LET live == {r \in RefsTo(j.media) : Live(r, j.evidence)} IN
    /\ <<j.user, j.media>> \in rows
    /\ j.force \/ ~\E r \in live : Author[r.post] = j.user
    /\ ~BoundBy(j.media, {j.user})
    /\ \/ /\ ~\E r \in live : Author[r.post] # j.user
          /\ ~BoundBy(j.media, Users \ {j.user})
       \/ \E r \in RowsOf(j.media) : r[1] # j.user

\* Nothing on the site can name the file.
Reclaimable(j) ==
    /\ RowsOf(j.media) = {}
    /\ ~\E r \in RefsTo(j.media) : Live(r, j.evidence)
    /\ ~BoundBy(j.media, Users)

-----------------------------------------------------------------------------
(* Locks and the life of a task.                                           *)

Holds(c, h) == contentLock[h] = c

\* The operation of c ends: its guards are dropped.
Finish(c) ==
    /\ pc' = [pc EXCEPT ![c] = "idle"]
    /\ job' = [job EXCEPT ![c] = IdleJob]
    /\ todo' = [todo EXCEPT ![c] = {}]
    /\ contentLock' = [h \in Hashes |-> IF Holds(c, h) THEN NoProc ELSE contentLock[h]]
    /\ writer' = IF writer = c THEN NoProc ELSE writer

Begin(c, j, hashes) ==
    /\ pc[c] = "idle"
    /\ pc' = [pc EXCEPT ![c] = "locking"]
    /\ job' = [job EXCEPT ![c] = j]
    /\ todo' = [todo EXCEPT ![c] = hashes]
    /\ UNCHANGED <<files, db, contentLock, writer, leaked>>

\* Mutant: the lock files are taken in the order of the body.
AnyHash(c) == todo[c]

\* The lock files are taken one by one in the order of the hashes.
NextHash(c) == {h \in todo[c] : \A g \in todo[c] : h <= g}

AcquireNext(c) ==
    /\ pc[c] = "locking"
    /\ \E h \in NextHash(c) :
        /\ contentLock[h] = NoProc
        /\ contentLock' = [contentLock EXCEPT ![h] = c]
        /\ todo' = [todo EXCEPT ![c] = @ \ {h}]
        /\ pc' = [pc EXCEPT ![c] = IF todo[c] = {h} THEN "locked" ELSE "locking"]
    /\ UNCHANGED <<files, db, writer, job, leaked>>

\* Nothing to lock: a Post without media, a theme without bindings.
AcquireNone(c) ==
    /\ pc[c] = "locking" /\ todo[c] = {}
    /\ pc' = [pc EXCEPT ![c] = "locked"]
    /\ UNCHANGED <<files, db, contentLock, writer, job, todo, leaked>>

\* c waits at op with its locks, and no transaction is open elsewhere.
InTransaction(c, step, op) == pc[c] = step /\ job[c].op = op /\ writer = NoProc

-----------------------------------------------------------------------------
(* Upload.  check_quota reads the usage before any lock is held.           *)

UploadUsage(u) == Cardinality({r \in rows : r[1] = u})

StartUpload(c, u, m) ==
    /\ UploadUsage(u) + 1 <= Quota
    /\ Begin(c, [op |-> "upload", user |-> u, media |-> m,
                 fresh |-> FALSE, created |-> FALSE], {HashOf[m]})

\* An existing target is adopted; otherwise the upload creates it, as a hard
\* link to another name of the same content or by renaming its own bytes.
Place(c) ==
    LET m == job[c].media
        sameHash == {f \in files : HashOf[f] = HashOf[m]} IN
    /\ pc[c] = "locked" /\ job[c].op = "upload"
    /\ files' = files \cup {m}
    /\ job' = [job EXCEPT ![c].created = m \notin files, ![c].fresh = sameHash = {}]
    /\ pc' = [pc EXCEPT ![c] = "placed"]
    /\ UNCHANGED <<db, contentLock, writer, todo, leaked>>

PlaceFails(c) ==
    /\ pc[c] = "locked" /\ job[c].op = "upload"
    /\ Finish(c)
    /\ UNCHANGED <<files, db, leaked>>

\* Mutants: an adopted target is taken back too; a hard link is not.
EveryTarget(j) == TRUE
FreshTargetOnly(j) == j.fresh

WasCreatedByUpload(j) == j.created

\* Best-effort removal of a target, reported and swallowed when it fails.
RemoveTarget(m) ==
    \/ files' = files \ {m} /\ leaked' = leaked \ {m}
    \/ leaked' = leaked \cup {m} /\ UNCHANGED files

\* set_permissions applies to a fresh rename only.
MakePublicFails(c) ==
    /\ pc[c] = "placed" /\ job[c].fresh
    /\ RemoveTarget(job[c].media)
    /\ Finish(c)
    /\ UNCHANGED db

\* create_media commits, acknowledged or not; an existing row is success.
Register(c) ==
    /\ InTransaction(c, "placed", "upload")
    /\ rows' = rows \cup {<<job[c].user, job[c].media>>}
    /\ leaked' = leaked \ {job[c].media}
    /\ Finish(c)
    /\ UNCHANGED <<files, refs, posts, bindings>>

\* The commit is lost and its outcome unknown: the file has to stay.
RegisterUnconfirmed(c) ==
    /\ InTransaction(c, "placed", "upload")
    /\ leaked' = leaked \cup {job[c].media}
    /\ Finish(c)
    /\ UNCHANGED <<files, db>>

\* The transaction did not begin or was rolled back.
RegisterFails(c) ==
    /\ pc[c] = "placed"
    /\ IF WasCreatedByUpload(job[c])
         THEN RemoveTarget(job[c].media)
         ELSE UNCHANGED <<files, leaked>>
    /\ Finish(c)
    /\ UNCHANGED db

-----------------------------------------------------------------------------
(* Deletion.  The references and the evidence that some of them are        *)
(* foreign are read before the lock; a reference the resolver cannot       *)
(* classify is not in the evidence.                                        *)

StartDelete(c, u, m, force) ==
    \E evidence \in SUBSET {r \in RefsTo(m) : r.form = "foreign"} :
        Begin(c, [op |-> "delete", user |-> u, media |-> m,
                  force |-> force, evidence |-> evidence], {HashOf[m]})

TryDelete(c) ==
    /\ InTransaction(c, "locked", "delete")
    /\ Deletable(job[c])
    /\ rows' = rows \ {<<job[c].user, job[c].media>>}
    /\ pc' = [pc EXCEPT ![c] = "deleted"]
    /\ UNCHANGED <<files, refs, posts, bindings, contentLock, writer, job, todo, leaked>>

\* Missing, OwnerRetainedHistory, GlobalSafety, or a failed transaction.
DeleteRefused(c) ==
    /\ pc[c] = "locked" /\ job[c].op = "delete"
    /\ Finish(c)
    /\ UNCHANGED <<files, db, leaked>>

\* The row is gone but nobody was told: no reclaim follows.
DeleteUnconfirmed(c) ==
    /\ InTransaction(c, "locked", "delete")
    /\ Deletable(job[c])
    /\ rows' = rows \ {<<job[c].user, job[c].media>>}
    /\ leaked' = leaked \cup {job[c].media}
    /\ Finish(c)
    /\ UNCHANGED <<files, refs, posts, bindings>>

\* reclaim_guard: the transaction stays open while the file is unlinked.
BeginReclaim(c) ==
    /\ InTransaction(c, "deleted", "delete")
    /\ Reclaimable(job[c])
    /\ writer' = c
    /\ pc' = [pc EXCEPT ![c] = "unlinking"]
    /\ UNCHANGED <<files, db, contentLock, job, todo, leaked>>

ReclaimRefused(c) ==
    /\ InTransaction(c, "deleted", "delete")
    /\ ~Reclaimable(job[c])
    /\ Finish(c)
    /\ UNCHANGED <<files, db, leaked>>

ReclaimFails(c) ==
    /\ pc[c] = "deleted"
    /\ leaked' = leaked \cup {job[c].media}
    /\ Finish(c)
    /\ UNCHANGED <<files, db>>

Unlink(c) ==
    /\ pc[c] = "unlinking"
    /\ RemoveTarget(job[c].media)
    /\ Finish(c)
    /\ UNCHANGED db

-----------------------------------------------------------------------------
(* Post writes.  The references of the new body are resolved, then their   *)
(* hashes are locked; the old body's are not.                              *)

CurrentRefs(p) == {r \in refs : r.post = p /\ r.revision = 0}

\* capture_complete_post_revision: the current references are copied.
Captured(p) == {[r EXCEPT !.revision = posts[p].revisions + 1] : r \in CurrentRefs(p)}

StartPost(c, p, body) ==
    Begin(c, [op |-> "post", post |-> p, body |-> body],
          {HashOf[r.media] : r \in body})

\* The author's rows for proven-local media, copied from any user's row.
Materialized(p, body) ==
    {<<Author[p], r.media>> : r \in {x \in body : x.form = "local" /\ RowsOf(x.media) # {}}}

BodyRefs(p, body) ==
    {[post |-> p, revision |-> 0, media |-> r.media, form |-> r.form] : r \in body}

CreatePost(c) ==
    LET p == job[c].post IN
    /\ InTransaction(c, "locked", "post")
    /\ posts[p].state = "absent"
    /\ posts' = [posts EXCEPT ![p].state = "live"]
    /\ refs' = refs \cup BodyRefs(p, job[c].body)
    /\ rows' = rows \cup Materialized(p, job[c].body)
    /\ Finish(c)
    /\ UNCHANGED <<files, bindings, leaked>>

UpdatePost(c) ==
    LET p == job[c].post IN
    /\ InTransaction(c, "locked", "post")
    /\ posts[p].state = "live" /\ posts[p].revisions < MaxRevisions
    /\ posts' = [posts EXCEPT ![p].revisions = @ + 1]
    /\ refs' = (refs \ CurrentRefs(p)) \cup Captured(p) \cup BodyRefs(p, job[c].body)
    /\ rows' = rows \cup Materialized(p, job[c].body)
    /\ Finish(c)
    /\ UNCHANGED <<files, bindings, leaked>>

\* publish, unpublish and soft deletion capture a revision; they take no
\* content lock, and a deleted Post keeps its references.
Lifecycle(p) ==
    /\ writer = NoProc
    /\ posts[p].state = "live" /\ posts[p].revisions < MaxRevisions
    /\ \E state \in {"live", "deleted"} :
        posts' = [posts EXCEPT ![p] = [state |-> state, revisions |-> @.revisions + 1]]
    /\ refs' = refs \cup Captured(p)
    /\ UNCHANGED <<files, rows, bindings, contentLock, writer, task, leaked>>

-----------------------------------------------------------------------------
(* Theme edits.  The hashes of the bindings read before the locks and of   *)
(* the new one are locked; the transaction checks the read again.          *)

MediaOf(t) == {b[2] : b \in {x \in bindings : x[1] = t}}

StartBind(c, t, new) ==
    Begin(c, [op |-> "bind", theme |-> t, new |-> new, snapshot |-> MediaOf(t)],
          {HashOf[m] : m \in MediaOf(t) \cup new})

\* replace_role with a media or with none; remove_theme is the latter.
ReplaceBinding(c) ==
    LET t == job[c].theme IN
    /\ InTransaction(c, "locked", "bind")
    /\ MediaOf(t) = job[c].snapshot
    /\ \A m \in job[c].new : <<Owner[t], m>> \in rows
    /\ bindings' = {b \in bindings : b[1] # t} \cup {<<t, m>> : m \in job[c].new}
    /\ Finish(c)
    /\ UNCHANGED <<files, rows, refs, posts, leaked>>

\* A refused or failed Post write or theme edit changes nothing.
WriteFails(c) ==
    /\ pc[c] = "locked" /\ job[c].op \in {"post", "bind"}
    /\ Finish(c)
    /\ UNCHANGED <<files, db, leaked>>

-----------------------------------------------------------------------------
\* The process of c dies, or the request future of a deletion or a write is
\* dropped between two steps: the locks are released, the open transaction is
\* rolled back, and files placed or still to be unlinked stay.
Die(c) ==
    /\ pc[c] # "idle"
    /\ leaked' = IF pc[c] \in {"placed", "deleted", "unlinking"}
                   THEN leaked \cup {job[c].media} ELSE leaked
    /\ Finish(c)
    /\ UNCHANGED <<files, db>>

Init ==
    /\ files = {} /\ rows = {} /\ refs = {} /\ bindings = {} /\ leaked = {}
    /\ posts = [p \in Posts |-> [state |-> "absent", revisions |-> 0]]
    /\ contentLock = [h \in Hashes |-> NoProc]
    /\ writer = NoProc
    /\ pc = [c \in Procs |-> "idle"]
    /\ job = [c \in Procs |-> IdleJob]
    /\ todo = [c \in Procs |-> {}]

Upload(c) ==
    \/ \E up \in Uploads : StartUpload(c, up[1], up[2])
    \/ Place(c) \/ PlaceFails(c) \/ MakePublicFails(c)
    \/ Register(c) \/ RegisterUnconfirmed(c) \/ RegisterFails(c)

Delete(c) ==
    \/ \E u \in Users, m \in Media, force \in BOOLEAN : StartDelete(c, u, m, force)
    \/ TryDelete(c) \/ DeleteRefused(c) \/ DeleteUnconfirmed(c)
    \/ BeginReclaim(c) \/ ReclaimRefused(c) \/ ReclaimFails(c) \/ Unlink(c)

Write(c) ==
    \/ \E p \in Posts, body \in Bodies : StartPost(c, p, body)
    \/ CreatePost(c) \/ UpdatePost(c)
    \/ \E t \in Themes, new \in {{}} \cup {{m} : m \in Media} : StartBind(c, t, new)
    \/ ReplaceBinding(c) \/ WriteFails(c)

Next ==
    \/ \E c \in Procs : Upload(c) \/ Delete(c) \/ Write(c) \/ AcquireNext(c) \/ AcquireNone(c) \/ Die(c)
    \/ \E p \in Posts : Lifecycle(p)

Spec == Init /\ [][Next]_vars

-----------------------------------------------------------------------------
(* Properties.                                                             *)

\* The shape of the state: tables, locks and the steps of the tasks.
TypeOK ==
    /\ files \subseteq Media /\ leaked \subseteq Media
    /\ rows \subseteq Users \X Media
    /\ refs \subseteq [post : Posts, revision : 0 .. MaxRevisions,
                      media : Media, form : {"local", "foreign"}]
    /\ posts \in [Posts -> [state : {"absent", "live", "deleted"},
                            revisions : 0 .. MaxRevisions]]
    /\ bindings \subseteq Themes \X Media
    /\ contentLock \in [Hashes -> Procs \cup {NoProc}]
    /\ writer \in Procs \cup {NoProc}
    /\ pc \in [Procs -> {"idle", "locking", "locked", "placed", "deleted", "unlinking"}]
    /\ todo \in [Procs -> SUBSET Hashes]

\* Every media row names an existing file, whatever the interleaving of
\* uploads, deletions, materializations, deaths and lost commits
\* (place_and_register, delete_media).
RowHasFile == \A r \in rows : r[2] \in files

Named(m) ==
    RowsOf(m) # {} \/ BoundBy(m, Users) \/ \E r \in RefsTo(m) : r.form = "local"

\* A file disappears only when no row, no binding and no local reference of
\* a Post or of its revisions names it, or when the upload that created it
\* takes it back (remove_media_file, create_target_cleanup).
NamedFilesStay ==
    [][\A m \in files \ files' :
         \/ ~Named(m)
         \/ \E c \in Procs : pc[c] = "placed" /\ job[c].media = m /\ job[c].created]_vars

InHand(m) == \E c \in Procs : pc[c] \in {"placed", "deleted", "unlinking"} /\ job[c].media = m

\* A file that nothing names is left over from a death, an unacknowledged
\* commit or a failed removal; a failed upload or a deletion that worked
\* leaves none (was_created_by_upload, the reclaim of delete_media).
UnnamedFilesAreLeaks ==
    \A m \in files : Named(m) \/ RefsTo(m) # {} \/ InHand(m) \/ m \in leaked

Waits(c, d) == pc[c] = "locking" /\ \E h \in NextHash(c) : contentLock[h] = d

\* No set of tasks waits for locks held inside the set: the lock files are
\* taken in one order by every writer (MediaContentLocks::acquire).
NoWaitCycle ==
    ~\E S \in SUBSET Procs : S # {} /\ \A c \in S : \E d \in S : Waits(c, d)
=============================================================================
