------------------------------- MODULE GoLive -------------------------------
(***************************************************************************)
(* Scheduled publishing: how a post whose published_at lies in the future  *)
(* reaches the cached feeds although nothing is written when its time      *)
(* comes, and how every other post change reaches them.                    *)
(*                                                                         *)
(*   storage/src/post_service.rs, storage/src/posts/lifecycle.rs           *)
(*                          post changes and the feed events they earn     *)
(*   storage/src/posts/syndication.rs   the two go-live queries            *)
(*   server/src/feed/worker.rs          go_live_pass                       *)
(*   server/src/feed/regenerate.rs      what a rendered feed contains      *)
(*                                                                         *)
(* Time is a number.  A request reads the clock once, when it starts, and  *)
(* commits later; MaxRequestDelay bounds how much later.  A pass reads the *)
(* clock, then waits for the last_tick mutex, reads the posts, and         *)
(* enqueues in chunks; ticks, and so passes, may overlap.  Rendering and   *)
(* committing a feed is one step here: Publisher and FeedWorker have it in *)
(* detail.  A queued feed stands for its row of feed_events.               *)
(***************************************************************************)
EXTENDS Naturals

CONSTANTS
    Posts,            \* posts that may be created
    Tags, NoTag,      \* the tag a post carries, or none
    Site,             \* the site feed
    Requests,         \* concurrent author requests
    Passes,           \* concurrent worker ticks
    Draft,            \* published_at of a draft
    Keep,             \* PublishUpdate::Publish { at: None }
    None,             \* absent post, request, cached row or last_tick
    MaxTime,          \* bound on the clock
    MaxRequestDelay,  \* bound on the time between a request's clock and commit
    MaxChanges,       \* bound on author requests
    MaxFailures       \* bound on failed enqueues, restarts and invalidations

Times == 0..MaxTime

ASSUME GoLiveAssumption ==
    /\ MaxTime \in Nat
    /\ MaxRequestDelay \in Nat
    /\ MaxChanges \in Nat
    /\ MaxFailures \in Nat
    /\ Draft \notin Times
    /\ Keep \notin Times \cup {Draft}
    /\ None \notin Times
    /\ NoTag \notin Tags
    /\ Site \notin Tags

Feeds == {Site} \cup Tags

(* A post row: version is mutation_version.                                *)
PostRows ==
    [at: Times \cup {Draft}, public: BOOLEAN, tag: Tags \cup {NoTag},
     deleted: BOOLEAN, version: Nat]

ASSUME PostsAssumption == None \notin PostRows

(* What a request asks for; at is the requested publication time.          *)
Changes ==
    [op: {"create", "update"}, post: Posts, at: Times \cup {Draft, Keep},
     public: BOOLEAN, tag: Tags \cup {NoTag}]
      \cup [op: {"publish", "unpublish", "delete"}, post: Posts]

CachedRows == [generated_at: Times, items: SUBSET (Posts \X Nat)]

VARIABLES
    now,        \* the clock
    post,       \* posts: the table
    request,    \* request -> its change and its clock, or None
    cached,     \* feed_cache: feed -> row or None
    queued,     \* feeds with a feed event that is not done
    last_tick,  \* FeedWorker.last_tick, lost on restart
    pass,       \* pass -> where it is, its clock, the feeds still to enqueue
    changes,    \* author requests so far
    failures    \* failures so far

vars == <<now, post, request, cached, queued, last_tick, pass, changes, failures>>

PassStates == {"idle", "waiting", "enqueueing"}

TypeOK ==
    /\ now \in Times
    /\ post \in [Posts -> PostRows \cup {None}]
    /\ \A r \in Requests :
          request[r] = None \/ (request[r].clock \in Times /\ request[r].change \in Changes)
    /\ cached \in [Feeds -> CachedRows \cup {None}]
    /\ queued \subseteq Feeds
    /\ last_tick \in Times \cup {None}
    /\ pass \in [Passes -> [state: PassStates, clock: Times, feeds: SUBSET Feeds]]
    /\ changes \in Nat
    /\ failures \in Nat

IdlePass == [state |-> "idle", clock |-> 0, feeds |-> {}]

Init ==
    /\ now = 0
    /\ post = [p \in Posts |-> None]
    /\ request = [r \in Requests |-> None]
    /\ cached = [f \in Feeds |-> None]
    /\ queued = {}
    /\ last_tick = None
    /\ pass = [k \in Passes |-> IdlePass]
    /\ changes = 0
    /\ failures = 0

Failure == failures < MaxFailures /\ failures' = failures + 1

------------------------------------------------------------------------------
(* Visibility.                                                             *)

(* is_currently_public, and the time gate of every public query.           *)
IsCurrentlyPublic(row, t) ==
    /\ row # None
    /\ row.public
    /\ ~row.deleted
    /\ row.at # Draft
    /\ row.at <= t

(* affected_feed_urls: the site feed and the feed of the tag.              *)
AffectedFeeds(row) == IF row = None THEN {} ELSE {Site} \cup ({row.tag} \cap Tags)

(* Mutant of AffectedPostFeedPaths: only the new row is looked at.         *)
AffectedByCurrent(previous, current, clock) ==
    IF IsCurrentlyPublic(current, clock) THEN AffectedFeeds(current) ELSE {}

(* affected_post_feed_paths: by the clock of the request.                  *)
AffectedPostFeedPaths(previous, current, clock) ==
    IF IsCurrentlyPublic(previous, clock) \/ IsCurrentlyPublic(current, clock)
      THEN AffectedFeeds(previous) \cup AffectedFeeds(current)
      ELSE {}

OnFeed(f, t) == {p \in Posts : IsCurrentlyPublic(post[p], t) /\ f \in AffectedFeeds(post[p])}

(* regenerate::render: generated_at, and the posts listed at that instant. *)
Items(f, t) == {<<p, post[p].version>> : p \in OnFeed(f, t)}
Row(f) == [generated_at |-> now, items |-> Items(f, now)]

------------------------------------------------------------------------------
(* Authors.                                                                *)

BeginRequest(r, ch) ==
    /\ request[r] = None
    /\ changes < MaxChanges
    /\ (ch.op = "create") <=> (post[ch.post] = None)
    /\ request' = [request EXCEPT ![r] = [change |-> ch, clock |-> now]]
    /\ changes' = changes + 1
    /\ UNCHANGED <<now, post, cached, queued, last_tick, pass, failures>>

(* The row after the change; a lifecycle change that changes nothing       *)
(* leaves it alone.  An update here changes at least the body; one that    *)
(* changes nothing at all returns before it writes.                        *)
Publish(row, clock) ==
    IF row.at = Draft THEN [row EXCEPT !.at = clock, !.version = @ + 1] ELSE row

Unpublish(row) ==
    IF row.at = Draft THEN row ELSE [row EXCEPT !.at = Draft, !.version = @ + 1]

PublishedAt(old, at, clock) ==
    IF at = Keep THEN (IF old = Draft THEN clock ELSE old) ELSE at

Update(row, ch, clock) ==
    [row EXCEPT !.at = PublishedAt(row.at, ch.at, clock), !.public = ch.public,
                !.tag = ch.tag, !.version = @ + 1]

Create(ch, clock) ==
    [at |-> PublishedAt(Draft, ch.at, clock), public |-> ch.public, tag |-> ch.tag,
     deleted |-> FALSE, version |-> 0]

Changed(row, ch, clock) ==
    CASE ch.op = "create" -> Create(ch, clock)
      [] ch.op = "update" -> Update(row, ch, clock)
      [] ch.op = "publish" -> Publish(row, clock)
      [] ch.op = "unpublish" -> Unpublish(row)
      [] ch.op = "delete" -> [row EXCEPT !.deleted = TRUE, !.version = @ + 1]

(* The change and the feed events it earns, in one transaction.  A deleted *)
(* post, or one created meanwhile, refuses it.                             *)
CommitRequest(r) ==
    /\ request[r] # None
    /\ LET ch == request[r].change
           clock == request[r].clock
           old == post[ch.post]
           new == Changed(old, ch, clock)
           refused == IF ch.op = "create" THEN old # None ELSE old.deleted
       IN  IF refused \/ new = old
             THEN UNCHANGED <<post, queued>>
             ELSE /\ post' = [post EXCEPT ![ch.post] = new]
                  /\ queued' = queued \cup AffectedPostFeedPaths(old, new, clock)
    /\ request' = [request EXCEPT ![r] = None]
    /\ UNCHANGED <<now, cached, last_tick, pass, changes, failures>>

------------------------------------------------------------------------------
(* The go-live pass.                                                       *)

BeginPass(k) ==
    /\ pass[k].state = "idle"
    /\ pass' = [pass EXCEPT ![k] = [state |-> "waiting", clock |-> now, feeds |-> {}]]
    /\ UNCHANGED <<now, post, request, cached, queued, last_tick, changes, failures>>

(* list_posts_gone_live_between: current Public posts in (last, upto].     *)
ListPostsGoneLiveBetween(last, upto) ==
    {p \in Posts : IsCurrentlyPublic(post[p], upto) /\ post[p].at > last}

(* feed_urls_needing_catchup: cached feeds with a live post newer than the *)
(* row.                                                                    *)
FeedUrlsNeedingCatchup(t) ==
    {f \in Feeds : /\ cached[f] # None
                   /\ \E p \in OnFeed(f, t) : post[p].at > cached[f].generated_at}

FeedsToEnqueue(clock) ==
    IF last_tick = None
      THEN FeedUrlsNeedingCatchup(clock)
      ELSE UNION {AffectedFeeds(post[p]) :
                    p \in ListPostsGoneLiveBetween(last_tick, clock)}

(* The mutex is held from the read to the end of the pass.                 *)
ReadPass(k) ==
    /\ pass[k].state = "waiting"
    /\ \A j \in Passes : pass[j].state # "enqueueing"
    /\ pass' = [pass EXCEPT ![k].state = "enqueueing",
                            ![k].feeds = FeedsToEnqueue(pass[k].clock)]
    /\ UNCHANGED <<now, post, request, cached, queued, last_tick, changes, failures>>

(* One chunk, in a transaction of its own.                                 *)
EnqueueChunk(k, f) ==
    /\ pass[k].state = "enqueueing"
    /\ f \in pass[k].feeds
    /\ queued' = queued \cup {f}
    /\ pass' = [pass EXCEPT ![k].feeds = @ \ {f}]
    /\ UNCHANGED <<now, post, request, cached, last_tick, changes, failures>>

(* Mutant of EnqueueFails: the failed pass advances last_tick.             *)
EnqueueFailsForward(k) ==
    /\ pass[k].state = "enqueueing"
    /\ Failure
    /\ \/ UNCHANGED queued
       \/ \E f \in pass[k].feeds : queued' = queued \cup {f}
    /\ last_tick' = pass[k].clock
    /\ pass' = [pass EXCEPT ![k] = IdlePass]
    /\ UNCHANGED <<now, post, request, cached, changes>>

(* An enqueue fails or is not acknowledged: the pass ends and last_tick    *)
(* stays.                                                                  *)
EnqueueFails(k) ==
    /\ pass[k].state = "enqueueing"
    /\ Failure
    /\ \/ UNCHANGED queued
       \/ \E f \in pass[k].feeds : queued' = queued \cup {f}
    /\ pass' = [pass EXCEPT ![k] = IdlePass]
    /\ UNCHANGED <<now, post, request, cached, last_tick, changes>>

(* Mutant of EndPass: last_tick runs ahead of the pass.                    *)
EndPassAhead(k) ==
    /\ pass[k].state = "enqueueing"
    /\ pass[k].feeds = {}
    /\ last_tick' = pass[k].clock + 1
    /\ pass' = [pass EXCEPT ![k] = IdlePass]
    /\ UNCHANGED <<now, post, request, cached, queued, changes, failures>>

(* Mutant of EndPass: last_tick is read from the clock again.              *)
EndPassNow(k) ==
    /\ pass[k].state = "enqueueing"
    /\ pass[k].feeds = {}
    /\ last_tick' = now
    /\ pass' = [pass EXCEPT ![k] = IdlePass]
    /\ UNCHANGED <<now, post, request, cached, queued, changes, failures>>

EndPass(k) ==
    /\ pass[k].state = "enqueueing"
    /\ pass[k].feeds = {}
    /\ last_tick' = pass[k].clock
    /\ pass' = [pass EXCEPT ![k] = IdlePass]
    /\ UNCHANGED <<now, post, request, cached, queued, changes, failures>>

PassStep(k) ==
    BeginPass(k) \/ ReadPass(k) \/ (\E f \in Feeds : EnqueueChunk(k, f)) \/ EndPass(k)

------------------------------------------------------------------------------
(* The cache, and the world.                                               *)

(* The worker regenerates a queued feed.                                   *)
Regenerate(f) ==
    /\ f \in queued
    /\ cached' = [cached EXCEPT ![f] = Row(f)]
    /\ queued' = queued \ {f}
    /\ UNCHANGED <<now, post, request, last_tick, pass, changes, failures>>

(* A GET renders a feed that is not cached.                                *)
CacheMiss(f) ==
    /\ cached[f] = None
    /\ cached' = [cached EXCEPT ![f] = Row(f)]
    /\ UNCHANGED <<now, post, request, queued, last_tick, pass, changes, failures>>

(* A configuration edit empties the cache.                                 *)
Invalidate ==
    /\ Failure
    /\ cached' = [f \in Feeds |-> None]
    /\ UNCHANGED <<now, post, request, queued, last_tick, pass, changes>>

(* The process stops and starts again, at any point.                       *)
Restart ==
    /\ Failure
    /\ last_tick' = None
    /\ pass' = [k \in Passes |-> IdlePass]
    /\ request' = [r \in Requests |-> None]
    /\ UNCHANGED <<now, post, cached, queued, changes>>

Tick ==
    /\ now < MaxTime
    /\ \A r \in Requests :
          request[r] # None => now < request[r].clock + MaxRequestDelay
    /\ now' = now + 1
    /\ UNCHANGED <<post, request, cached, queued, last_tick, pass, changes, failures>>

Next ==
    \/ \E r \in Requests, ch \in Changes : BeginRequest(r, ch)
    \/ \E r \in Requests : CommitRequest(r)
    \/ \E k \in Passes : PassStep(k)
    \/ \E k \in Passes : EnqueueFails(k)
    \/ \E f \in Feeds : Regenerate(f)
    \/ \E f \in Feeds : CacheMiss(f)
    \/ Invalidate
    \/ Restart
    \/ Tick

Spec == Init /\ [][Next]_vars

(* The scheduler keeps ticking, the worker drains its queue and requests   *)
(* end.                                                                    *)
Fairness ==
    /\ \A k \in Passes : WF_vars(PassStep(k)) /\ SF_vars(ReadPass(k))
    /\ \A f \in Feeds : WF_vars(Regenerate(f))
    /\ \A r \in Requests : WF_vars(CommitRequest(r))

FairSpec == Spec /\ Fairness

------------------------------------------------------------------------------
Stale(f) == cached[f] # None /\ cached[f].items # Items(f, now)

(* A cached feed that does not show exactly the posts that are public now  *)
(* will be brought up to date: it is queued, or the next pass will queue   *)
(* it, whether that pass is a steady one or the first after a restart.     *)
StaleFeedsAreCovered ==
    \A f \in Feeds : Stale(f) => f \in queued \cup FeedsToEnqueue(now)

(* Once the clock and the authors rest, every cached feed comes to show    *)
(* exactly the public posts, and stays so: go-lives reach the cache across *)
(* failed passes, overlapping passes and restarts.                         *)
LiveFeedsConverge == \A f \in Feeds : <>[](~Stale(f))

==============================================================================
