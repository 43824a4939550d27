----------------------------- MODULE GoLiveProofs -----------------------------
(***************************************************************************)
(* Proofs about GoLive, for any number of posts, tags, author requests and *)
(* overlapping passes, and any bounds.                                     *)
(***************************************************************************)
EXTENDS GoLive, TLAPS

------------------------------------------------------------------------------
(* Types.                                                                  *)

(* A request that changes a post was made when there was one.              *)
RequestRows == [change: Changes, clock: Times]
RequestsSound ==
  /\ request \in [Requests -> RequestRows \cup {None}]
  /\ \A r \in Requests :
       (request[r] # None /\ request[r].change.op # "create") =>
         post[request[r].change.post] # None

BaseInv == TypeOK /\ RequestsSound

(* What a change makes of a post is a post.                                *)
LEMMA ChangedType ==
  ASSUME NEW ch \in Changes, NEW clock \in Times, NEW old \in PostRows \cup {None},
         ch.op # "create" => old # None
  PROVE  Changed(old, ch, clock) \in PostRows
<1>0. Draft \notin Times /\ Keep \notin Times \cup {Draft}
  BY GoLiveAssumption
<1>1. CASE ch.op = "create"
  <2>1. ch.at \in Times \cup {Draft, Keep} /\ ch.public \in BOOLEAN /\ ch.tag \in Tags \cup {NoTag}
    BY <1>1 DEF Changes
  <2>2. PublishedAt(Draft, ch.at, clock) \in Times \cup {Draft}
    BY <2>1 DEF PublishedAt
  <2>3. Changed(old, ch, clock) = Create(ch, clock)
    BY <1>1 DEF Changed
  <2> QED BY <2>1, <2>2, <2>3 DEF Create, PostRows
<1>2. CASE ch.op = "update"
  <2>1. ch.at \in Times \cup {Draft, Keep} /\ ch.public \in BOOLEAN /\ ch.tag \in Tags \cup {NoTag}
    BY <1>2 DEF Changes
  <2>2. old \in PostRows /\ old.version + 1 \in Nat
    BY <1>2 DEF PostRows
  <2>3. PublishedAt(old.at, ch.at, clock) \in Times \cup {Draft}
    BY <2>1, <2>2 DEF PublishedAt, PostRows
  <2>4. Changed(old, ch, clock) =
          [old EXCEPT !.at = PublishedAt(old.at, ch.at, clock), !.public = ch.public,
                      !.tag = ch.tag, !.version = old.version + 1]
    BY <1>2 DEF Changed, Update
  <2> QED BY <2>1, <2>2, <2>3, <2>4 DEF PostRows
<1>3. CASE ch.op = "publish"
  <2>1. old \in PostRows /\ old.version + 1 \in Nat
    BY <1>3 DEF PostRows
  <2>2. Changed(old, ch, clock) =
          IF old.at = Draft THEN [old EXCEPT !.at = clock, !.version = old.version + 1] ELSE old
    BY <1>3 DEF Changed, Publish
  <2> QED BY <2>1, <2>2 DEF PostRows
<1>4. CASE ch.op = "unpublish"
  <2>1. old \in PostRows /\ old.version + 1 \in Nat
    BY <1>4 DEF PostRows
  <2>2. Changed(old, ch, clock) =
          IF old.at = Draft THEN old ELSE [old EXCEPT !.at = Draft, !.version = old.version + 1]
    BY <1>4 DEF Changed, Unpublish
  <2> QED BY <2>1, <2>2 DEF PostRows
<1>5. CASE ch.op = "delete"
  <2>1. old \in PostRows /\ old.version + 1 \in Nat
    BY <1>5 DEF PostRows
  <2>2. Changed(old, ch, clock) = [old EXCEPT !.deleted = TRUE, !.version = old.version + 1]
    BY <1>5 DEF Changed
  <2> QED BY <2>1, <2>2 DEF PostRows
<1> QED BY <1>1, <1>2, <1>3, <1>4, <1>5 DEF Changes

(* Feeds that posts affect are feeds.                                      *)
LEMMA AffectedAreFeeds == \A row : AffectedFeeds(row) \subseteq Feeds
  BY DEF AffectedFeeds, Feeds

(* What the commit of a request does: nothing, or one new row for its post *)
(* and the feeds it affects.                                               *)
Committed(r) ==
  \/ UNCHANGED <<post, queued>>
  \/ \E q \in Posts, new \in PostRows :
       /\ post' = [post EXCEPT ![q] = new]
       /\ queued' = queued \cup AffectedPostFeedPaths(post[q], new, request[r].clock)

LEMMA CommitEffect ==
  ASSUME BaseInv, NEW r \in Requests, CommitRequest(r)
  PROVE  Committed(r)
<1> DEFINE ch == request[r].change
           clock == request[r].clock
           old == post[ch.post]
           new == Changed(old, ch, clock)
<1>1. request[r] \in RequestRows
  BY DEF BaseInv, RequestsSound, CommitRequest
<1>2. ch \in Changes /\ clock \in Times
  BY <1>1 DEF RequestRows
<1>3. ch.post \in Posts
  BY <1>2 DEF Changes
<1>4. old \in PostRows \cup {None} /\ (ch.op # "create" => old # None)
  BY <1>3 DEF BaseInv, TypeOK, RequestsSound, CommitRequest
<1>5. new \in PostRows
  BY <1>2, <1>4, ChangedType
<1>6. \/ UNCHANGED <<post, queued>>
      \/ /\ post' = [post EXCEPT ![ch.post] = new]
         /\ queued' = queued \cup AffectedPostFeedPaths(old, new, clock)
  BY DEF CommitRequest
<1> HIDE DEF new
<1> QED BY <1>3, <1>5, <1>6 DEF Committed

(* A commit never unmakes a post and keeps the types.                      *)
LEMMA CommitType ==
  ASSUME BaseInv, NEW r \in Requests, CommitRequest(r)
  PROVE  /\ post' \in [Posts -> PostRows \cup {None}] /\ queued' \subseteq Feeds
         /\ \A p \in Posts : post[p] # None => post'[p] # None
<1>1. Committed(r)
  BY CommitEffect
<1>2. post \in [Posts -> PostRows \cup {None}] /\ queued \subseteq Feeds
  BY DEF BaseInv, TypeOK
<1>3. CASE UNCHANGED <<post, queued>>
  BY <1>2, <1>3
<1>4. ASSUME NEW q \in Posts, NEW new \in PostRows,
             post' = [post EXCEPT ![q] = new],
             queued' = queued \cup AffectedPostFeedPaths(post[q], new, request[r].clock)
      PROVE  /\ post' \in [Posts -> PostRows \cup {None}] /\ queued' \subseteq Feeds
             /\ \A p \in Posts : post[p] # None => post'[p] # None
  BY <1>2, <1>4, AffectedAreFeeds, PostsAssumption DEF AffectedPostFeedPaths
<1> QED BY <1>1, <1>3, <1>4 DEF Committed

(* What a pass enqueues are feeds.                                         *)
LEMMA EnqueuedAreFeeds == \A t : FeedsToEnqueue(t) \subseteq Feeds
  BY AffectedAreFeeds DEF FeedsToEnqueue, FeedUrlsNeedingCatchup

(* A rendered row is a row.                                                *)
LEMMA RowType ==
  ASSUME TypeOK, NEW f \in Feeds
  PROVE  Row(f) \in CachedRows
<1>1. \A p \in OnFeed(f, now) : p \in Posts /\ post[p].version \in Nat
  BY DEF OnFeed, IsCurrentlyPublic, TypeOK, PostRows
<1>2. Items(f, now) \in SUBSET (Posts \X Nat)
  BY <1>1 DEF Items
<1> QED BY <1>2 DEF Row, CachedRows, TypeOK

(* The types hold throughout.                                              *)
LEMMA BaseInvInit == Init => BaseInv
<1> SUFFICES ASSUME Init PROVE BaseInv
  OBVIOUS
<1>1. 0 \in Times
  BY GoLiveAssumption DEF Times
<1> QED
  BY <1>1 DEF Init, BaseInv, TypeOK, RequestsSound, IdlePass, PassStates, Feeds

LEMMA BaseInvStep == BaseInv /\ [Next]_vars => BaseInv'
<1> SUFFICES ASSUME BaseInv, [Next]_vars PROVE BaseInv'
  OBVIOUS
<1>0. TypeOK /\ RequestsSound /\ 0 \in Times
  BY GoLiveAssumption DEF BaseInv, Times
<1>F. Failure => failures' \in Nat
  BY <1>0 DEF TypeOK, Failure
<1>I. IdlePass \in [state: PassStates, clock: Times, feeds: SUBSET Feeds]
  BY <1>0 DEF IdlePass, PassStates
<1>1. ASSUME NEW r \in Requests, NEW ch \in Changes, BeginRequest(r, ch) PROVE BaseInv'
  <2>1. [change |-> ch, clock |-> now] \in RequestRows
    BY <1>0 DEF TypeOK, RequestRows
  <2>2. request' \in [Requests -> RequestRows \cup {None}]
    BY <1>0, <1>1, <2>1 DEF RequestsSound, BeginRequest
  <2>3. \A s \in Requests :
          request'[s] # None => request'[s].clock \in Times /\ request'[s].change \in Changes
    BY <2>2 DEF RequestRows
  <2>4. ch.op # "create" => post[ch.post] # None
    BY <1>1 DEF BeginRequest
  <2>5. \A s \in Requests :
          (request'[s] # None /\ request'[s].change.op # "create") =>
            post[request'[s].change.post] # None
    BY <1>0, <1>1, <2>4 DEF RequestsSound, BeginRequest
  <2>6. changes' \in Nat
    BY <1>0, <1>1 DEF TypeOK, BeginRequest
  <2> QED BY <1>0, <1>1, <2>2, <2>3, <2>5, <2>6 DEF BaseInv, TypeOK, RequestsSound, BeginRequest
<1>2. ASSUME NEW r \in Requests, CommitRequest(r) PROVE BaseInv'
  <2>1. /\ post' \in [Posts -> PostRows \cup {None}] /\ queued' \subseteq Feeds
        /\ \A p \in Posts : post[p] # None => post'[p] # None
    BY <1>2, CommitType
  <2>2. /\ request' = [request EXCEPT ![r] = None]
        /\ UNCHANGED <<now, cached, last_tick, pass, changes, failures>>
    BY <1>2 DEF CommitRequest
  <2>3. request' \in [Requests -> RequestRows \cup {None}]
    BY <1>0, <2>2 DEF RequestsSound
  <2>4. \A s \in Requests : request'[s] # None =>
          /\ request'[s].clock \in Times /\ request'[s].change \in Changes
          /\ request'[s].change.post \in Posts
    BY <2>3 DEF RequestRows, Changes
  <2>5. \A s \in Requests : request'[s] # None => request'[s] = request[s]
    BY <1>0, <2>2 DEF RequestsSound
  <2> QED BY <1>0, <2>1, <2>2, <2>3, <2>4, <2>5 DEF BaseInv, TypeOK, RequestsSound
<1>3. ASSUME NEW k \in Passes, BeginPass(k) PROVE BaseInv'
  <2>1. pass' \in [Passes -> [state: PassStates, clock: Times, feeds: SUBSET Feeds]]
    BY <1>0, <1>3 DEF TypeOK, BeginPass, PassStates
  <2> QED BY <1>0, <1>3, <2>1 DEF BaseInv, TypeOK, RequestsSound, BeginPass
<1>4. ASSUME NEW k \in Passes, ReadPass(k) PROVE BaseInv'
  <2>1. FeedsToEnqueue(pass[k].clock) \subseteq Feeds
    BY EnqueuedAreFeeds
  <2>2. pass' = [pass EXCEPT ![k] = [pass[k] EXCEPT !.state = "enqueueing",
                                            !.feeds = FeedsToEnqueue(pass[k].clock)]]
    BY <1>0, <1>4 DEF TypeOK, ReadPass
  <2>3. pass' \in [Passes -> [state: PassStates, clock: Times, feeds: SUBSET Feeds]]
    BY <1>0, <2>1, <2>2 DEF TypeOK, PassStates
  <2> QED BY <1>0, <1>4, <2>3 DEF BaseInv, TypeOK, RequestsSound, ReadPass
<1>5. ASSUME NEW k \in Passes, NEW f \in Feeds, EnqueueChunk(k, f) PROVE BaseInv'
  <2>1. pass' \in [Passes -> [state: PassStates, clock: Times, feeds: SUBSET Feeds]]
    BY <1>0, <1>5 DEF TypeOK, EnqueueChunk
  <2> QED BY <1>0, <1>5, <2>1 DEF BaseInv, TypeOK, RequestsSound, EnqueueChunk
<1>6. ASSUME NEW k \in Passes, EndPass(k) PROVE BaseInv'
  <2>1. pass' \in [Passes -> [state: PassStates, clock: Times, feeds: SUBSET Feeds]]
    BY <1>0, <1>6, <1>I DEF TypeOK, EndPass
  <2> QED BY <1>0, <1>6, <2>1 DEF BaseInv, TypeOK, RequestsSound, EndPass
<1>7. ASSUME NEW k \in Passes, EnqueueFails(k) PROVE BaseInv'
  <2>1. pass' \in [Passes -> [state: PassStates, clock: Times, feeds: SUBSET Feeds]]
    BY <1>0, <1>7, <1>I DEF TypeOK, EnqueueFails
  <2>2. queued' \subseteq Feeds
    BY <1>0, <1>7 DEF TypeOK, EnqueueFails
  <2> QED BY <1>0, <1>7, <1>F, <2>1, <2>2 DEF BaseInv, TypeOK, RequestsSound, EnqueueFails
<1>8. ASSUME NEW f \in Feeds, Regenerate(f) PROVE BaseInv'
  <2>1. cached' \in [Feeds -> CachedRows \cup {None}]
    BY <1>0, <1>8, RowType DEF TypeOK, Regenerate
  <2> QED BY <1>0, <1>8, <2>1 DEF BaseInv, TypeOK, RequestsSound, Regenerate
<1>9. ASSUME NEW f \in Feeds, CacheMiss(f) PROVE BaseInv'
  <2>1. cached' \in [Feeds -> CachedRows \cup {None}]
    BY <1>0, <1>9, RowType DEF TypeOK, CacheMiss
  <2> QED BY <1>0, <1>9, <2>1 DEF BaseInv, TypeOK, RequestsSound, CacheMiss
<1>10. CASE Invalidate
  BY <1>0, <1>10, <1>F DEF BaseInv, TypeOK, RequestsSound, Invalidate
<1>11. CASE Restart
  BY <1>0, <1>11, <1>F, <1>I DEF BaseInv, TypeOK, RequestsSound, Restart
<1>12. CASE Tick
  <2>1. now' \in Times
    BY <1>0, <1>12, GoLiveAssumption DEF TypeOK, Tick, Times
  <2> QED BY <1>0, <1>12, <2>1 DEF BaseInv, TypeOK, RequestsSound, Tick
<1>13. CASE UNCHANGED vars
  BY <1>0, <1>13 DEF BaseInv, TypeOK, RequestsSound, vars
<1> QED
  BY <1>1, <1>2, <1>3, <1>4, <1>5, <1>6, <1>7, <1>8, <1>9, <1>10, <1>11, <1>12, <1>13
  DEF Next, PassStep

(* The type invariant, of requests, passes and rows, under any             *)
(* interleaving, failure and restart.                                      *)
THEOREM GoLiveTypeCorrect == Spec => []TypeOK
<1>1. BaseInv => TypeOK
  BY DEF BaseInv
<1> QED BY BaseInvInit, BaseInvStep, <1>1, PTL DEF Spec

------------------------------------------------------------------------------
(* Coverage, when a request commits at the clock it read.                  *)

(* A row that feed f shows at time t.                                      *)
Shown(row, f, t) == IsCurrentlyPublic(row, t) /\ f \in AffectedFeeds(row)

(* A feed that is cached and that nobody will regenerate.                  *)
Settled(f) == f \notin queued /\ cached[f] # None

(* Every post feed f shows at time c is as old as f's cached row.          *)
NoGap(f, c) == \A p \in Posts : Shown(post[p], f, c) => post[p].at <= cached[f].generated_at

(* No clock runs ahead, and an open request's clock is still the time.     *)
Clocks ==
  /\ last_tick # None => last_tick <= now
  /\ \A k \in Passes : pass[k].clock <= now
  /\ \A f \in Feeds : cached[f] # None => cached[f].generated_at <= now
  /\ \A r \in Requests : request[r] # None => request[r].clock = now

(* A settled row shows what was public when it was rendered: every change  *)
(* since then to a post it showed, or would have, queued the feed.         *)
RowsExact ==
  \A f \in Feeds : Settled(f) => cached[f].items = Items(f, cached[f].generated_at)

(* last_tick answers for every go-live before it.                          *)
TickSeen ==
  last_tick # None => \A f \in Feeds : Settled(f) => NoGap(f, last_tick)

(* A pass that has read answers for the feeds it has not left to enqueue.  *)
PassSeen ==
  \A k \in Passes : pass[k].state = "enqueueing" =>
    \A f \in Feeds \ pass[k].feeds : Settled(f) => NoGap(f, pass[k].clock)

GoLiveInv == BaseInv /\ Clocks /\ RowsExact /\ TickSeen /\ PassSeen

(* A commit changes nothing on a feed it does not queue, at any time up to *)
(* now.                                                                    *)
LEMMA UnqueuedFeedKeepsItsPosts ==
  ASSUME BaseInv, Clocks, NEW r \in Requests, CommitRequest(r),
         NEW f \in Feeds, f \notin queued'
  PROVE  \A t \in Times : t <= now =>
           \A p \in Posts :
             /\ Shown(post'[p], f, t) <=> Shown(post[p], f, t)
             /\ Shown(post[p], f, t) => post'[p] = post[p]
<1>1. Committed(r)
  BY CommitEffect
<1>2. post \in [Posts -> PostRows \cup {None}] /\ now \in Times
  BY DEF BaseInv, TypeOK
<1>3. request[r].clock = now
  BY DEF Clocks, CommitRequest
<1>4. CASE UNCHANGED <<post, queued>>
  BY <1>4
<1>5. ASSUME NEW q \in Posts, NEW new \in PostRows,
             post' = [post EXCEPT ![q] = new],
             queued' = queued \cup AffectedPostFeedPaths(post[q], new, request[r].clock),
             NEW t \in Times, t <= now, NEW p \in Posts
      PROVE  /\ Shown(post'[p], f, t) <=> Shown(post[p], f, t)
             /\ Shown(post[p], f, t) => post'[p] = post[p]
  <2>1. CASE p # q
    BY <1>2, <1>5, <2>1
  <2>2. CASE p = q
    <3>1. post'[p] = new
      BY <1>2, <1>5, <2>2
    <3>2. f \notin AffectedPostFeedPaths(post[q], new, now)
      BY <1>3, <1>5
    <3>3. \A row \in PostRows \cup {None} :
            IsCurrentlyPublic(row, t) => IsCurrentlyPublic(row, now)
      <4> SUFFICES ASSUME NEW row \in PostRows \cup {None}, IsCurrentlyPublic(row, t)
                   PROVE  IsCurrentlyPublic(row, now)
        OBVIOUS
      <4>1. row.at \in Times
        BY DEF IsCurrentlyPublic, PostRows
      <4>2. row.at <= now
        BY <1>2, <1>5, <4>1, GoLiveAssumption DEF IsCurrentlyPublic, Times
      <4> QED BY <4>2 DEF IsCurrentlyPublic
    <3>4. ~Shown(post[q], f, t)
      BY <1>2, <3>2, <3>3 DEF Shown, AffectedPostFeedPaths
    <3>5. ~Shown(new, f, t)
      BY <1>2, <3>2, <3>3 DEF Shown, AffectedPostFeedPaths
    <3> QED BY <2>2, <3>1, <3>4, <3>5
  <2> QED BY <2>1, <2>2
<1> QED BY <1>1, <1>4, <1>5 DEF Committed

(* The posts on a feed are the rows it shows.                              *)
LEMMA OnFeedIsShown == \A f, t : OnFeed(f, t) = {p \in Posts : Shown(post[p], f, t)}
  BY DEF OnFeed, Shown

(* A post that is shown has a time, and is shown ever after.               *)
LEMMA ShownTime ==
  ASSUME NEW row \in PostRows \cup {None}, NEW f, NEW t \in Times, Shown(row, f, t)
  PROVE  /\ row.at \in Times /\ row.at <= t
         /\ \A u \in Times : row.at <= u => Shown(row, f, u)
  BY DEF Shown, IsCurrentlyPublic, PostRows

(* A feed rendered now has no gap before now.                              *)
LEMMA RenderedNow ==
  ASSUME TypeOK, NEW f \in Feeds, NEW c \in Times, c <= now
  PROVE  \A p \in Posts : Shown(post[p], f, c) => post[p].at <= now
<1> SUFFICES ASSUME NEW p \in Posts, Shown(post[p], f, c) PROVE post[p].at <= now
  OBVIOUS
<1>1. post[p] \in PostRows \cup {None} /\ now \in Times
  BY DEF TypeOK
<1>2. post[p].at \in Times /\ post[p].at <= c
  BY <1>1, ShownTime
<1> QED BY <1>1, <1>2, GoLiveAssumption DEF Times

(* A feed the pass of clock c leaves out has no gap up to c.               *)
LEMMA LeftOutHasNoGap ==
  ASSUME GoLiveInv, NEW c \in Times, c <= now, NEW f \in Feeds, Settled(f),
         f \notin FeedsToEnqueue(c)
  PROVE  NoGap(f, c)
<1> SUFFICES ASSUME NEW p \in Posts, Shown(post[p], f, c)
             PROVE  post[p].at <= cached[f].generated_at
  BY DEF NoGap
<1>1. post[p] \in PostRows \cup {None} /\ cached[f] \in CachedRows
  BY DEF GoLiveInv, BaseInv, TypeOK, Settled
<1>2. post[p].at \in Times /\ post[p].at <= c /\ cached[f].generated_at \in Times
  BY <1>1, ShownTime DEF CachedRows
<1>3. CASE last_tick = None
  <2>1. f \notin FeedUrlsNeedingCatchup(c)
    BY <1>3 DEF FeedsToEnqueue
  <2>2. p \in OnFeed(f, c)
    BY OnFeedIsShown
  <2>3. ~(post[p].at > cached[f].generated_at)
    BY <2>1, <2>2 DEF FeedUrlsNeedingCatchup, Settled
  <2> QED BY <1>2, <2>3, GoLiveAssumption DEF Times
<1>4. CASE last_tick # None
  <2>1. last_tick \in Times
    BY <1>4 DEF GoLiveInv, BaseInv, TypeOK
  <2>2. p \notin ListPostsGoneLiveBetween(last_tick, c)
    BY <1>4 DEF FeedsToEnqueue, Shown
  <2>3. ~(post[p].at > last_tick)
    BY <2>2 DEF ListPostsGoneLiveBetween, Shown
  <2>4. post[p].at <= last_tick
    BY <1>2, <2>1, <2>3, GoLiveAssumption DEF Times
  <2>5. Shown(post[p], f, last_tick)
    BY <1>1, <2>1, <2>4, ShownTime
  <2> QED BY <1>4, <2>5 DEF GoLiveInv, TickSeen, NoGap
<1> QED BY <1>3, <1>4

LEMMA GoLiveInvInit == Init => GoLiveInv
<1> SUFFICES ASSUME Init PROVE GoLiveInv
  OBVIOUS
<1>1. BaseInv
  BY BaseInvInit
<1>2. \A f \in Feeds : ~Settled(f)
  BY DEF Init, Settled
<1>3. Clocks
  BY DEF Init, Clocks, IdlePass
<1>4. RowsExact /\ TickSeen /\ PassSeen
  BY <1>2 DEF RowsExact, TickSeen, PassSeen
<1> QED BY <1>1, <1>3, <1>4 DEF GoLiveInv

(* Steps that leave posts and cached rows alone and only add to the queue. *)
LEMMA RowsExactFrame ==
  ASSUME RowsExact, UNCHANGED <<post, cached>>, queued \subseteq queued'
  PROVE  RowsExact'
  BY DEF RowsExact, Settled, Items, OnFeed

LEMMA TickSeenFrame ==
  ASSUME TickSeen, UNCHANGED <<post, cached, last_tick>>, queued \subseteq queued'
  PROVE  TickSeen'
  BY DEF TickSeen, Settled, NoGap

LEMMA PassSeenFrame ==
  ASSUME PassSeen, UNCHANGED <<post, cached, pass>>, queued \subseteq queued'
  PROVE  PassSeen'
  BY DEF PassSeen, Settled, NoGap

(* A commit: what a feed shows changes only when the feed is queued.       *)
LEMMA CommitKeeps ==
  ASSUME GoLiveInv, NEW r \in Requests, CommitRequest(r)
  PROVE  RowsExact' /\ TickSeen' /\ PassSeen'
<1>0. BaseInv /\ TypeOK /\ Clocks /\ RowsExact /\ TickSeen /\ PassSeen
  BY DEF GoLiveInv, BaseInv
<1>1. UNCHANGED <<cached, last_tick, pass, now>> /\ queued \subseteq queued'
  <2>1. Committed(r)
    BY <1>0, CommitEffect
  <2> QED BY <2>1 DEF CommitRequest, Committed
<1>2. \A f \in Feeds : Settled(f)' => Settled(f) /\ f \notin queued'
  BY <1>1 DEF Settled
<1>3. ASSUME NEW f \in Feeds, f \notin queued'
      PROVE  \A t \in Times : t <= now =>
               \A p \in Posts :
                 /\ Shown(post'[p], f, t) <=> Shown(post[p], f, t)
                 /\ Shown(post[p], f, t) => post'[p] = post[p]
  BY <1>0, <1>3, UnqueuedFeedKeepsItsPosts
<1>4. RowsExact'
  <2> SUFFICES ASSUME NEW f \in Feeds, Settled(f)'
               PROVE  cached'[f].items = Items(f, cached[f].generated_at)'
    BY DEF RowsExact
  <2>1. Settled(f) /\ f \notin queued' /\ cached'[f] = cached[f]
    BY <1>1, <1>2
  <2>2. cached[f].generated_at \in Times /\ cached[f].generated_at <= now
    BY <1>0, <2>1 DEF TypeOK, CachedRows, Settled, Clocks
  <2>3. \A p \in Posts :
          /\ Shown(post'[p], f, cached[f].generated_at)
               <=> Shown(post[p], f, cached[f].generated_at)
          /\ Shown(post[p], f, cached[f].generated_at) => post'[p] = post[p]
    BY <1>3, <2>1, <2>2
  <2>4. Items(f, cached[f].generated_at) =
          {<<p, post[p].version>> : p \in {q \in Posts : Shown(post[q], f, cached[f].generated_at)}}
    BY OnFeedIsShown DEF Items
  <2>5. Items(f, cached[f].generated_at)' =
          {<<p, post'[p].version>> : p \in {q \in Posts : Shown(post'[q], f, cached'[f].generated_at)}}
    BY DEF Items, OnFeed, Shown
  <2>6. {<<p, post'[p].version>> : p \in {q \in Posts : Shown(post'[q], f, cached[f].generated_at)}}
          = {<<p, post[p].version>> : p \in {q \in Posts : Shown(post[q], f, cached[f].generated_at)}}
    BY <2>3
  <2> QED BY <1>0, <2>1, <2>4, <2>5, <2>6 DEF RowsExact
<1>5. TickSeen'
  <2> SUFFICES ASSUME last_tick' # None, NEW f \in Feeds, Settled(f)', NEW p \in Posts,
                      Shown(post'[p], f, last_tick')
               PROVE  post'[p].at <= cached'[f].generated_at
    BY DEF TickSeen, NoGap
  <2>1. Settled(f) /\ f \notin queued' /\ last_tick \in Times /\ last_tick <= now
    BY <1>0, <1>1, <1>2 DEF TypeOK, Clocks
  <2>2. Shown(post[p], f, last_tick) /\ post'[p] = post[p]
    BY <1>1, <1>3, <2>1
  <2> QED BY <1>0, <1>1, <2>1, <2>2 DEF TickSeen, NoGap
<1>6. PassSeen'
  <2> SUFFICES ASSUME NEW k \in Passes, pass'[k].state = "enqueueing",
                      NEW f \in Feeds \ pass'[k].feeds, Settled(f)', NEW p \in Posts,
                      Shown(post'[p], f, pass'[k].clock)
               PROVE  post'[p].at <= cached'[f].generated_at
    BY DEF PassSeen, NoGap
  <2>1. Settled(f) /\ f \notin queued' /\ pass[k].clock \in Times /\ pass[k].clock <= now
    BY <1>0, <1>2 DEF TypeOK, Clocks
  <2>2. Shown(post[p], f, pass[k].clock) /\ post'[p] = post[p]
    BY <1>1, <1>3, <2>1
  <2> QED BY <1>0, <1>1, <2>1, <2>2 DEF PassSeen, NoGap
<1> QED BY <1>4, <1>5, <1>6

(* A feed rendered now closes every gap, whoever renders it.               *)
LEMMA RenderKeeps ==
  ASSUME GoLiveInv, NEW g \in Feeds, cached' = [cached EXCEPT ![g] = Row(g)],
         queued \subseteq queued' \cup {g}, UNCHANGED <<now, post, request, last_tick, pass>>
  PROVE  Clocks' /\ RowsExact' /\ TickSeen' /\ PassSeen'
<1>0. TypeOK /\ Clocks /\ RowsExact /\ TickSeen /\ PassSeen
  BY DEF GoLiveInv, BaseInv
<1>1. \A f \in Feeds : f # g => cached'[f] = cached[f] /\ (Settled(f)' => Settled(f))
  BY <1>0 DEF TypeOK, Settled
<1>2. cached'[g].generated_at = now /\ cached'[g].items = Items(g, now)
  BY <1>0 DEF TypeOK, Row
<1>3. now \in Times /\ now <= now
  BY <1>0, GoLiveAssumption DEF TypeOK, Times
<1>4. Clocks'
  BY <1>0, <1>1, <1>2, <1>3 DEF Clocks
<1>5. RowsExact'
  <2> SUFFICES ASSUME NEW f \in Feeds, Settled(f)'
               PROVE  cached'[f].items = Items(f, cached[f].generated_at)'
    BY DEF RowsExact
  <2>1. Items(f, cached[f].generated_at)' = Items(f, cached'[f].generated_at)
    BY DEF Items, OnFeed
  <2> QED BY <1>0, <1>1, <1>2, <2>1 DEF RowsExact
<1>6. TickSeen'
  <2> SUFFICES ASSUME last_tick' # None, NEW f \in Feeds, Settled(f)', NEW p \in Posts,
                      Shown(post'[p], f, last_tick')
               PROVE  post'[p].at <= cached'[f].generated_at
    BY DEF TickSeen, NoGap
  <2>1. CASE f = g
    <3>1. last_tick \in Times /\ last_tick <= now
      BY <1>0 DEF TypeOK, Clocks
    <3> QED BY <1>0, <1>2, <2>1, <3>1, RenderedNow
  <2>2. CASE f # g
    BY <1>0, <1>1, <2>2 DEF TickSeen, NoGap
  <2> QED BY <2>1, <2>2
<1>7. PassSeen'
  <2> SUFFICES ASSUME NEW k \in Passes, pass'[k].state = "enqueueing",
                      NEW f \in Feeds \ pass'[k].feeds, Settled(f)', NEW p \in Posts,
                      Shown(post'[p], f, pass'[k].clock)
               PROVE  post'[p].at <= cached'[f].generated_at
    BY DEF PassSeen, NoGap
  <2>1. CASE f = g
    <3>1. pass[k].clock \in Times /\ pass[k].clock <= now
      BY <1>0 DEF TypeOK, Clocks
    <3> QED BY <1>0, <1>2, <2>1, <3>1, RenderedNow
  <2>2. CASE f # g
    BY <1>0, <1>1, <2>2 DEF PassSeen, NoGap
  <2> QED BY <2>1, <2>2
<1> QED BY <1>4, <1>5, <1>6, <1>7

(* A pass takes over what last_tick answers for, or the catch-up query     *)
(* does, and hands it on when it has enqueued the rest.                    *)
LEMMA ReadPassKeeps ==
  ASSUME GoLiveInv, NEW k \in Passes, ReadPass(k)
  PROVE  Clocks' /\ PassSeen'
<1>0. TypeOK /\ Clocks /\ PassSeen
  BY DEF GoLiveInv, BaseInv
<1>1. /\ pass' = [pass EXCEPT ![k] = [pass[k] EXCEPT !.state = "enqueueing",
                                             !.feeds = FeedsToEnqueue(pass[k].clock)]]
      /\ UNCHANGED <<now, post, request, cached, queued, last_tick>>
  BY <1>0 DEF TypeOK, ReadPass
<1>2. pass[k].clock \in Times /\ pass[k].clock <= now
  BY <1>0 DEF TypeOK, Clocks
<1>3. /\ pass'[k].clock = pass[k].clock /\ pass'[k].feeds = FeedsToEnqueue(pass[k].clock)
      /\ \A j \in Passes : j # k => pass'[j] = pass[j]
  BY <1>0, <1>1 DEF TypeOK
<1>4. Clocks'
  BY <1>0, <1>1, <1>3 DEF Clocks
<1>5. PassSeen'
  <2> SUFFICES ASSUME NEW j \in Passes, pass'[j].state = "enqueueing",
                      NEW f \in Feeds \ pass'[j].feeds, Settled(f)', NEW p \in Posts,
                      Shown(post'[p], f, pass'[j].clock)
               PROVE  post'[p].at <= cached'[f].generated_at
    BY DEF PassSeen, NoGap
  <2>0. Settled(f)
    BY <1>1 DEF Settled
  <2>1. CASE j = k
    <3>1. NoGap(f, pass[k].clock)
      BY <1>2, <1>3, <2>0, <2>1, LeftOutHasNoGap
    <3> QED BY <1>1, <1>3, <2>1, <3>1 DEF NoGap
  <2>2. CASE j # k
    BY <1>0, <1>1, <1>3, <2>0, <2>2 DEF PassSeen, NoGap
  <2> QED BY <2>1, <2>2
<1> QED BY <1>4, <1>5

LEMMA EnqueueChunkKeeps ==
  ASSUME GoLiveInv, NEW k \in Passes, NEW g \in Feeds, EnqueueChunk(k, g)
  PROVE  Clocks' /\ PassSeen'
<1>0. TypeOK /\ Clocks /\ PassSeen
  BY DEF GoLiveInv, BaseInv
<1>1. /\ queued' = queued \cup {g}
      /\ UNCHANGED <<now, post, request, cached, last_tick>>
      /\ pass' = [pass EXCEPT ![k].feeds = @ \ {g}]
  BY DEF EnqueueChunk
<1>2. \A j \in Passes :
        /\ pass'[j].clock = pass[j].clock /\ pass'[j].state = pass[j].state
        /\ pass[j].feeds \subseteq pass'[j].feeds \cup {g}
  BY <1>0, <1>1 DEF TypeOK
<1>3. \A f \in Feeds : Settled(f)' => Settled(f) /\ f # g
  BY <1>1 DEF Settled
<1>4. Clocks'
  BY <1>0, <1>1, <1>2 DEF Clocks
<1>5. PassSeen'
  <2> SUFFICES ASSUME NEW j \in Passes, pass'[j].state = "enqueueing",
                      NEW f \in Feeds \ pass'[j].feeds, Settled(f)', NEW p \in Posts,
                      Shown(post'[p], f, pass'[j].clock)
               PROVE  post'[p].at <= cached'[f].generated_at
    BY DEF PassSeen, NoGap
  <2> QED BY <1>0, <1>1, <1>2, <1>3 DEF PassSeen, NoGap
<1> QED BY <1>4, <1>5

(* A pass that ends, by itself or by a failure, leaves the other passes.   *)
LEMMA PassEnds ==
  ASSUME GoLiveInv, NEW k \in Passes, pass' = [pass EXCEPT ![k] = IdlePass],
         UNCHANGED <<post, cached>>, queued \subseteq queued'
  PROVE  /\ PassSeen'
         /\ now' = now => \A j \in Passes : pass'[j].clock <= now'
<1>0. TypeOK /\ Clocks /\ PassSeen
  BY DEF GoLiveInv, BaseInv
<1>1. pass'[k] = IdlePass /\ \A j \in Passes : j # k => pass'[j] = pass[j]
  BY <1>0 DEF TypeOK
<1>2. \A f \in Feeds : Settled(f)' => Settled(f)
  BY DEF Settled
<1>3. PassSeen'
  <2> SUFFICES ASSUME NEW j \in Passes, pass'[j].state = "enqueueing",
                      NEW f \in Feeds \ pass'[j].feeds, Settled(f)', NEW p \in Posts,
                      Shown(post'[p], f, pass'[j].clock)
               PROVE  post'[p].at <= cached'[f].generated_at
    BY DEF PassSeen, NoGap
  <2>1. j # k
    BY <1>1 DEF IdlePass
  <2> QED BY <1>0, <1>1, <1>2, <2>1 DEF PassSeen, NoGap
<1>4. now' = now => \A j \in Passes : pass'[j].clock <= now'
  BY <1>0, <1>1, GoLiveAssumption DEF Clocks, TypeOK, IdlePass, Times
<1> QED BY <1>3, <1>4

LEMMA EndPassKeeps ==
  ASSUME GoLiveInv, NEW k \in Passes, EndPass(k)
  PROVE  Clocks' /\ TickSeen'
<1>0. TypeOK /\ Clocks /\ PassSeen
  BY DEF GoLiveInv, BaseInv
<1>1. /\ pass[k].state = "enqueueing" /\ pass[k].feeds = {}
      /\ last_tick' = pass[k].clock
      /\ pass' = [pass EXCEPT ![k] = IdlePass]
      /\ UNCHANGED <<now, post, request, cached, queued>>
  BY DEF EndPass
<1>2. pass[k].clock <= now
  BY <1>0 DEF Clocks
<1>3. \A j \in Passes : pass'[j].clock <= now'
  BY <1>1, PassEnds
<1>4. Clocks'
  BY <1>0, <1>1, <1>2, <1>3 DEF Clocks
<1>5. TickSeen'
  BY <1>0, <1>1 DEF TickSeen, PassSeen, Settled, NoGap
<1> QED BY <1>4, <1>5

(* The invariant, action by action.                                        *)
LEMMA GoLiveInvStep ==
  ASSUME MaxRequestDelay = 0, GoLiveInv, [Next]_vars
  PROVE  GoLiveInv'
<1>0. BaseInv /\ TypeOK /\ Clocks /\ RowsExact /\ TickSeen /\ PassSeen
  BY DEF GoLiveInv, BaseInv
<1>B. BaseInv'
  BY <1>0, BaseInvStep
<1>1. ASSUME NEW r \in Requests, NEW ch \in Changes, BeginRequest(r, ch) PROVE GoLiveInv'
  <2>1. UNCHANGED <<now, post, cached, queued, last_tick, pass>>
    BY <1>1 DEF BeginRequest
  <2>2. \A s \in Requests : request'[s] # None => request'[s].clock = now
    BY <1>0, <1>1 DEF BaseInv, RequestsSound, BeginRequest, Clocks
  <2>3. Clocks'
    BY <1>0, <2>1, <2>2 DEF Clocks
  <2>4. RowsExact' /\ TickSeen' /\ PassSeen'
    BY <1>0, <2>1, RowsExactFrame, TickSeenFrame, PassSeenFrame
  <2> QED BY <1>B, <2>3, <2>4 DEF GoLiveInv
<1>2. ASSUME NEW r \in Requests, CommitRequest(r) PROVE GoLiveInv'
  <2>1. /\ request' = [request EXCEPT ![r] = None]
        /\ UNCHANGED <<now, cached, last_tick, pass>>
    BY <1>2 DEF CommitRequest
  <2>2. \A s \in Requests : request'[s] # None => request'[s] = request[s]
    BY <1>0, <2>1 DEF BaseInv, RequestsSound
  <2>3. Clocks'
    BY <1>0, <2>1, <2>2 DEF Clocks
  <2>4. RowsExact' /\ TickSeen' /\ PassSeen'
    BY <1>2, CommitKeeps
  <2> QED BY <1>B, <2>3, <2>4 DEF GoLiveInv
<1>3. ASSUME NEW k \in Passes, BeginPass(k) PROVE GoLiveInv'
  <2>1. /\ pass' = [pass EXCEPT ![k] = [state |-> "waiting", clock |-> now, feeds |-> {}]]
        /\ UNCHANGED <<now, post, request, cached, queued, last_tick>>
    BY <1>3 DEF BeginPass
  <2>2. /\ pass'[k].state = "waiting" /\ pass'[k].clock = now
        /\ \A j \in Passes : j # k => pass'[j] = pass[j]
    BY <1>0, <2>1 DEF TypeOK
  <2>3. now <= now
    BY <1>0, GoLiveAssumption DEF TypeOK, Times
  <2>4. Clocks'
    BY <1>0, <2>1, <2>2, <2>3 DEF Clocks
  <2>5. RowsExact' /\ TickSeen'
    BY <1>0, <2>1, RowsExactFrame, TickSeenFrame
  <2>6. PassSeen'
    <3> SUFFICES ASSUME NEW j \in Passes, pass'[j].state = "enqueueing",
                        NEW f \in Feeds \ pass'[j].feeds, Settled(f)'
                 PROVE  NoGap(f, pass[j].clock)'
      BY DEF PassSeen
    <3>1. pass'[j] = pass[j] /\ Settled(f)
      BY <2>1, <2>2 DEF Settled
    <3> QED BY <1>0, <2>1, <3>1 DEF PassSeen, NoGap
  <2> QED BY <1>B, <2>4, <2>5, <2>6 DEF GoLiveInv
<1>4. ASSUME NEW k \in Passes, ReadPass(k) PROVE GoLiveInv'
  <2>1. UNCHANGED <<post, cached, queued, last_tick>>
    BY <1>4 DEF ReadPass
  <2> QED BY <1>0, <1>4, <1>B, <2>1, ReadPassKeeps, RowsExactFrame, TickSeenFrame DEF GoLiveInv
<1>5. ASSUME NEW k \in Passes, NEW f \in Feeds, EnqueueChunk(k, f) PROVE GoLiveInv'
  <2>1. UNCHANGED <<post, cached, last_tick>> /\ queued \subseteq queued'
    BY <1>5 DEF EnqueueChunk
  <2> QED
    BY <1>0, <1>5, <1>B, <2>1, EnqueueChunkKeeps, RowsExactFrame, TickSeenFrame DEF GoLiveInv
<1>6. ASSUME NEW k \in Passes, EndPass(k) PROVE GoLiveInv'
  <2>1. UNCHANGED <<post, cached, queued>> /\ pass' = [pass EXCEPT ![k] = IdlePass]
    BY <1>6 DEF EndPass
  <2>2. PassSeen'
    BY <2>1, PassEnds
  <2> QED BY <1>0, <1>6, <1>B, <2>1, <2>2, EndPassKeeps, RowsExactFrame DEF GoLiveInv
<1>7. ASSUME NEW k \in Passes, EnqueueFails(k) PROVE GoLiveInv'
  <2>1. /\ UNCHANGED <<now, post, request, cached, last_tick>> /\ queued \subseteq queued'
        /\ pass' = [pass EXCEPT ![k] = IdlePass]
    BY <1>7 DEF EnqueueFails
  <2>2. PassSeen' /\ \A j \in Passes : pass'[j].clock <= now'
    BY <2>1, PassEnds
  <2>3. Clocks'
    BY <1>0, <2>1, <2>2 DEF Clocks
  <2> QED BY <1>0, <1>B, <2>1, <2>2, <2>3, RowsExactFrame, TickSeenFrame DEF GoLiveInv
<1>8. ASSUME NEW f \in Feeds, Regenerate(f) PROVE GoLiveInv'
  <2>1. /\ cached' = [cached EXCEPT ![f] = Row(f)] /\ queued \subseteq queued' \cup {f}
        /\ UNCHANGED <<now, post, request, last_tick, pass>>
    BY <1>8 DEF Regenerate
  <2> QED BY <1>B, <2>1, RenderKeeps DEF GoLiveInv
<1>9. ASSUME NEW f \in Feeds, CacheMiss(f) PROVE GoLiveInv'
  <2>1. /\ cached' = [cached EXCEPT ![f] = Row(f)] /\ queued \subseteq queued' \cup {f}
        /\ UNCHANGED <<now, post, request, last_tick, pass>>
    BY <1>9 DEF CacheMiss
  <2> QED BY <1>B, <2>1, RenderKeeps DEF GoLiveInv
<1>10. CASE Invalidate
  <2>1. (\A f \in Feeds : cached'[f] = None) /\ UNCHANGED <<now, request, last_tick, pass>>
    BY <1>10 DEF Invalidate
  <2>2. \A f \in Feeds : ~Settled(f)'
    BY <2>1 DEF Settled
  <2>3. Clocks'
    BY <1>0, <2>1 DEF Clocks
  <2>4. RowsExact' /\ TickSeen' /\ PassSeen'
    BY <2>2 DEF RowsExact, TickSeen, PassSeen
  <2> QED BY <1>B, <2>3, <2>4 DEF GoLiveInv
<1>11. CASE Restart
  <2>1. /\ last_tick' = None /\ UNCHANGED <<now, post, cached, queued>>
        /\ \A k \in Passes : pass'[k] = IdlePass
        /\ \A r \in Requests : request'[r] = None
    BY <1>11 DEF Restart
  <2>2. Clocks'
    BY <1>0, <2>1, GoLiveAssumption DEF Clocks, TypeOK, IdlePass, Times
  <2>3. TickSeen' /\ PassSeen'
    BY <2>1 DEF TickSeen, PassSeen, IdlePass
  <2>4. RowsExact'
    BY <1>0, <2>1, RowsExactFrame
  <2> QED BY <1>B, <2>2, <2>3, <2>4 DEF GoLiveInv
<1>12. CASE Tick
  <2>1. /\ now' = now + 1 /\ now \in Nat
        /\ UNCHANGED <<post, request, cached, queued, last_tick, pass>>
    BY <1>0, <1>12, GoLiveAssumption DEF Tick, TypeOK, Times
  <2>2. \A r \in Requests : request[r] = None
    BY <1>0, <1>12, <2>1 DEF Tick, Clocks
  <2>3. \A t \in Nat : t <= now => t <= now'
    BY <2>1
  <2>4. Times \subseteq Nat
    BY GoLiveAssumption DEF Times
  <2>5. last_tick # None => last_tick <= now'
    BY <1>0, <2>3, <2>4 DEF TypeOK, Clocks
  <2>6. \A k \in Passes : pass[k].clock <= now'
    BY <1>0, <2>3, <2>4 DEF TypeOK, Clocks
  <2>7. \A f \in Feeds : cached[f] # None => cached[f].generated_at <= now'
    BY <1>0, <2>3, <2>4 DEF TypeOK, CachedRows, Clocks
  <2>8. Clocks'
    BY <2>1, <2>2, <2>5, <2>6, <2>7 DEF Clocks
  <2>9. RowsExact' /\ TickSeen' /\ PassSeen'
    BY <1>0, <2>1, RowsExactFrame, TickSeenFrame, PassSeenFrame
  <2> QED BY <1>B, <2>8, <2>9 DEF GoLiveInv
<1>13. CASE UNCHANGED vars
  <2>1. Clocks'
    BY <1>0, <1>13 DEF Clocks, vars
  <2>2. RowsExact' /\ TickSeen' /\ PassSeen'
    BY <1>0, <1>13, RowsExactFrame, TickSeenFrame, PassSeenFrame DEF vars
  <2> QED BY <1>B, <2>1, <2>2 DEF GoLiveInv
<1> QED
  BY <1>1, <1>2, <1>3, <1>4, <1>5, <1>6, <1>7, <1>8, <1>9, <1>10, <1>11, <1>12, <1>13
  DEF Next, PassStep

(* A stale feed nobody has queued shows too little: a post went live since *)
(* it was rendered, and last_tick is older than that post, or lost.        *)
LEMMA StaleIsCovered == GoLiveInv => StaleFeedsAreCovered
<1> SUFFICES ASSUME GoLiveInv, NEW f \in Feeds, Stale(f), f \notin queued,
                    f \notin FeedsToEnqueue(now)
             PROVE  FALSE
  BY DEF StaleFeedsAreCovered
<1> DEFINE t == cached[f].generated_at
<1>0. TypeOK /\ Clocks /\ RowsExact
  BY DEF GoLiveInv, BaseInv
<1>1. Settled(f) /\ cached[f] \in CachedRows
  BY <1>0 DEF Stale, Settled, TypeOK
<1>2. t \in Times /\ t <= now /\ now \in Times /\ now <= now
  BY <1>0, <1>1, GoLiveAssumption DEF CachedRows, Clocks, Settled, TypeOK, Times
<1>3. NoGap(f, now)
  BY <1>1, <1>2, LeftOutHasNoGap
<1>4. OnFeed(f, t) = OnFeed(f, now)
  <2>1. ASSUME NEW p \in Posts, Shown(post[p], f, now) PROVE Shown(post[p], f, t)
    <3>1. post[p] \in PostRows \cup {None} /\ post[p].at <= t
      BY <1>0, <1>3, <2>1 DEF TypeOK, NoGap
    <3> QED BY <1>2, <2>1, <3>1, ShownTime
  <2>2. ASSUME NEW p \in Posts, Shown(post[p], f, t) PROVE Shown(post[p], f, now)
    <3>1. post[p] \in PostRows \cup {None}
      BY <1>0 DEF TypeOK
    <3>2. post[p].at <= now
      BY <1>0, <1>2, <2>2, RenderedNow
    <3> QED BY <1>2, <2>2, <3>1, <3>2, ShownTime
  <2> QED BY <2>1, <2>2, OnFeedIsShown
<1>5. cached[f].items = Items(f, now)
  BY <1>0, <1>1, <1>4 DEF RowsExact, Items
<1> QED BY <1>5 DEF Stale

(* When requests commit at the clock they read, no go-live and no change   *)
(* is lost: a cached feed that is not up to date is queued or will be      *)
(* queued by the next pass, across overlapping, failed and interrupted     *)
(* passes and restarts.                                                    *)
THEOREM StaleCovered ==
  ASSUME MaxRequestDelay = 0
  PROVE  Spec => []StaleFeedsAreCovered
<1>1. GoLiveInv /\ [Next]_vars => GoLiveInv'
  BY GoLiveInvStep
<1> QED BY GoLiveInvInit, StaleIsCovered, <1>1, PTL DEF Spec

(* Under the same hypothesis, the invariant itself: a row nobody will      *)
(* regenerate shows what was public when it was rendered.                  *)
THEOREM SettledRowsAreExact ==
  ASSUME MaxRequestDelay = 0
  PROVE  Spec => []RowsExact
<1>1. GoLiveInv /\ [Next]_vars => GoLiveInv'
  BY GoLiveInvStep
<1>2. GoLiveInv => RowsExact
  BY DEF GoLiveInv
<1> QED BY GoLiveInvInit, <1>1, <1>2, PTL DEF Spec
===============================================================================
