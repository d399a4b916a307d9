# A verification development for sns-x-api

TLA+ modules that model the parts of this service whose correctness depends on
the order of events, TLC configurations that check them on small instances, and
TLAPS proofs of the invariants that hold for any number of posts, accounts and
workers.

Run a configuration with `tlc -config <cfg> <module>`, a proof module with
`tlapm <module>.tla`. `PROJECT.json` lists the runs, the mutants (a small change
of one definition under which each checked property must fail), the source lines
each definition stands for, the hazards and the theorems.

## 1. The system

The service is a small social network. A FastAPI process answers requests, a
worker process consumes Redis Streams, and both use one PostgreSQL database.
Each request, and each task of the worker, has one SQLAlchemy session and one
READ COMMITTED transaction (`app/core/database.py`). Nothing takes a row lock.
Uniqueness is left to primary keys, and the ORM writes back only the columns it
changed, with the values Python computed from what it had read.

| Component | State | Operations | Interacts with |
|---|---|---|---|
| post acceptance (`routers/posts.py`) | `posts` | create (post, reply, quote, repost), delete, unrepost, read, thread | event bus, counters, feed |
| event bus (`core/queue.py`) | one stream, one consumer group, its pending list | `XADD`, `XREADGROUP >`, `XACK` | acceptance, worker |
| worker and dispatcher (`labeling/worker.py`, `dispatcher.py`, `plan.py`, `registry.py`) | the batch in hand, the position in it | read a batch, run the plans in order, mark as failed, acknowledge | event bus, tasks |
| plans of `post.created` (`labeling/flows/*`) | `posts.status`, labels, embedding, `user_feed`, counters, notifications | validate, publish, label, embed, fan out, reply effects, create counters | everything below |
| follow graph and feed cache (`routers/follows.py`, `blocks.py`, `feed/backfill.py`, fan-out) | `follows`, `blocks`, `user_feed` | follow + backfill, unfollow, block, unblock, fan-out | worker, feed pipeline |
| counters (`routers/likes.py`, reply tasks, `delete_post`) | `likes`, `post_engagement` | like, unlike, recount, decrement, create | acceptance, worker |
| feed pipeline (`feed/pipeline.py`, `blender.py`, `embedding/search.py`) | none of its own; the cursor is with the client | For You, Following, updates | reads the feed cache, lists, labels |
| policies (`policy/rules.py`, `engine.py`) | none | thirteen rules in three lists | feed pipeline, thread |
| mutes, keywords, feedback | three tables | insert and delete one row | feed pipeline, health |
| sessions (`request/auth.py`, `routers/auth.py`) | `refresh_tokens`, `users.token_version` | sign up, log in, rotate, revoke, change password, erase | every request |
| moderation and reports | `users.status`, roles, labels, `reports`, audit | hide, suspend, label, grant, resolve | feed, sessions |
| account health and labels | `safety_labels`, `cred_score` | refresh, upsert | feed |
| rate limiting | counters in Redis | `INCR`, `EXPIRE` | requests |
| notifications, impressions | two tables | insert, mark as read | worker, feed |
| search, trends, suggestions, profiles | none of their own | queries | reads the tables above |

The behaviours that are hard, and hard to test. The tests run the plans inside
the request (`InlineEventBus`) on SQLite with one connection, so none of these
ever happens there.

* **Crash and partial failure.** A post is committed first and its event
  appended after that; a worker acknowledges after the dispatch, and reads only
  new entries; a plan that fails does not stop the plans after it; a failed
  dispatch is acknowledged all the same.
* **Interleaving of transactions.** Each handler reads, computes and writes
  without a lock, and so does each task. A follow, a block, an unfollow and a
  fan-out can all be open on the same pair of accounts.
* **Staleness.** A post may be deleted between acceptance and dispatch; a parent
  or an original between the request and the worker; a list between the
  hydrators and the sources of one feed request; a cursor between two pages.
* **Order.** Labels must be committed before the feed rows exist, recounts may
  commit in the other order, a thread must be read from the root.
* **Boundaries.** The page limit and the extra row, the out-of-network quota, the
  backfill window, counters that must not go below zero.

What makes each component correct, in words; the names are those of the
properties below.

* Acceptance, bus, worker: every accepted post is decided (`EveryPostDecided`) once
  and for good, acknowledgement means decision (`AckedMeansDecided`), success means
  that all was written (`SuccessMeansComplete`), nothing spreads from a post that is
  not published (`ImplementsLifecycle`), and no post is shown to followers before it
  is labelled (`LabelledBeforeFanOut`).
* Feed cache: a row needs a follow (`RowsNeedAFollow`); one after the other, a
  follower misses nothing, an unfollowed account disappears, nobody follows across a
  block.
* Counters: they count what is there, and a recount repairs what went wrong.
* Feed pages: no gap, no repetition, no early end; nothing is passed over unweighed;
  a sensitive post stays behind its gate, and its body comes in plain only as a reference; replies come with their context; a thread is connected.
* Sessions: what was ended stays ended, whatever was under way; a login is one
  session, not two; an erased account is gone.
* Rate limit: a window lets as many through as the limit, no more and no fewer, and
  it ends.
* Moderation: the audit trail explains every value but the labels that programs insert; somebody
  stays in charge.
* Account health: no spammer is missed, nobody is labelled without cause, and a
  score is that of the signals there are.
* Profile lists and inbox: each row once, none left out, and an unread badge that
  one can find the cause of.

## 2. Modules and plan

| Module | Models | Proofs |
|---|---|---|
| `PostLifecycle` | the abstract life of a post: accepted, decided once, deleted, spread | |
| `PostPipeline` | acceptance, stream, consumer group, workers, plans and tasks, with faults | `PostPipelineProofs` |
| `FeedCache` | follow, unfollow, block, unblock, publication, fan-out, backfill as overlapping transactions | `FeedCacheProofs` |
| `Engagement` | the counters of one post under overlapping transactions | `EngagementProofs` |
| `FeedPolicy` | the visibility rules and their three lists | |
| `Listings` | what an ORDER BY may return, shared by the two modules that page | |
| `FeedPages` | scrolling either feed, blending, deduplication, paging, threads | `FeedPagesProofs` |
| `SessionPromise` | what `token_version` promises, without transactions or versions | |
| `Sessions` | sign-up, login, rotation, log-outs, change of password, erasure, suspension | `AccessProofs` |
| `RateLimit` | one fixed window: `INCR`, `EXPIRE`, failures, restart of Redis | `AccessProofs` |
| `Moderation` | roles, suspensions, labels, hidden posts, reports, audit | `ModerationProofs` |
| `AccountHealth` | the score, the two labels, and the recomputations after blocks and hides | `AccountHealthProofs` |
| `ProfileLists` | pages of a profile and of likes, and the inbox | `ProfileListsProofs` |

`FeedPages` EXTENDS `FeedPolicy` and `Listings`, `ProfileLists` EXTENDS `Listings`. `AccessProofs`
holds the proofs of the two components that every request passes, sessions and limits; the
definitions of `RateLimit` are named for it (`LimitInit`, `LimitSpec`). `PostPipeline` implements `PostLifecycle`, and
`Sessions` implements `SessionPromise`, through `INSTANCE ... WITH`. Components meet
in the tables, and each module has the writers of its tables: `create_post` is in
`PostPipeline` with its event and in `Engagement` with its counters, a block is in
`FeedCache`, `FeedPages` and `AccountHealth`, a suspension in `Moderation`, `Sessions` and
`FeedPages`, a like in `Engagement`, `AccountHealth` and `ProfileLists`.

What the plan has left: a module of the ranking, whose subject would be the sign of a score
(the weights of the predicted negative reactions make it negative, and the factors for author
diversity and for out-of-network posts then raise it); `/feed/updates`; and for the lists of
`ProfileLists` the proof that every page can be made in one way, as there is for the feeds.

All modules that overlap transactions do it in one way. A request or task is a record
in `open`: one action takes its reads, a second commits what was computed from them,
and anything may commit in between. A row is written column by column, and only where
the new value differs from the one read; a primary key that is taken at the commit
rolls it back; a delete of rows that are gone deletes nothing. What overlapped is
remembered in history variables, so that a property can say which overlap breaks it
and hold against all others.

### PostPipeline

A post is an element of `Post`; `Content` gives its immutable columns: what kind it
is and what it refers to. `BeginCreate` takes the reads of `create_post`,
`CommitCreate` its commit, `PublishEvent` the `XADD`; `LoseEvent` is the failure or
the death of the process in between. `Read` is `XREADGROUP` with `>` and a batch;
`Deliver` and `Remaining` are what a consumer group does with the last delivered
entry, and `ReadReplyLost` is a read whose answer never arrives, in which case the entries
are pending and the worker, which asks for new ones only, does not see them again.
`Current` is the entry in hand and `Goto`, `Return` and `Raise` are `run_plan`:
next task, early return, exception. `ValidatePost`, `PublishPost`,
`ApplySafetyLabels`, `GenerateEmbedding` and `EngagementInit` do what the
transaction of the task commits; none of them looks at anything that another
request may change between its read and its commit. The fan-out and the reply
tasks look at `deleted_at` first and commit later, and a `DELETE` may commit in between:
`FanOutRead` and `FanOutCommit`, and for each concurrent reply task `SideTaskRead` and
`SideTaskCommit`. `looked` holds the reply tasks that have read the post, `writes` what
tasks have decided to write and not committed; `Land` is such a commit. `run_plan` gathers
the reply tasks, so the plan ends with the last of them (`ReplySideEffects`), and one
that fails (`SideTaskFault`) does not stop the others. What they write is `count` and
`notify`; their counters are the subject of `Engagement`. `MarkFailed`, `Dispatched`, `Ack`
and `SkipEntry` are the end of an entry, with or without success. `AfterPlan` is the order
in which `register_plan` registers the plans.

`PostLifecycle` has `begun` for what is in flight: pushing a post to feeds, counting or
notifying of it may begin (`Begin`) only for a post that is published and not deleted, and
what has begun may land later (`Spread`), deleted or not. The refinement maps `begun` to
the `writes` of the worker that handles the post.

`Faults` is the set of faults a configuration allows: `"xadd"`, `"read"`, `"task"`
(any exception of a task), `"mark"` (failure of the task that marks as failed),
`"ack"` and `"crash"`. A crash is followed by a restart with an empty batch, as the
restart policy of the containers does; the pending list stays.

### FeedCache

`follows`, `blocks` and `feed` are the committed tables. A handler is two actions,
its reads and its commit; a transaction that is open is a record in `open`, which
carries the rows and pairs it is going to insert or delete. A primary key that is taken
at commit rolls the transaction back, and the delete of a row that is gone
deletes nothing, as in PostgreSQL. `FanOutRead` and `FanOutCommit` are the task of
the worker. `followed` and `overlapped` are history variables: pairs that ever
followed, and whether two transactions were ever open together.

### Engagement

One post, its `post_engagement` row, its likes, and its children, each a reply or a
repost. `Txn` remembers the row that a transaction saw and the value it is going to
write; `Store` is the flush of the ORM, which updates a column only if the value
differs from what was read and inserts if there was no row. `CreateBegin` and
`CreateCommit` are the check for an earlier repost and the creation of the child,
`CountBegin` and `CountCommit` the recount of the worker, `DeleteBegin` and
`DeleteCommit` are `delete_post` and `unrepost_post`, `InitBegin` and `InitCommit` the
task that creates the row, `Hide` is moderation and the erasure of an account, neither
of which touches a counter. `Workers` bounds the children being dispatched at a time.

### FeedPolicy and FeedPages

A candidate is a record that the hydrators filled, a query is a record of the
viewer's lists. `Drops` has one line per rule and the three lists are sets:
`evaluate_rules` stops at the first DROP, and keeps an INTERSTITIAL until then, so that
the order of a list does not matter. Age and majority are attributes, as nobody
gets older within a scroll.

A page is two steps, `Ask` (the query hydrators) and `AnswerFollowing` or
`AnswerForYou` (sources to selector); a thread is `AskThread` (its posts) and
`AnswerThread` (the lists, the policy, the loop over the replies). Between the two, and
between pages, posts are dispatched (`Arrive`), deleted, hidden, labelled, and accounts
followed, blocked, muted and suspended, or change to a private account and back
(`SetPrivate`, `update_me`). The statements of one `Ask`, and those of one answer, are taken
as one instant; what may change between the two is everything. Posts are numbered in the order of
`(created_at, id)`, so that the compound cursor is a number. The score is any order, the
similarity search any eligible choice of at most two posts of an author, and the health
refresh at the end of a block or of a hide may label the author or not, as this depends
on the likes, hides and blocks of everybody else. `weighed` remembers the rows that For
You fetched and ranked, `steady` the posts that were visible all along. Once a For You
cursor was taken from an out-of-network post (`strayed`) scrolling stops: from there the
pages may go round in circles. A post may quote or repost another (`refersTo`), and
`BodiesOf` gives the bodies that an item carries: its own and, as `ReferenceHydrator` fills it
in, that of what it refers to. The rest of the cards, impressions and the module Who to
follow do not appear.

A request goes by the lists it read and by accounts as they are now, so a reply may be
dropped that was visible all along: its parent's author was followed when the page was
rendered, but not by the list, and went private in between. This leaves no gap above a
cursor. `CursorSelector` gives a next cursor only if more than `limit` candidates are left of
at most `limit + 1` rows, hence only if the policy dropped none of them. What was dropped goes
missing at the end, as in the counterexample of `early_end`.

### Sessions and SessionPromise

One account and its token pairs. A pair has a row of `refresh_tokens` (`refresh`) and an
access token with the `token_version` of its issue (`ver`); `Accepted` is
`get_current_user`. `SignUp`, `LogIn`, `Rotate`, `LogOutAll`, `ChangePassword`, `Erase`,
`UpdateProfile`, `Suspend` and `Unsuspend` are the reads of the handlers, the `Commit...`
actions their commits. `LogOut` is one action: `revoke_refresh_token` selects the row and then
writes it in the same request, and if the token was revoked between the two, the second
revocation changes nothing. `rotate_refresh_token`
revokes the old row and inserts the new one in one commit; `revoke_all_for_user` and its
callers write the version that Python computed. `born` remembers of each pair the login
it descends from and what had been revoked when its request read the account; `overlaps`
collects the kinds of overlap that happened: two revocations, an issue across a sweep of
the refresh tokens, two rotations of one token, a log-out across a rotation, a profile
update across an erasure. `SessionPromise` has three actions that matter: a session
begins, all sessions end, and the promise becomes void (two revocations overlap).

### RateLimit

One key: `Incr`, `Expire`, the failures of either (`IncrFails` may have counted or not,
`ExpireFails` leaves the key without an expiry), `WindowEnds` and `RedisRestarts`. A
request whose `INCR` fails is let through, as the code says. The count is compared with 1
and with the limit only, so it is counted up to `Cap`, one above the limit.

### Moderation

Accounts with roles and a status, posts, labels, reports, and of the audit trail the
events about each column (`audit`). `Begin` is the admission of a request with its
permission (`Permitted`, `Admitted`) and its reads; the commits write the column and
its event together. Labels are also inserted by programs, `refresh_user_health` and
`ApplyPostSafetyLabelsTask`, without an event: `DetectLabels` looks for the rows that are
missing, `InsertLabels` inserts them all or, if one is there by now, none (`writing`,
`unsigned`). `write_label` can lose a conflict on a key, to a moderator or to a program, and
then nothing of it remains, its event neither. `contended` collects the columns that two open requests
were about to write; `undercut` says that somebody lost power with a request of his
open, or that an admin demoted himself.

### AccountHealth

The signals of one account: who follows and blocks it, whom it follows, and who likes and
hides which of its posts. Likes and hides are pairs of a viewer and a post, and those on
posts that are not deleted count, as in `refresh_user_health`: one viewer may hide three posts.
`AskBlock` is `block_user` up to its reads, `Block` its first commit; a follow that was
committed in between stays. `Hide` is the first commit of `upsert_feedback`. Both leave a
recomputation behind (`jobs`), as does a look under the hood: the second transaction of the
request. `Count` reads the signals, `Store` writes, `Fail` is a conflict on a label's key or
the end of the request. `loaded` is the score that the session had loaded before, and that the
ORM compares with. The other handlers (`Unblock`, `Unhide`, `Like`, `Unlike`, `Follow`,
`Unfollow`, `FollowBack`, `UnfollowBack`, `DeletePost`) recompute nothing. They read before
they commit, so a like, a hide or a follow may still be committed after a deletion or a block.
`Cred` is the formula in thousandths; of `Log1p` the module assumes that it grows from 0 and
is at most 1099 at 2, the configuration gives it its values. The counting statements of one
recomputation are one action. What changes between two of them is a change without
recomputation, or one that is followed by a recomputation of its own; the properties except
the former (`drift`) and wait for the latter. `drift` says what has changed since the last
block or hide without a recomputation, `lost`, `overlap` and `pressure` what else the
properties except.

### ProfileLists

An owner with posts and replies, a reader, and accounts that like. A row's `created_at`
is the time its transaction began, so rows appear in another order than they are listed
in (`writing`, `clock`, `late`). Each statement of a request is an action. A page is `Ask` (the owner and
`is_private`), `Check` (whether the reader follows) and `Answer` (the rows, the cursor);
`crossed` remembers a request between whose first two reads a private owner went public and
the reader left. The inbox is `ListInbox` (the newest rows, `seen`) and `CountUnread`;
`arrived` says that a notification was committed between them. `Items` groups the likes
of a fan; `MarkRead` marks all notifications, also those that were never on the list.

## 3. What is checked

All bounds are constants of the configurations. Deadlock is not checked: a system with all
its posts decided, or with its bound of requests or changes used up, stops. What must
happen all the same is stated as liveness (`decided`, `limit`).

| Run | Module | Bounds | What it shows |
|---|---|---|---|
| `faults` | `MCPostPipeline` | 3 posts, one a reply, 2 workers, batches of 2; lost events, lost reads, failures to mark and to acknowledge, crashes | `AckedMeansDecided`, `LabelledBeforeFanOut`, a post fails only because what it refers to is gone (`FailedOnlyForGoneReference`), and the pipeline implements `PostLifecycle` |
| `decided` | `MCPostPipeline` | 2 posts, 2 workers, batches of 2, failing tasks, fairness | every accepted post is decided, and it reaches the feeds unless a failure was reported (`NoSilentLoss`); success is complete |
| `crash` | `MCPostPipeline` | 2 posts, 1 worker, crashes | counterexample to `EveryPostDecided` |
| `cache` | `MCFeedCache` | 2 accounts, 2 posts of one author, backfill of 1, 2 open transactions | what survives any overlap, and three properties that hold without overlap |
| `counts` | `MCEngagement` | 2 accounts, 2 children of either kind, 1 dispatch and 2 transactions at a time, likes up to 2 | a recount repairs; without overlap likes and reposts are exact |
| `pages` | `MCFeedPages` | 4 posts, at least 3 there at the start, 2 authors, pages of 1, 2 changes | order, gaps, end, what For You weighs, where sensitive bodies appear, replies in context, threads |
| `early_end` | `MCFeedPages` | the same, 1 change | counterexample to `EndMeansEnd` |
| `limit` | `MCRateLimit` | 3 clients, limit 2, one failing `INCR` a window, fairness | the bound from both sides; every window ends |
| `sessions` | `MCSessions` | 4 token pairs, 2 open requests, 5 requests | five promises, each with the overlap that breaks it, and the refinement |
| `moderation` | `MCModeration` | an admin, a moderator, a user; one post, label and report; programs that label; 4 requests | the trail, the labels, somebody in charge |
| `health` | `MCAccountHealth` | 2 other accounts, 3 posts, 3 changes, 1 look or label, 2 requests that recompute at a time | no spammer missed, no label without cause, the score is current |
| `lists` | `MCProfileLists` | 2 accounts that like, 3 posts, pages of 1, an inbox of 2, 3 changes | each row once, none left out, the badge |

Why the bounds are enough.

* The pipeline treats posts alike except through the reference, so a post and one that
  refers to it show every relation between two, and three posts in batches of two let a
  batch be cut by a crash; two workers are a rolling deployment.
* The races on the feed cache concern one pair of accounts (both directions, hence two
  accounts) and at most two transactions; two posts exceed a backfill window of one.
* A lost update needs two writers of one row. `counts` uses the symmetry of the two
  children: they have the same owner, and no property tells them apart. With one worker
  (`Workers = 1`, as in the compose files and in `desired_count` of the worker service) a
  recount always repairs; with two, two recounts can commit in the other order.
* Pages of one with four posts give a page of limit + 1, a last page, and a conversation
  of three; two changes can fall before, between and within pages.
* Four token pairs allow a login, two rotations of it and a second login; five requests
  allow a suspension, its end and a rotation that straddles either.
* Three clients can be between `INCR` and `EXPIRE` at once, more than the limit of two.
* Three blocks or hides are `MIN_SIGNALS_FOR_SPAM`, and three changes with three posts reach it,
  by one reader or by two; one block reaches the threshold of the score. Readers are
  interchangeable, and so are posts (symmetry).
* Four requests of three accounts let a moderator be suspended or demoted while he
  suspends, and a label or report be written twice.

### Fairness

`FairSpec` of `PostPipeline` (runs `decided` and `crash`) assumes weak fairness of each
worker's steps and of the append of an event, and none for requests, deletions or faults.
The worker loop of `worker.py` runs for ever and handles one batch after the other; its
`block` argument only delays an empty read. Fairness says nothing of a crashed worker's
pending entries: no code reads them.

`LimitFairSpec` of `RateLimit` assumes that a request that created the key goes on to its
`EXPIRE`, in vain or not, and that Redis removes what has expired. Nobody has to make
requests, and no restart is assumed.

### Where code and documentation disagree

Two runs have a counterexample. Each is a behaviour of the code, and contradicts the
sentence that `PROJECT.json` quotes.

* `crash`, `EveryPostDecided`: a worker that dies between delivery and
  acknowledgement leaves the post in `processing` for ever.
* `early_end`, `EndMeansEnd`: a page from which the policy dropped a row says that it is
  the last.

Other behaviours of the code that the models have, and that a property excludes by its
premise. Remove the premise, and the run of the property shows them.

* `SerialFollowingOnly`: fan-out reads the followers, an unfollow commits, fan-out
  inserts its row; Following goes on to show the account.
* `SerialNoFollowAcrossBlock`: a follow and a block that overlap both commit.
* `SerialFollowersMissNothing`: a follow that reads before the publication and commits
  after fan-out read the followers never receives the post, and a backfill that inserts
  one row of a fan-out loses the rows of all followers.
* `SerialLikeCountExact`: two likes write the same count. `RecountIsExact`: deleting a
  reply does not correct the count of its parent. `SerialRepostsTakenBack`: two requests of
  an account that overlap both repost.
* `AccessEndsWithRevocation`: two revocations that overlap write the same version, and a
  token issued between their commits outlives the second.
* `SweepEndsSessions`: a login that read before a sweep and commits after it leaves a
  valid refresh token. `OneSessionPerLogin`: two rotations of one token both succeed.
  `ErasedLeavesNothing`: a profile update that straddles the erasure writes the name back.
* `AuditReplays`: two moderators resolve one report, and status and resolver may come
  from different requests.
* `LabelNeedsPressure` counts a single block as pressure: for an account without
  followers it suffices for both labels, below the three signals the constant asks for.
* `ListsComplete`: the owner is read as private, goes public, the reader leaves, and the follow
  is read: the answer is an empty list and a null cursor, though the posts were visible all
  along.
* `BadgeHasCause`: a notification that is committed between the listing and the count, or that
  appears late, below the end of the list, counts as unread and cannot be seen; marking
  everything as read marks it too, unseen.
* `SensitiveOnlyQuoted`: an NSFW body comes in plain, and to minors, as the reference of a quote or
  repost, although the comment at `policy/rules.py:36` says that minors never see NSFW posts.
* `ImplementsLifecycle`: a post that is deleted between the read and the commit of a task is
  still pushed by it.
* `LabelsOnRecord`: a moderator who loses the key to a program is refused and leaves no event.

## 4. What is proved

Each proof module shows that an inductive invariant holds initially and is kept by
every action, one step per action, and derives the properties from it. The proofs
assume what the modules assume of their constants (`ContentAssumption`,
`CacheAssumption`, `EngagementAssumption`, `PagesAssumption`, `LimitAssumption`,
`SessionAssumption`, `ModerationAssumption`, `HealthAssumption`, `ListsAssumption`: the shape of posts,
positive bounds, finite sets where something is counted, a logarithm that grows), and
nothing of the size of the sets.

**PostPipeline.** None of the safety properties is inductive. `IInv` adds what ties
the four places where an entry can be: an entry in a worker's batch is delivered and
not acknowledged; no two batches share an entry and none holds one twice; the position
of a worker in its plans determines what has been written for the current post, unless a
task failed, which the worker's error flag records; what is in flight belongs to the plan
that runs, and to a published post (`FlightInv`). From it follow `Acknowledgement`
(`AckedMeansDecided`), `Completion` (`SuccessMeansComplete`), that no event is dispatched
twice (`Dispatch`), that only published posts spread (`Spreading`), `Finality`, an action
property (the tasks that write a status do so only from `processing`), and
`Refinement` (`ImplementsLifecycle`): each step of the pipeline is a step of the abstract
life of a post, or none.

A second invariant, `FaultlessInv`, is relative to `IInv` and concerns pipelines in which no
task raises by accident. What a request found published stays published
(`RefsPublished`), so that a reference can only go away; a worker between the labels and
the fan-out has written the labels (`LabelledSoFar`); an error flag has a reason that lasts
(`ErrorsExplained`). `LabelsPrecedeFanOut` (`LabelledBeforeFanOut`) and
`FailuresHaveReasons` (`FailedOnlyForGoneReference`) follow, with crashes and lost events
allowed.

**FeedCache.** The rows that are on their way (targets of an open fan-out, rows of an
open follow) must obey what rows in the table obey (`RowsInFlight`), nobody follows himself
and no open unfollow or block holds an own row (`OwnRowsSafe`), and an open fan-out
brings the author's row (`AuthorTargeted`). From these follow `RowsNeedAFollow`, that
rows are of published posts, and that authors are served their own.

Without overlap `SerialInv` holds too. One transaction is open at a time (`OneAtATime`), and
what it read is still true: the targets of a fan-out are the followers who lack the post
(`TargetsCurrent`), a follow brings what its follower is owed (`FollowsCurrent`), an unfollow
or block takes all the rows of its follows (`DropsCurrent`). Publications and deletions are
single steps and may fall in between. With them every follower has each fanned-out post, or
newer posts had filled the backfill window (`Reached`), and the three `Serial...` properties
follow for any accounts, posts and window.

**Engagement.** `IInv` holds for any number of workers: the row never disappears
(`RowStays`), a child is counted by one task at most (`CountsOnce`), and as long as nothing
overlapped an open transaction has read what is in the table (`SerialReads`) and the
counters are those of the table (`SerialCounts`). The exactness of a recount needs
`Workers = 1`: `RInv` adds that one dispatch is under way at most (`OneInFlight`) and that the
last recount has seen all that was published (`Recounted`).

**FeedPages.** The properties speak of order, of cuts and of a loop, so the proofs begin with
lemmas about these. A listing of a finite set has each element once (`ListingFacts`); if keys
tell the elements apart, there is a listing in their order (`ListingExists`: each element goes
to the place of its rank) and only one (`ListingUnique`); a cut at the newest `n` rows is closed
upwards (`NewestClosed`), and one that leaves something out is full (`NewestFull`); the loop of
`get_thread` reaches its fixpoint within as many passes as there are posts (`ThreadFixpoint`).
Where induction is needed it is the least element of a set of numbers (`LeastOf`, from the
well-foundedness of `<`): the least pass at which the recursion would not be defined, the least
place at which two listings differ.

`IInv` ties the cursor to the history. Nothing shown in Following lies below the cursor
(`ShownAbove`), what was steady is still visible (`SteadyVisible`), and an open request goes by
the viewer's birthdate (`AgeKnown`). Nothing is assumed of the lists that a request has read,
which may be as stale as they like: a list longer than a page comes from `limit + 1` rows of
which none was dropped (`NothingDropped`), so every page with a next cursor holds all that was
fetched above it. From these follow `FollowingNeverRepeats`,
`FollowingLeavesNoGaps`, `FollowingEndIsTheEnd`, `ForYouHasWeighed`, `NsfwOnlyQuoted`,
`ThreadsAreConnected`, and `RepliesComeInContext`, an action property, for any posts, accounts,
words, sizes of pages and numbers of changes; `ConversationsComeOnce` says the same of the
deduplication. `PagesAreDetermined` and `ForYouIsPossible` show that none of them holds for want
of pages: an open request of Following or for a thread has one answer, and every blend and
every ranking of For You has one.

**Sessions.** Versions in tokens and in open requests do not exceed the account's, and
the number of revocations a token has seen is tied to its version as long as no two
revocations overlapped (`Versions`); the same for sweeps (`Sweeps`), for the descent of a
pair from its login (`Moves`, `Departed`) and for the profile (`Profiles`, `Erasure`). The
five properties and `VersionsImplementPromise`, the refinement of `SessionPromise`, follow.

**RateLimit.** While nobody is refused, the count is the number of requests let through,
up to those whose `INCR` failed (`CountedPass`, `PassesCounted`), and a key has an expiry, or
somebody about to set it, or was orphaned (`ExpiryAssured`, the safety part of
`EveryWindowEnds`).

**Moderation.** An open request on a column that nobody else is about to write has read
what is in the table (`ReadsCurrent`), a report is created before it is resolved
(`ReportsInOrder`), and whoever has a request open is in charge unless he was undercut
(`ActorsInCharge`). These carry `AuditReplays`, `LabelsOnRecord` and `SomeoneInCharge`.

**AccountHealth.** A recomputation that counted a low score is going to label
(`CountedOK`); a spammer is labelled or has a recomputation that will see it
(`SpammerWatched`); without overlap the only one under way knows the score in the table and
the present signals (`OneAtATime`); blocks, and three hides at a time, have been recorded as
pressure (`PressureSeen`). Four properties follow, for any number of readers and posts. The
arithmetic is settled in lemmas of its own: the score and the test for spam get no worse for the
account when signals change in its favour (`CredMonotone`, `SpammyMonotone`), and two hides
alone stay above 25 points (`CredRange`), from what is assumed of `Log1p`.

**ProfileLists.** The inbox is finite, its newest row exists (`NewestExists`), and unless
something appeared late, no read row is newer than an unread one (`ReadFirst`).
`BadgeHasCause` follows for any length of the list.

A second invariant, `PagesInv`, is relative to `IInv` and concerns the pages. Likes that are
there or about to be have times of their own (`TimesDiffer`) and, unless two overlapped, there
is one of each fan and post (`OneOfEach`); what the reader likes of the posts he was shown is
what was shown, or newer (`LikedAgainAbove`), so that it cannot be met again further down. What
is steady belongs to the list of an open request too, unless its two reads were crossed
(`SteadyThere`: what is visible with the old flag and the old follow, and with the new ones, is
visible with one of each, but for that case), and has been shown unless it lies below the
cursor (`SteadyShown`). `RowsComeOnce` (`EachOnce`) and `ListsAreComplete`
(`ListsComplete`) follow for any posts, fans, sizes of pages and numbers of changes.

**Only model-checked.** Every safety property that a passing run checks is also the statement of
a theorem. Liveness (`EveryPostDecided`, `NoSilentLoss`, `EveryWindowEnds`) needs ENABLED, which
is beyond the prover, and stays with the runs `decided` and `limit`; `KeysExpire` is the safety
part of the last. The theorems say nothing of the two runs that have a counterexample.

## 5. What is not modelled

* Impressions: rows appended after the answer, which the feed reads only for the penalty of
  what was seen; the score is left open.
* `GET /feed/updates`, who may refer to a private author's post, `get_post` and `reveal`, which
  read one row; the card of a profile and the lists of followers, one page without a cursor.
* Text, embeddings, similarity and weights: floating-point numbers whose only effect on a
  feed is an order, which the model leaves open.
* Search, trends and suggestions: read-only queries over tables modelled elsewhere.
* The expiry of tokens, which only takes them out of use; the models let every token be used
  however late.
* Configuration, telemetry, migrations and infrastructure: no state that the properties depend
  on. The infrastructure gives the number of processes and their restart policy.
* `InlineEventBus` and the SQLite search of the tests.
