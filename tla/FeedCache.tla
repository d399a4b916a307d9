------------------------------- MODULE FeedCache -------------------------------
(***************************************************************************)
(* The follow graph, the blocks and user_feed, the table that holds a copy *)
(* of every post for its author and followers.  Four writers maintain it:  *)
(* the fan-out plan of the worker, and the follow, unfollow and block      *)
(* handlers.  Each is one READ COMMITTED transaction that first queries    *)
(* and later commits what it computed from the answers; between the two,   *)
(* other transactions commit.                                              *)
(*                                                                         *)
(* A handler is two actions: the first takes all its reads, the second     *)
(* commits.  An insert of a key that was committed meanwhile raises        *)
(* IntegrityError and rolls everything back; a delete of a row that is     *)
(* gone deletes nothing.                                                   *)
(***************************************************************************)
EXTENDS Naturals, FiniteSets

CONSTANTS
    User,
    NPosts,        \* posts are numbered in the order of created_at
    Author,        \* post -> its author
    BackfillLimit, \* BACKFILL_LIMIT
    Concurrency    \* bound: transactions open at a time

Post == 1..NPosts

ASSUME CacheAssumption ==
    /\ NPosts \in Nat
    /\ Author \in [Post -> User]
    /\ BackfillLimit \in Nat
    /\ Concurrency \in Nat \ {0}

VARIABLES
    stage,    \* post -> its progress through publication and fan-out
    deleted,  \* posts with deleted_at
    follows,  \* committed <<follower, followee>> pairs
    blocks,   \* committed <<blocker, blocked>> pairs
    feed,     \* committed <<owner, post>> rows of user_feed
    targets,  \* post -> users its open fan-out is going to insert a row for
    open,     \* handler transactions that have read and not committed
    followed,   \* history: pairs that were in follows at some time
    overlapped  \* history: have two transactions been open together?

vars == <<stage, deleted, follows, blocks, feed, targets, open, followed, overlapped>>

Stages == {"processing", "published", "fanning", "fanned", "fanout_failed"}

Published(p) == stage[p] # "processing"

Rows(u, posts) == {u} \X posts

Fanning == {p \in Post : stage[p] = "fanning"}

MayOpen == Cardinality(open) + Cardinality(Fanning) < Concurrency

NoteOverlap == overlapped' = (overlapped \/ open # {} \/ Fanning # {})

Init ==
    /\ stage = [p \in Post |-> "processing"]
    /\ deleted = {}
    /\ follows = {}
    /\ blocks = {}
    /\ feed = {}
    /\ targets = [p \in Post |-> {}]
    /\ open = {}
    /\ followed = {}
    /\ overlapped = FALSE

-----------------------------------------------------------------------------
(* The worker                                                              *)

(* PublishPostTask commits long before fan-out: labels and embedding come  *)
(* first.                                                                  *)
Publish(p) ==
    /\ stage[p] = "processing"
    /\ stage' = [stage EXCEPT ![p] = "published"]
    /\ UNCHANGED <<deleted, follows, blocks, feed, targets, open, followed, overlapped>>

(* Mutant: the accounts the author follows.                                *)
Followers_Swapped(u) == {v \in User : <<u, v>> \in follows}

Followers(u) == {v \in User : <<v, u>> \in follows}

(* FanOutTask reads the followers and skips those that have the row.       *)
FanOutRead(p) ==
    /\ stage[p] = "published"
    /\ MayOpen
    /\ NoteOverlap
    /\ IF p \in deleted
       THEN /\ stage' = [stage EXCEPT ![p] = "fanned"]
            /\ UNCHANGED targets
       ELSE /\ stage' = [stage EXCEPT ![p] = "fanning"]
            /\ targets' = [targets EXCEPT ![p] =
                  {u \in Followers(Author[p]) \cup {Author[p]} : <<u, p>> \notin feed}]
    /\ UNCHANGED <<deleted, follows, blocks, feed, open, followed>>

(* All rows are inserted in one commit: a single row that exists by now    *)
(* loses the whole fan-out, and nothing retries it.                        *)
FanOutCommit(p) ==
    /\ stage[p] = "fanning"
    /\ LET new == targets[p] \X {p}
       IN IF new \cap feed = {}
          THEN /\ feed' = feed \cup new
               /\ stage' = [stage EXCEPT ![p] = "fanned"]
          ELSE /\ stage' = [stage EXCEPT ![p] = "fanout_failed"]
               /\ UNCHANGED feed
    /\ targets' = [targets EXCEPT ![p] = {}]
    /\ UNCHANGED <<deleted, follows, blocks, open, followed, overlapped>>

Delete(p) ==
    /\ p \notin deleted
    /\ deleted' = deleted \cup {p}
    /\ UNCHANGED <<stage, follows, blocks, feed, targets, open, followed, overlapped>>

-----------------------------------------------------------------------------
(* The handlers                                                            *)

(* The slot tells apart two transactions that are otherwise equal.         *)
Slot == CHOOSE i \in 1..Concurrency : \A txn \in open : txn.slot # i

(* What a handler is going to do: the rows to add or remove for the pairs  *)
(* to add or remove, and for a block the pair that blocks.                 *)
Txn(op, edges, rows, block) ==
    [op |-> op, edges |-> edges, rows |-> rows, block |-> block, slot |-> Slot]

Begin(txn) ==
    /\ MayOpen
    /\ NoteOverlap
    /\ open' = open \cup {txn}
    /\ UNCHANGED <<stage, deleted, follows, blocks, feed, targets, followed>>

End(txn) == open' = open \ {txn} /\ UNCHANGED <<stage, deleted, targets, overlapped>>

Rollback(txn) == End(txn) /\ UNCHANGED <<follows, blocks, feed, followed>>

Blocked(u, v) == {<<u, v>>, <<v, u>>} \cap blocks # {}

(* Mutant: the oldest posts.                                               *)
Backfill_Oldest(v) ==
    LET visible == {p \in Post : Author[p] = v /\ Published(p) /\ p \notin deleted}
    IN {p \in visible : Cardinality({q \in visible : q < p}) < BackfillLimit}

(* The newest visible posts of v, at most BackfillLimit of them.           *)
Backfill(v) ==
    LET visible == {p \in Post : Author[p] = v /\ Published(p) /\ p \notin deleted}
    IN {p \in visible : Cardinality({q \in visible : q > p}) < BackfillLimit}

FollowBegin(u, v) ==
    /\ u # v
    /\ ~Blocked(u, v)
    /\ <<u, v>> \notin follows
    /\ Begin(Txn("follow", {<<u, v>>}, Rows(u, Backfill(v)) \ feed, {}))

FollowCommit(txn) ==
    /\ txn.op = "follow"
    /\ IF txn.edges \cap follows = {} /\ txn.rows \cap feed = {}
       THEN /\ follows' = follows \cup txn.edges
            /\ followed' = followed \cup txn.edges
            /\ feed' = feed \cup txn.rows
            /\ End(txn) /\ UNCHANGED blocks
       ELSE Rollback(txn)

(* Mutant: owner and author swapped.                                      *)
FolloweeRows_Swapped(e) == {r \in feed : r[1] = e[2] /\ Author[r[2]] = e[1]}

(* remove_followee_from_feed: the rows the query finds.                    *)
FolloweeRows(e) == {r \in feed : r[1] = e[1] /\ Author[r[2]] = e[2]}

UnfollowBegin(u, v) ==
    /\ <<u, v>> \in follows
    /\ Begin(Txn("unfollow", {<<u, v>>}, FolloweeRows(<<u, v>>), {}))

UnfollowCommit(txn) ==
    /\ txn.op = "unfollow"
    /\ follows' = follows \ txn.edges
    /\ feed' = feed \ txn.rows
    /\ End(txn)
    /\ UNCHANGED <<blocks, followed>>

(* Mutant: only the blocker's own follow is dropped.                       *)
BlockBegin_OneWay(u, v) ==
    /\ u # v
    /\ <<u, v>> \notin blocks
    /\ LET found == {<<u, v>>} \cap follows
       IN Begin(Txn("block", found, UNION {FolloweeRows(e) : e \in found}, {<<u, v>>}))

(* block_user drops the follows it finds in either direction, each with    *)
(* the rows it brought.                                                    *)
BlockBegin(u, v) ==
    /\ u # v
    /\ <<u, v>> \notin blocks
    /\ LET found == {<<u, v>>, <<v, u>>} \cap follows
       IN Begin(Txn("block", found, UNION {FolloweeRows(e) : e \in found}, {<<u, v>>}))

BlockCommit(txn) ==
    /\ txn.op = "block"
    /\ IF txn.block \cap blocks = {}
       THEN /\ blocks' = blocks \cup txn.block
            /\ follows' = follows \ txn.edges
            /\ feed' = feed \ txn.rows
            /\ End(txn) /\ UNCHANGED followed
       ELSE Rollback(txn)

(* unblock_user reads and deletes one row: a single step.                  *)
Unblock(u, v) ==
    /\ <<u, v>> \in blocks
    /\ blocks' = blocks \ {<<u, v>>}
    /\ UNCHANGED <<stage, deleted, follows, feed, targets, open, followed, overlapped>>

-----------------------------------------------------------------------------

Next ==
    \/ \E p \in Post : Publish(p) \/ FanOutRead(p) \/ FanOutCommit(p) \/ Delete(p)
    \/ \E u, v \in User :
          FollowBegin(u, v) \/ UnfollowBegin(u, v) \/ BlockBegin(u, v) \/ Unblock(u, v)
    \/ \E txn \in open : FollowCommit(txn) \/ UnfollowCommit(txn) \/ BlockCommit(txn)

Spec == Init /\ [][Next]_vars

-----------------------------------------------------------------------------
(* Properties                                                              *)

Pairs == User \X User

(* Every variable stays in its range.                                      *)
TypeOK ==
    /\ stage \in [Post -> Stages]
    /\ deleted \subseteq Post
    /\ follows \subseteq Pairs
    /\ blocks \subseteq Pairs
    /\ feed \subseteq User \X Post
    /\ targets \in [Post -> SUBSET User]
    /\ \A txn \in open :
          /\ txn.op \in {"follow", "unfollow", "block"}
          /\ txn.edges \subseteq Pairs /\ txn.block \subseteq Pairs
          /\ txn.rows \subseteq User \X Post
    /\ followed \subseteq Pairs
    /\ overlapped \in BOOLEAN

(* The feed never holds a row for someone who never followed the author,   *)
(* whatever overlaps: a row costs a follow (fan-out and backfill both read *)
(* committed or own follows).                                              *)
RowsNeedAFollow ==
    \A r \in feed : r[1] = Author[r[2]] \/ <<r[1], Author[r[2]]>> \in followed

(* Only published posts are copied to feeds, by fan-out and backfill alike. *)
RowsOnlyPublished == \A r \in feed : Published(r[2])

(* A fan-out that succeeded on a post that was not deleted has reached the *)
(* author, and no unfollow or block takes the author's own copy away.      *)
AuthorKeepsOwnPosts ==
    \A p \in Post : stage[p] = "fanned" => <<Author[p], p>> \in feed \/ p \in deleted

(* Following shows followed accounts only (and one's own posts): a feed    *)
(* row of someone else's post belongs to a current follower.               *)
FollowingOnly ==
    \A r \in feed : r[1] = Author[r[2]] \/ <<r[1], Author[r[2]]>> \in follows

(* Nobody follows across a block: "Cannot follow a blocked user".          *)
NoFollowAcrossBlock == \A e \in follows : ~Blocked(e[1], e[2])

(* One after the other, the handlers and fan-out keep the feed a mirror of *)
(* the follow graph: no row outlives the follow that brought it, although  *)
(* publication, deletion and unblocking come at any time.                  *)
SerialFollowingOnly == ~overlapped => FollowingOnly

(* One after the other, block_user drops every follow there is between the *)
(* two and follow_user sees every block.                                   *)
SerialNoFollowAcrossBlock == ~overlapped => NoFollowAcrossBlock

(* One after the other, a follower misses a fanned-out post only if more   *)
(* recent posts of the author filled the backfill window: fan-out and      *)
(* backfill together leave no gap.                                         *)
SerialFollowersMissNothing ==
    ~overlapped /\ open = {} =>
        \A p \in Post : \A u \in Followers(Author[p]) :
            stage[p] \in {"fanned", "fanout_failed"} /\ p \notin deleted
                => \/ <<u, p>> \in feed
                   \/ Cardinality({q \in Post : Author[q] = Author[p] /\ q > p /\ Published(q)})
                         >= BackfillLimit

-----------------------------------------------------------------------------
(* The inductive invariant behind the properties that survive any overlap  *)

(* u has a claim to the posts of v.                                        *)
Deserved(u, v, pairs) == u = v \/ <<u, v>> \in pairs

(* Rows on their way to the feed, in open fan-outs and open follows, obey  *)
(* what the rows of the feed obey; a follow brings the pair it needs.      *)
RowsInFlight ==
    /\ \A p \in Post : \A u \in targets[p] : Published(p) /\ Deserved(u, Author[p], followed)
    /\ \A txn \in open : txn.op = "follow" =>
          \A r \in txn.rows :
             Published(r[2]) /\ Deserved(r[1], Author[r[2]], followed \cup txn.edges)

(* Nobody follows himself, so no unfollow or block removes an own row.     *)
OwnRowsSafe ==
    /\ \A e \in follows : e[1] # e[2]
    /\ \A txn \in open :
          /\ \A e \in txn.edges : e[1] # e[2]
          /\ txn.op # "follow" => \A r \in txn.rows : r[1] # Author[r[2]]

(* An open fan-out brings the author's row unless it is there.             *)
AuthorTargeted ==
    \A p \in Post : stage[p] = "fanning" => Author[p] \in targets[p] \/ <<Author[p], p>> \in feed

IInv ==
    /\ TypeOK
    /\ follows \subseteq followed
    /\ RowsInFlight
    /\ OwnRowsSafe
    /\ AuthorTargeted
    /\ RowsNeedAFollow
    /\ RowsOnlyPublished
    /\ AuthorKeepsOwnPosts

(* The one behind the properties of handlers that come one after the other *)

Settled(p) == stage[p] \in {"fanned", "fanout_failed"} /\ p \notin deleted

(* Newer posts of the same author that a backfill prefers to p.            *)
Newer(p) == {q \in Post : Author[q] = Author[p] /\ q > p /\ Published(q)}

(* u has p, or was never owed it.                                          *)
Has(u, p, rows) == <<u, p>> \in rows \/ Cardinality(Newer(p)) >= BackfillLimit

OneAtATime ==
    /\ \A s, t \in open : s = t
    /\ open = {} \/ Fanning = {}

(* An open fan-out is about to serve exactly the followers there are that  *)
(* have not got the post.                                                  *)
TargetsCurrent ==
    \A p \in Post :
        /\ stage[p] # "fanning" => targets[p] = {}
        /\ \A u \in targets[p] : Deserved(u, Author[p], follows) /\ <<u, p>> \notin feed
        /\ stage[p] = "fanning" =>
              \A u \in Followers(Author[p]) : u \in targets[p] \/ <<u, p>> \in feed

(* An open follow meets no block, and brings what its follower is owed.    *)
FollowsCurrent ==
    \A txn \in open : txn.op = "follow" =>
        /\ \A r \in txn.rows : <<r[1], Author[r[2]]>> \in txn.edges
        /\ \A e \in txn.edges :
              /\ ~Blocked(e[1], e[2])
              /\ \A p \in Post : Author[p] = e[2] /\ Settled(p) => Has(e[1], p, txn.rows \cup feed)

(* An open unfollow or block takes the rows of the follows it takes, and   *)
(* no others; a block takes the follows in both directions.                *)
DropsCurrent ==
    \A txn \in open : txn.op # "follow" =>
        /\ \A r \in feed : r \in txn.rows <=> <<r[1], Author[r[2]]>> \in txn.edges
        /\ \A b \in txn.block : {b, <<b[2], b[1]>>} \cap follows \subseteq txn.edges

Reached ==
    \A p \in Post : Settled(p) => \A u \in Followers(Author[p]) : Has(u, p, feed)

SerialInv ==
    ~overlapped =>
        /\ OneAtATime
        /\ TargetsCurrent /\ FollowsCurrent /\ DropsCurrent
        /\ FollowingOnly /\ NoFollowAcrossBlock /\ Reached

================================================================================
