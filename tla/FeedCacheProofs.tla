---------------------------- MODULE FeedCacheProofs ----------------------------
(***************************************************************************)
(* What the feed cache keeps whatever overlaps, for any accounts, posts,   *)
(* backfill limit and number of open transactions: the properties that do  *)
(* not depend on the order of the commits.                                 *)
(***************************************************************************)
EXTENDS FeedCache, FiniteSetTheorems, TLAPS

(* No follow, no row and no transaction: every part of the invariant is    *)
(* vacuous.                                                                *)
LEMMA InitIInv == Init => IInv
BY CacheAssumption DEF Init, IInv, TypeOK, RowsInFlight, OwnRowsSafe, AuthorTargeted, RowsNeedAFollow,
   RowsOnlyPublished, AuthorKeepsOwnPosts, Stages, Pairs

-----------------------------------------------------------------------------
(* The worker's steps                                                      *)

(* A publication can only add to the posts that may be copied.             *)
LEMMA PublishPreserves ==
    ASSUME IInv, NEW p \in Post, Publish(p)
    PROVE  IInv'
<1>1. stage[p] = "processing" /\ stage' = [stage EXCEPT ![p] = "published"]
      /\ UNCHANGED <<deleted, follows, blocks, feed, targets, open, followed, overlapped>>
  BY DEF Publish
<1>2. TypeOK'
  BY <1>1 DEF IInv, TypeOK, Stages
<1>3. \A q : Published(q) => Published(q)'
  BY <1>1 DEF Published
<1>4. RowsInFlight'
  BY <1>1, <1>3 DEF IInv, RowsInFlight, Deserved
<1>5. OwnRowsSafe' /\ RowsNeedAFollow'
  BY <1>1 DEF IInv, OwnRowsSafe, RowsNeedAFollow
<1>6. AuthorTargeted' /\ AuthorKeepsOwnPosts'
  BY <1>1 DEF IInv, AuthorTargeted, AuthorKeepsOwnPosts, TypeOK
<1>7. RowsOnlyPublished'
  BY <1>1, <1>3 DEF IInv, RowsOnlyPublished
<1>8. QED BY <1>1, <1>2, <1>4, <1>5, <1>6, <1>7 DEF IInv

(* What fan-out is going to insert goes to the author and to current       *)
(* followers, who are in the history.                                      *)
LEMMA FanOutReadPreserves ==
    ASSUME IInv, NEW p \in Post, FanOutRead(p)
    PROVE  IInv'
<1> DEFINE new == {u \in Followers(Author[p]) \cup {Author[p]} : <<u, p>> \notin feed}
<1>1. /\ stage[p] = "published"
      /\ UNCHANGED <<deleted, follows, blocks, feed, open, followed>>
      /\ overlapped' \in BOOLEAN
  BY DEF FanOutRead, NoteOverlap
<1>2. \/ /\ p \in deleted /\ stage' = [stage EXCEPT ![p] = "fanned"] /\ UNCHANGED targets
      \/ stage' = [stage EXCEPT ![p] = "fanning"] /\ targets' = [targets EXCEPT ![p] = new]
  BY DEF FanOutRead
<1>3. new \subseteq User /\ \A u \in new : Deserved(u, Author[p], followed)
  BY CacheAssumption DEF IInv, Followers, Deserved
<1>4. Author[p] \in new \/ <<Author[p], p>> \in feed
  OBVIOUS
<1> HIDE DEF new
<1>5. TypeOK'
  BY <1>1, <1>2, <1>3 DEF IInv, TypeOK, Stages
<1>6. \A q \in Post : Published(q)' <=> Published(q)
  BY <1>1, <1>2 DEF Published, IInv, TypeOK
<1>7. Published(p)
  BY <1>1 DEF Published
<1>8. RowsInFlight'
  <2>1. ASSUME NEW q \in Post, NEW u \in targets'[q]
        PROVE  Published(q)' /\ Deserved(u, Author[q], followed)'
    BY <2>1, <1>1, <1>2, <1>3, <1>6, <1>7 DEF IInv, TypeOK, RowsInFlight, Deserved
  <2>2. ASSUME NEW txn \in open, txn.op = "follow", NEW r \in txn.rows
        PROVE  Published(r[2])' /\ Deserved(r[1], Author[r[2]], followed \cup txn.edges)'
    <3>1. r[2] \in Post
      BY <2>2 DEF IInv, TypeOK
    <3>2. QED BY <2>2, <3>1, <1>1, <1>6 DEF IInv, RowsInFlight, Deserved
  <2>3. QED BY <2>1, <2>2, <1>1 DEF RowsInFlight
<1>9. OwnRowsSafe' /\ RowsNeedAFollow'
  BY <1>1 DEF IInv, OwnRowsSafe, RowsNeedAFollow
<1>10. AuthorTargeted' /\ AuthorKeepsOwnPosts'
  BY <1>1, <1>2, <1>4 DEF IInv, TypeOK, AuthorTargeted, AuthorKeepsOwnPosts
<1>11. RowsOnlyPublished'
  <2>1. \A r \in feed : r[2] \in Post /\ Published(r[2])
    BY DEF IInv, TypeOK, RowsOnlyPublished
  <2>2. QED BY <2>1, <1>1, <1>6 DEF RowsOnlyPublished
<1>12. QED BY <1>1, <1>5, <1>8, <1>9, <1>10, <1>11 DEF IInv

(* The rows fan-out inserts were in flight; a conflict inserts none.       *)
LEMMA FanOutCommitPreserves ==
    ASSUME IInv, NEW p \in Post, FanOutCommit(p)
    PROVE  IInv'
<1> DEFINE new == targets[p] \X {p}
<1>1. /\ stage[p] = "fanning"
      /\ targets' = [targets EXCEPT ![p] = {}]
      /\ UNCHANGED <<deleted, follows, blocks, open, followed, overlapped>>
      /\ \/ feed' = feed \cup new /\ stage' = [stage EXCEPT ![p] = "fanned"]
         \/ feed' = feed /\ stage' = [stage EXCEPT ![p] = "fanout_failed"]
  BY DEF FanOutCommit
<1>2. /\ \A q \in Post : Published(q)' <=> Published(q)
      /\ Published(p)
  BY <1>1 DEF Published, IInv, TypeOK
<1>3. \A r \in new : r \in User \X Post /\ r[2] = p /\ r[1] \in targets[p]
  BY DEF IInv, TypeOK
<1>4. \A u \in targets[p] : <<u, p>> \in new
  OBVIOUS
<1> HIDE DEF new
<1>5. TypeOK'
  BY <1>1, <1>3 DEF IInv, TypeOK, Stages
<1>6. RowsInFlight'
  <2>1. ASSUME NEW q \in Post, NEW u \in targets'[q]
        PROVE  Published(q)' /\ Deserved(u, Author[q], followed)'
    BY <2>1, <1>1, <1>2 DEF IInv, TypeOK, RowsInFlight, Deserved
  <2>2. ASSUME NEW txn \in open, txn.op = "follow", NEW r \in txn.rows
        PROVE  Published(r[2])' /\ Deserved(r[1], Author[r[2]], followed \cup txn.edges)'
    <3>1. r[2] \in Post
      BY <2>2 DEF IInv, TypeOK
    <3>2. QED BY <2>2, <3>1, <1>1, <1>2 DEF IInv, RowsInFlight, Deserved
  <2>3. QED BY <2>1, <2>2, <1>1 DEF RowsInFlight
<1>7. OwnRowsSafe'
  BY <1>1 DEF IInv, OwnRowsSafe
<1>8. AuthorTargeted' /\ AuthorKeepsOwnPosts'
  BY <1>1, <1>4 DEF IInv, TypeOK, AuthorTargeted, AuthorKeepsOwnPosts
<1>9. RowsNeedAFollow'
  BY <1>1, <1>3 DEF IInv, RowsNeedAFollow, RowsInFlight, Deserved
<1>10. RowsOnlyPublished'
  <2>1. \A r \in feed' : r[2] \in Post /\ Published(r[2])
    BY <1>1, <1>2, <1>3 DEF IInv, TypeOK, RowsOnlyPublished
  <2>2. QED BY <2>1, <1>2 DEF RowsOnlyPublished
<1>11. QED BY <1>1, <1>5, <1>6, <1>7, <1>8, <1>9, <1>10 DEF IInv

-----------------------------------------------------------------------------
(* The handlers                                                            *)

(* Opening a transaction changes nothing but the set of open ones.         *)
LEMMA BeginPreserves ==
    ASSUME IInv, NEW txn, Begin(txn),
           txn.op \in {"follow", "unfollow", "block"},
           txn.edges \subseteq Pairs, txn.block \subseteq Pairs, txn.rows \subseteq User \X Post,
           \A e \in txn.edges : e[1] # e[2],
           txn.op # "follow" => \A r \in txn.rows : r[1] # Author[r[2]],
           txn.op = "follow" =>
              \A r \in txn.rows : Published(r[2]) /\ Deserved(r[1], Author[r[2]], txn.edges)
    PROVE  IInv'
<1>1. /\ UNCHANGED <<stage, deleted, follows, blocks, feed, targets, followed>>
      /\ open' = open \cup {txn}
      /\ overlapped' \in BOOLEAN
  BY DEF Begin, NoteOverlap
<1>2. TypeOK'
  BY <1>1 DEF IInv, TypeOK
<1>3. RowsInFlight'
  BY <1>1 DEF IInv, RowsInFlight, Deserved, Published
<1>4. OwnRowsSafe'
  BY <1>1 DEF IInv, OwnRowsSafe
<1>5. AuthorTargeted' /\ RowsNeedAFollow' /\ RowsOnlyPublished' /\ AuthorKeepsOwnPosts'
  BY <1>1 DEF IInv, AuthorTargeted, RowsNeedAFollow, RowsOnlyPublished, AuthorKeepsOwnPosts, Published
<1>6. QED BY <1>1, <1>2, <1>3, <1>4, <1>5 DEF IInv

(* A backfill only holds visible posts of the followed account.            *)
LEMMA FollowBeginPreserves ==
    ASSUME IInv, NEW u \in User, NEW v \in User, FollowBegin(u, v)
    PROVE  IInv'
<1> DEFINE rows == Rows(u, Backfill(v)) \ feed
           txn == Txn("follow", {<<u, v>>}, rows, {})
<1>1. u # v /\ Begin(txn)
  BY DEF FollowBegin
<1>2. \A r \in rows : /\ r \in User \X Post /\ r[1] = u /\ Author[r[2]] = v /\ Published(r[2])
  BY DEF Rows, Backfill
<1>3. txn.op = "follow" /\ txn.edges = {<<u, v>>} /\ txn.rows = rows /\ txn.block = {}
  BY DEF Txn
<1>4. {<<u, v>>} \subseteq Pairs /\ rows \subseteq User \X Post
  BY <1>2 DEF Pairs
<1> HIDE DEF rows, txn
<1>5. QED BY <1>1, <1>2, <1>3, <1>4, BeginPreserves DEF Deserved

(* The rows an unfollow or a block takes away are never the owner's posts. *)
LEMMA FolloweeRowsFacts ==
    ASSUME IInv, NEW e \in follows
    PROVE  /\ FolloweeRows(e) \subseteq User \X Post
           /\ \A r \in FolloweeRows(e) : r[1] # Author[r[2]]
BY DEF IInv, TypeOK, OwnRowsSafe, FolloweeRows

(* An unfollow collects rows of another author's posts only, since nobody  *)
(* follows himself.                                                        *)
LEMMA UnfollowBeginPreserves ==
    ASSUME IInv, NEW u \in User, NEW v \in User, UnfollowBegin(u, v)
    PROVE  IInv'
<1> DEFINE rows == FolloweeRows(<<u, v>>)
           txn == Txn("unfollow", {<<u, v>>}, rows, {})
<1>1. <<u, v>> \in follows /\ Begin(txn)
  BY DEF UnfollowBegin
<1>2. u # v
  BY <1>1 DEF IInv, OwnRowsSafe
<1>3. rows \subseteq User \X Post /\ \A r \in rows : r[1] # Author[r[2]]
  BY <1>1, FolloweeRowsFacts
<1>4. txn.op = "unfollow" /\ txn.edges = {<<u, v>>} /\ txn.rows = rows /\ txn.block = {}
  BY DEF Txn
<1>5. {<<u, v>>} \subseteq Pairs
  BY DEF Pairs
<1> HIDE DEF rows, txn
<1>6. QED BY <1>1, <1>2, <1>3, <1>4, <1>5, BeginPreserves

(* A block collects rows for the follows it found, none of them reflexive. *)
LEMMA BlockBeginPreserves ==
    ASSUME IInv, NEW u \in User, NEW v \in User, BlockBegin(u, v)
    PROVE  IInv'
<1> DEFINE found == {<<u, v>>, <<v, u>>} \cap follows
           rows == UNION {FolloweeRows(e) : e \in found}
           txn == Txn("block", found, rows, {<<u, v>>})
<1>1. Begin(txn)
  BY DEF BlockBegin
<1>2. found \subseteq follows /\ found \subseteq Pairs /\ \A e \in found : e[1] # e[2]
  BY DEF IInv, OwnRowsSafe, Pairs
<1>3. rows \subseteq User \X Post /\ \A r \in rows : r[1] # Author[r[2]]
  BY <1>2, FolloweeRowsFacts
<1>4. txn.op = "block" /\ txn.edges = found /\ txn.rows = rows /\ txn.block = {<<u, v>>}
  BY DEF Txn
<1>5. {<<u, v>>} \subseteq Pairs
  BY DEF Pairs
<1> HIDE DEF found, rows, txn
<1>6. QED BY <1>1, <1>2, <1>3, <1>4, <1>5, BeginPreserves

(* A commit that leaves the posts alone, adds to the follows pairs it has  *)
(* recorded in `followed`, and to the feed rows that are due.              *)
LEMMA CommitPreserves ==
    ASSUME IInv, open' \subseteq open, UNCHANGED <<stage, deleted, targets, overlapped>>,
           followed \subseteq followed', followed' \subseteq Pairs, follows' \subseteq followed',
           \A e \in follows' : e[1] # e[2],
           blocks' \subseteq Pairs,
           feed' \subseteq User \X Post,
           \A r \in feed' \ feed : Published(r[2]) /\ Deserved(r[1], Author[r[2]], followed'),
           \A p \in Post : <<Author[p], p>> \in feed => <<Author[p], p>> \in feed'
    PROVE  IInv'
<1>1. TypeOK'
  BY DEF IInv, TypeOK
<1>2. RowsInFlight'
  BY DEF IInv, RowsInFlight, Deserved, Published
<1>3. OwnRowsSafe'
  BY DEF IInv, OwnRowsSafe
<1>4. AuthorTargeted' /\ AuthorKeepsOwnPosts'
  BY DEF IInv, AuthorTargeted, AuthorKeepsOwnPosts
<1>5. RowsNeedAFollow' /\ RowsOnlyPublished'
  BY DEF IInv, RowsNeedAFollow, RowsOnlyPublished, Deserved, Published
<1>6. QED BY <1>1, <1>2, <1>3, <1>4, <1>5 DEF IInv

(* Whatever a handler commits, it adds rows that were in flight and takes  *)
(* away no author's own row.                                               *)
LEMMA HandlerCommitPreserves ==
    ASSUME IInv, NEW txn \in open, FollowCommit(txn) \/ UnfollowCommit(txn) \/ BlockCommit(txn)
    PROVE  IInv'
<1>1. /\ txn.edges \subseteq Pairs /\ txn.rows \subseteq User \X Post
      /\ txn.block \subseteq Pairs
      /\ \A e \in txn.edges : e[1] # e[2]
      /\ txn.op # "follow" => \A r \in txn.rows : r[1] # Author[r[2]]
      /\ txn.op = "follow" =>
            \A r \in txn.rows : Published(r[2]) /\ Deserved(r[1], Author[r[2]], followed \cup txn.edges)
  BY DEF IInv, TypeOK, OwnRowsSafe, RowsInFlight
<1>2. /\ follows \subseteq followed /\ followed \subseteq Pairs /\ feed \subseteq User \X Post
      /\ blocks \subseteq Pairs /\ \A e \in follows : e[1] # e[2]
  BY DEF IInv, TypeOK, OwnRowsSafe
<1>3. open' \subseteq open /\ UNCHANGED <<stage, deleted, targets, overlapped>>
  BY DEF FollowCommit, UnfollowCommit, BlockCommit, Rollback, End
<1>4. CASE Rollback(txn)
  BY <1>2, <1>3, <1>4, CommitPreserves DEF Rollback
<1>5. CASE FollowCommit(txn) /\ ~Rollback(txn)
  <2>1. /\ follows' = follows \cup txn.edges /\ followed' = followed \cup txn.edges
        /\ feed' = feed \cup txn.rows /\ UNCHANGED blocks /\ txn.op = "follow"
    BY <1>5 DEF FollowCommit
  <2>2. QED BY <2>1, <1>1, <1>2, <1>3, CommitPreserves
<1>6. CASE UnfollowCommit(txn)
  <2>1. /\ follows' = follows \ txn.edges /\ feed' = feed \ txn.rows
        /\ UNCHANGED <<blocks, followed>> /\ txn.op = "unfollow"
    BY <1>6 DEF UnfollowCommit
  <2>2. \A p \in Post : <<Author[p], p>> \notin txn.rows
    BY <2>1, <1>1
  <2>3. QED BY <2>1, <2>2, <1>2, <1>3, CommitPreserves
<1>7. CASE BlockCommit(txn) /\ ~Rollback(txn)
  <2>1. /\ follows' = follows \ txn.edges /\ feed' = feed \ txn.rows
        /\ UNCHANGED followed /\ blocks' = blocks \cup txn.block /\ txn.op = "block"
    BY <1>7 DEF BlockCommit
  <2>2. \A p \in Post : <<Author[p], p>> \notin txn.rows
    BY <2>1, <1>1
  <2>3. QED BY <2>1, <2>2, <1>1, <1>2, <1>3, CommitPreserves
<1>8. QED BY <1>4, <1>5, <1>6, <1>7

-----------------------------------------------------------------------------
(* The theorems                                                            *)

(* The invariant is inductive: one step per action of Next.                *)
LEMMA StepIInv == IInv /\ [Next]_vars => IInv'
<1> SUFFICES ASSUME IInv, [Next]_vars PROVE IInv'
  OBVIOUS
<1>1. ASSUME NEW p \in Post, Delete(p) PROVE IInv'
  BY <1>1 DEF Delete, IInv, TypeOK, RowsInFlight, OwnRowsSafe, AuthorTargeted, RowsNeedAFollow,
     RowsOnlyPublished, AuthorKeepsOwnPosts, Published, Deserved
<1>2. ASSUME NEW p \in Post, Publish(p) \/ FanOutRead(p) \/ FanOutCommit(p) PROVE IInv'
  BY <1>2, PublishPreserves, FanOutReadPreserves, FanOutCommitPreserves
<1>3. ASSUME NEW u \in User, NEW v \in User,
             FollowBegin(u, v) \/ UnfollowBegin(u, v) \/ BlockBegin(u, v)
      PROVE  IInv'
  BY <1>3, FollowBeginPreserves, UnfollowBeginPreserves, BlockBeginPreserves
<1>4. ASSUME NEW u \in User, NEW v \in User, Unblock(u, v) PROVE IInv'
  BY <1>4 DEF Unblock, IInv, TypeOK, RowsInFlight, OwnRowsSafe, AuthorTargeted, RowsNeedAFollow,
     RowsOnlyPublished, AuthorKeepsOwnPosts, Published, Deserved
<1>5. ASSUME NEW txn \in open, FollowCommit(txn) \/ UnfollowCommit(txn) \/ BlockCommit(txn)
      PROVE  IInv'
  BY <1>5, HandlerCommitPreserves
<1>6. CASE UNCHANGED vars
  BY <1>6 DEF vars, IInv, TypeOK, RowsInFlight, OwnRowsSafe, AuthorTargeted, RowsNeedAFollow,
     RowsOnlyPublished, AuthorKeepsOwnPosts, Published, Deserved
<1>7. QED BY <1>1, <1>2, <1>3, <1>4, <1>5, <1>6 DEF Next

(* IInv is an invariant, however many transactions overlap.                *)
THEOREM Invariance == Spec => []IInv
BY InitIInv, StepIInv, PTL DEF Spec

(* Every variable stays in its range.                                      *)
THEOREM TypeCorrect == Spec => []TypeOK
<1>1. IInv => TypeOK
  BY DEF IInv
<1>2. QED BY <1>1, Invariance, PTL

(* No race of fan-out, follow, unfollow and block puts a post before       *)
(* someone who never followed its author.                                  *)
THEOREM OnlyFollowersServed == Spec => []RowsNeedAFollow
<1>1. IInv => RowsNeedAFollow
  BY DEF IInv
<1>2. QED BY <1>1, Invariance, PTL

(* Neither backfill nor fan-out copies a post that is not published.       *)
THEOREM OnlyPublishedServed == Spec => []RowsOnlyPublished
<1>1. IInv => RowsOnlyPublished
  BY DEF IInv
<1>2. QED BY <1>1, Invariance, PTL

(* A fan-out that succeeded has delivered to the author for good.          *)
THEOREM AuthorServed == Spec => []AuthorKeepsOwnPosts
<1>1. IInv => AuthorKeepsOwnPosts
  BY DEF IInv
<1>2. QED BY <1>1, Invariance, PTL

-----------------------------------------------------------------------------
(* One transaction after the other                                         *)

(* Publication never takes a post out of a backfill's window.              *)
LEMMA NewerGrows ==
    ASSUME NEW p \in Post, \A q \in Post : Published(q) => Published(q)',
           Cardinality(Newer(p)) >= BackfillLimit
    PROVE  Cardinality(Newer(p)') >= BackfillLimit
<1>1. Newer(p) \subseteq Newer(p)' /\ Newer(p)' \subseteq Post
  BY DEF Newer
<1>2. IsFiniteSet(Post)
  BY CacheAssumption, FS_Interval, SMT DEF Post
<1>3. IsFiniteSet(Newer(p)') /\ IsFiniteSet(Newer(p))
  BY <1>1, <1>2, FS_Subset
<1>4. /\ Cardinality(Newer(p)) <= Cardinality(Newer(p)')
      /\ Cardinality(Newer(p)) \in Nat /\ Cardinality(Newer(p)') \in Nat
  BY <1>1, <1>3, FS_Subset, FS_CardinalityType
<1>5. QED BY <1>4, CacheAssumption

(* No transaction is under way at the start.                               *)
LEMMA InitSerial == Init => SerialInv
BY DEF Init, SerialInv, OneAtATime, TargetsCurrent, FollowsCurrent, DropsCurrent, FollowingOnly,
   NoFollowAcrossBlock, Reached, Settled, Fanning

(* Publication, deletion and unblocking, which are single steps and may    *)
(* fall into a transaction.                                                *)
LEMMA SingleStepSerial ==
    ASSUME IInv, SerialInv,
           UNCHANGED <<follows, feed, targets, open, overlapped>>,
           blocks' \subseteq blocks,
           \A p \in Post : /\ stage'[p] = "fanning" <=> stage[p] = "fanning"
                           /\ Settled(p)' => Settled(p)
                           /\ Published(p) => Published(p)'
    PROVE  SerialInv'
<1> SUFFICES ASSUME ~overlapped' PROVE SerialInv'
  BY DEF SerialInv
<1>1. /\ OneAtATime /\ TargetsCurrent /\ FollowsCurrent /\ DropsCurrent
      /\ FollowingOnly /\ NoFollowAcrossBlock /\ Reached
  BY DEF SerialInv
<1>2. \A p \in Post : \A u, rows : Has(u, p, rows) =>
          <<u, p>> \in rows \/ Cardinality(Newer(p)') >= BackfillLimit
  BY NewerGrows DEF Has
<1>3. OneAtATime'
  BY <1>1 DEF OneAtATime, Fanning
<1>4. TargetsCurrent'
  BY <1>1 DEF TargetsCurrent, Deserved, Followers
<1>5. FollowsCurrent'
  <2>1. ASSUME NEW txn \in open, txn.op = "follow", NEW e \in txn.edges
        PROVE  /\ ~Blocked(e[1], e[2])'
               /\ \A p \in Post : Author[p] = e[2] /\ Settled(p)' =>
                      Has(e[1], p, txn.rows \cup feed)'
    <3>1. ~Blocked(e[1], e[2])'
      BY <1>1, <2>1 DEF FollowsCurrent, Blocked
    <3>2. ASSUME NEW p \in Post, Author[p] = e[2], Settled(p)'
          PROVE  Has(e[1], p, txn.rows \cup feed)'
      <4>1. Has(e[1], p, txn.rows \cup feed)
        BY <1>1, <2>1, <3>2 DEF FollowsCurrent
      <4>2. QED BY <4>1, <1>2 DEF Has
    <3>3. QED BY <3>1, <3>2
  <2>2. \A txn \in open : txn.op = "follow" =>
            \A r \in txn.rows : <<r[1], Author[r[2]]>> \in txn.edges
    BY <1>1 DEF FollowsCurrent
  <2>3. QED BY <2>1, <2>2 DEF FollowsCurrent
<1>6. DropsCurrent'
  BY <1>1 DEF DropsCurrent
<1>7. FollowingOnly' /\ NoFollowAcrossBlock'
  BY <1>1 DEF FollowingOnly, NoFollowAcrossBlock, Blocked
<1>8. Reached'
  BY <1>1, <1>2 DEF Reached, Has, Followers
<1>9. QED BY <1>3, <1>4, <1>5, <1>6, <1>7, <1>8 DEF SerialInv

(* Fan-out alone: nothing is open, so that it reads the follows that will  *)
(* still be there when it commits.                                         *)
LEMMA FanOutReadSerial ==
    ASSUME IInv, SerialInv, NEW p \in Post, FanOutRead(p)
    PROVE  SerialInv'
<1> SUFFICES ASSUME ~overlapped' PROVE SerialInv'
  BY DEF SerialInv
<1> DEFINE new == {u \in Followers(Author[p]) \cup {Author[p]} : <<u, p>> \notin feed}
<1>1. /\ stage[p] = "published"
      /\ UNCHANGED <<deleted, follows, blocks, feed, open, followed>>
      /\ ~overlapped /\ open = {} /\ Fanning = {}
      /\ stage \in [Post -> Stages] /\ targets \in [Post -> SUBSET User]
  BY DEF FanOutRead, NoteOverlap, IInv, TypeOK
<1>2. \/ /\ p \in deleted /\ stage' = [stage EXCEPT ![p] = "fanned"] /\ UNCHANGED targets
      \/ stage' = [stage EXCEPT ![p] = "fanning"] /\ targets' = [targets EXCEPT ![p] = new]
  BY DEF FanOutRead
<1>3. /\ TargetsCurrent /\ FollowingOnly /\ NoFollowAcrossBlock /\ Reached
  BY <1>1 DEF SerialInv
<1>4. /\ \A u \in new : Deserved(u, Author[p], follows) /\ <<u, p>> \notin feed
      /\ \A u \in Followers(Author[p]) : u \in new \/ <<u, p>> \in feed
  BY DEF Followers, Deserved
<1> HIDE DEF new
<1>5. OneAtATime'
  BY <1>1 DEF OneAtATime
<1>6. TargetsCurrent'
  BY <1>1, <1>2, <1>3, <1>4 DEF TargetsCurrent, Deserved, Followers
<1>7. FollowsCurrent' /\ DropsCurrent'
  BY <1>1 DEF FollowsCurrent, DropsCurrent
<1>8. FollowingOnly' /\ NoFollowAcrossBlock'
  BY <1>1, <1>3 DEF FollowingOnly, NoFollowAcrossBlock, Blocked
<1>9. Reached'
  <2>1. \A q \in Post : (Settled(q)' => Settled(q)) /\ (Published(q) => Published(q)')
    BY <1>1, <1>2 DEF Settled, Published
  <2>2. QED BY <2>1, <1>1, <1>3, NewerGrows DEF Reached, Has, Followers
<1>10. QED BY <1>5, <1>6, <1>7, <1>8, <1>9 DEF SerialInv

(* No row it inserts exists, so it cannot fail.                            *)
LEMMA FanOutCommitSerial ==
    ASSUME IInv, SerialInv, NEW p \in Post, FanOutCommit(p)
    PROVE  SerialInv'
<1> SUFFICES ASSUME ~overlapped' PROVE SerialInv'
  BY DEF SerialInv
<1> DEFINE new == targets[p] \X {p}
<1>1. /\ stage[p] = "fanning" /\ targets' = [targets EXCEPT ![p] = {}]
      /\ UNCHANGED <<deleted, follows, blocks, open, followed>> /\ ~overlapped
      /\ stage \in [Post -> Stages] /\ targets \in [Post -> SUBSET User]
  BY DEF FanOutCommit, IInv, TypeOK
<1>2. /\ OneAtATime /\ TargetsCurrent /\ FollowingOnly /\ NoFollowAcrossBlock /\ Reached
  BY <1>1 DEF SerialInv
<1>3. open = {}
  BY <1>1, <1>2 DEF OneAtATime, Fanning
<1>4. \A r \in new : r = <<r[1], p>> /\ r[1] \in targets[p] /\ r[2] = p
  OBVIOUS
<1>5. new \cap feed = {}
  BY <1>2, <1>4 DEF TargetsCurrent
<1>6. feed' = feed \cup new /\ stage' = [stage EXCEPT ![p] = "fanned"]
  BY <1>5 DEF FanOutCommit
<1>7. \A u \in targets[p] : <<u, p>> \in new
  OBVIOUS
<1> HIDE DEF new
<1>8. OneAtATime'
  BY <1>1, <1>3 DEF OneAtATime
<1>9. TargetsCurrent'
  <2>1. ASSUME NEW q \in Post, q # p
        PROVE  stage'[q] = stage[q] /\ targets'[q] = targets[q]
               /\ \A u \in User : <<u, q>> \in feed' <=> <<u, q>> \in feed
    BY <2>1, <1>1, <1>4, <1>6
  <2>2. targets'[p] = {} /\ stage'[p] = "fanned"
    BY <1>1, <1>6
  <2>3. QED BY <2>1, <2>2, <1>1, <1>2 DEF TargetsCurrent, Deserved, Followers
<1>10. FollowsCurrent' /\ DropsCurrent'
  BY <1>1, <1>3 DEF FollowsCurrent, DropsCurrent
<1>11. FollowingOnly' /\ NoFollowAcrossBlock'
  <2>1. \A r \in new : r[1] = Author[r[2]] \/ <<r[1], Author[r[2]]>> \in follows
    BY <1>2, <1>4 DEF TargetsCurrent, Deserved
  <2>2. QED BY <2>1, <1>1, <1>2, <1>6 DEF FollowingOnly, NoFollowAcrossBlock, Blocked
<1>12. Reached'
  <2>1. \A q \in Post : (Settled(q)' /\ q # p => Settled(q)) /\ (Published(q) => Published(q)')
    BY <1>1, <1>6 DEF Settled, Published
  <2>2. \A u \in Followers(Author[p]) : <<u, p>> \in feed'
    BY <1>1, <1>2, <1>6, <1>7 DEF TargetsCurrent
  <2>3. QED BY <2>1, <2>2, <1>1, <1>2, <1>6, NewerGrows DEF Reached, Has, Followers
<1>13. QED BY <1>8, <1>9, <1>10, <1>11, <1>12 DEF SerialInv

(* A handler that opens finds nothing else open.                           *)
LEMMA BeginSerial ==
    ASSUME IInv, SerialInv, NEW txn, Begin(txn),
           txn.op = "follow" =>
              /\ \A r \in txn.rows : <<r[1], Author[r[2]]>> \in txn.edges
              /\ \A e \in txn.edges :
                    /\ ~Blocked(e[1], e[2])
                    /\ \A p \in Post :
                          Author[p] = e[2] /\ Settled(p) => Has(e[1], p, txn.rows \cup feed),
           txn.op # "follow" =>
              /\ \A r \in feed : r \in txn.rows <=> <<r[1], Author[r[2]]>> \in txn.edges
              /\ \A b \in txn.block : {b, <<b[2], b[1]>>} \cap follows \subseteq txn.edges
    PROVE  SerialInv'
<1> SUFFICES ASSUME ~overlapped' PROVE SerialInv'
  BY DEF SerialInv
<1>1. /\ UNCHANGED <<stage, deleted, follows, blocks, feed, targets>>
      /\ open' = {txn} /\ ~overlapped /\ Fanning = {}
  BY DEF Begin, NoteOverlap
<1>2. /\ TargetsCurrent /\ FollowingOnly /\ NoFollowAcrossBlock /\ Reached
  BY <1>1 DEF SerialInv
<1>3. OneAtATime'
  BY <1>1 DEF OneAtATime, Fanning
<1>4. TargetsCurrent' /\ FollowingOnly' /\ NoFollowAcrossBlock' /\ Reached'
  BY <1>1, <1>2 DEF TargetsCurrent, FollowingOnly, NoFollowAcrossBlock, Reached, Settled, Has,
     Newer, Published, Followers, Deserved, Blocked
<1>5. FollowsCurrent'
  BY <1>1 DEF FollowsCurrent, Settled, Has, Newer, Published, Blocked
<1>6. DropsCurrent'
  BY <1>1 DEF DropsCurrent
<1>7. QED BY <1>3, <1>4, <1>5, <1>6 DEF SerialInv

(* The backfill holds what the new follower is owed.                       *)
LEMMA FollowBeginSerial ==
    ASSUME IInv, SerialInv, NEW u \in User, NEW v \in User, FollowBegin(u, v)
    PROVE  SerialInv'
<1> DEFINE rows == Rows(u, Backfill(v)) \ feed
           txn == Txn("follow", {<<u, v>>}, rows, {})
<1>1. Begin(txn) /\ ~Blocked(u, v)
  BY DEF FollowBegin
<1>2. txn.op = "follow" /\ txn.edges = {<<u, v>>} /\ txn.rows = rows
  BY DEF Txn
<1>3. \A r \in rows : r[1] = u /\ Author[r[2]] = v
  BY DEF Rows, Backfill
<1>4. ASSUME NEW p \in Post, Author[p] = v, Settled(p)
      PROVE  Has(u, p, rows \cup feed)
  <2> DEFINE visible == {q \in Post : Author[q] = v /\ Published(q) /\ q \notin deleted}
             ahead == {q \in visible : q > p}
  <2>1. p \in visible
    BY <1>4 DEF Settled, Published
  <2>2. CASE Cardinality(ahead) < BackfillLimit
    <3>1. p \in Backfill(v)
      BY <2>1, <2>2 DEF Backfill
    <3>2. QED BY <3>1 DEF Rows, Has
  <2>3. CASE ~(Cardinality(ahead) < BackfillLimit)
    <3>1. ahead \subseteq Newer(p) /\ Newer(p) \subseteq Post
      BY <1>4 DEF Newer
    <3>2. IsFiniteSet(Newer(p))
      BY <3>1, CacheAssumption, FS_Interval, FS_Subset DEF Post
    <3>3. /\ Cardinality(ahead) <= Cardinality(Newer(p))
          /\ Cardinality(ahead) \in Nat /\ Cardinality(Newer(p)) \in Nat
      BY <3>1, <3>2, FS_Subset, FS_CardinalityType
    <3> HIDE DEF ahead
    <3>4. QED BY <3>3, <2>3, CacheAssumption DEF Has
  <2>4. QED BY <2>2, <2>3
<1> HIDE DEF rows, txn
<1>5. \A e \in txn.edges : e[1] = u /\ e[2] = v
  BY <1>2
<1>6. \A r \in txn.rows : <<r[1], Author[r[2]]>> \in txn.edges
  BY <1>2, <1>3
<1>7. QED BY <1>1, <1>2, <1>4, <1>5, <1>6, BeginSerial

(* An unfollow finds all the rows of its follow.                           *)
LEMMA UnfollowBeginSerial ==
    ASSUME IInv, SerialInv, NEW u \in User, NEW v \in User, UnfollowBegin(u, v)
    PROVE  SerialInv'
<1> DEFINE rows == FolloweeRows(<<u, v>>)
           txn == Txn("unfollow", {<<u, v>>}, rows, {})
<1>1. Begin(txn)
  BY DEF UnfollowBegin
<1>2. txn.op = "unfollow" /\ txn.edges = {<<u, v>>} /\ txn.rows = rows /\ txn.block = {}
  BY DEF Txn
<1>3. \A r \in feed : r \in rows <=> <<r[1], Author[r[2]]>> \in {<<u, v>>}
  BY DEF FolloweeRows
<1> HIDE DEF rows, txn
<1>4. QED BY <1>1, <1>2, <1>3, BeginSerial

(* A block finds the follows in both directions and all their rows.        *)
LEMMA BlockBeginSerial ==
    ASSUME IInv, SerialInv, NEW u \in User, NEW v \in User, BlockBegin(u, v)
    PROVE  SerialInv'
<1> DEFINE found == {<<u, v>>, <<v, u>>} \cap follows
           rows == UNION {FolloweeRows(e) : e \in found}
           txn == Txn("block", found, rows, {<<u, v>>})
<1>1. Begin(txn)
  BY DEF BlockBegin
<1>2. txn.op = "block" /\ txn.edges = found /\ txn.rows = rows /\ txn.block = {<<u, v>>}
  BY DEF Txn
<1>3. \A e \in found : e = <<e[1], e[2]>>
  OBVIOUS
<1>4. \A r \in feed : r \in rows <=> <<r[1], Author[r[2]]>> \in found
  <2>1. \A r \in feed, e \in found : r \in FolloweeRows(e) <=> <<r[1], Author[r[2]]>> = e
    BY <1>3 DEF FolloweeRows
  <2> HIDE DEF found
  <2>2. QED BY <2>1
<1>5. \A b \in {<<u, v>>} : {b, <<b[2], b[1]>>} \cap follows \subseteq found
  OBVIOUS
<1> HIDE DEF found, rows, txn
<1>6. QED BY <1>1, <1>2, <1>4, <1>5, BeginSerial

(* After its commit nothing is open.                                       *)
LEMMA CommitSerial ==
    ASSUME IInv, SerialInv, ~overlapped, NEW txn \in open, End(txn),
           FollowingOnly', NoFollowAcrossBlock', Reached'
    PROVE  SerialInv'
<1>1. open' = {} /\ Fanning = {} /\ UNCHANGED <<stage, deleted, targets, overlapped>>
  BY DEF SerialInv, OneAtATime, End
<1>2. \A p \in Post : stage[p] # "fanning" /\ targets[p] = {}
  BY <1>1 DEF SerialInv, TargetsCurrent, Fanning
<1>3. OneAtATime' /\ TargetsCurrent'
  BY <1>1, <1>2 DEF OneAtATime, TargetsCurrent
<1>4. FollowsCurrent' /\ DropsCurrent'
  BY <1>1 DEF FollowsCurrent, DropsCurrent
<1>5. QED BY <1>3, <1>4 DEF SerialInv

(* What a handler commits is still true when it commits.                   *)
LEMMA HandlerCommitSerial ==
    ASSUME IInv, SerialInv, NEW txn \in open,
           FollowCommit(txn) \/ UnfollowCommit(txn) \/ BlockCommit(txn)
    PROVE  SerialInv'
<1> SUFFICES ASSUME ~overlapped' PROVE SerialInv'
  BY DEF SerialInv
<1>1. End(txn) /\ UNCHANGED <<stage, deleted, targets, overlapped>>
  BY DEF FollowCommit, UnfollowCommit, BlockCommit, Rollback, End
<1>2. ~overlapped
  BY <1>1
<1>3. FollowsCurrent /\ DropsCurrent /\ FollowingOnly /\ NoFollowAcrossBlock /\ Reached
  BY <1>2 DEF SerialInv
<1>4. \A p \in Post : Settled(p)' = Settled(p) /\ Newer(p)' = Newer(p)
  BY <1>1 DEF Settled, Newer, Published
<1>5. /\ feed \subseteq User \X Post /\ follows \subseteq Pairs /\ txn.edges \subseteq Pairs
      /\ txn.block \subseteq Pairs /\ txn.rows \subseteq User \X Post
  BY DEF IInv, TypeOK
<1>6. CASE Rollback(txn)
  <2>1. UNCHANGED <<follows, blocks, feed>>
    BY <1>6 DEF Rollback
  <2>2. FollowingOnly' /\ NoFollowAcrossBlock' /\ Reached'
    BY <2>1, <1>3, <1>4 DEF FollowingOnly, NoFollowAcrossBlock, Blocked, Reached, Has, Followers
  <2>3. QED BY <1>1, <1>2, <2>2, CommitSerial
<1>7. CASE FollowCommit(txn) /\ ~Rollback(txn)
  <2>1. /\ follows' = follows \cup txn.edges /\ feed' = feed \cup txn.rows
        /\ UNCHANGED blocks /\ txn.op = "follow"
    BY <1>7 DEF FollowCommit
  <2>2. /\ \A r \in txn.rows : <<r[1], Author[r[2]]>> \in txn.edges
        /\ \A e \in txn.edges :
              /\ ~Blocked(e[1], e[2])
              /\ \A p \in Post : Author[p] = e[2] /\ Settled(p) => Has(e[1], p, txn.rows \cup feed)
    BY <2>1, <1>3 DEF FollowsCurrent
  <2>3. FollowingOnly' /\ NoFollowAcrossBlock'
    BY <2>1, <2>2, <1>3 DEF FollowingOnly, NoFollowAcrossBlock, Blocked
  <2>4. Reached'
    <3>1. ASSUME NEW p \in Post, Settled(p), NEW u \in User, <<u, Author[p]>> \in follows'
          PROVE  Has(u, p, feed')
      <4>1. CASE <<u, Author[p]>> \in follows
        BY <4>1, <3>1, <2>1, <1>3 DEF Reached, Followers, Has
      <4>2. CASE <<u, Author[p]>> \in txn.edges
        BY <4>2, <3>1, <2>1, <2>2 DEF Has
      <4>3. QED BY <4>1, <4>2, <3>1, <2>1
    <3>2. QED BY <3>1, <1>4 DEF Reached, Followers, Has
  <2>5. QED BY <1>1, <1>2, <2>3, <2>4, CommitSerial
<1>8. CASE UnfollowCommit(txn) \/ (BlockCommit(txn) /\ ~Rollback(txn))
  <2>1. /\ follows' = follows \ txn.edges /\ feed' = feed \ txn.rows /\ txn.op # "follow"
        /\ blocks' = blocks \/ blocks' = blocks \cup txn.block
    BY <1>8 DEF UnfollowCommit, BlockCommit
  <2>2. /\ \A r \in feed : r \in txn.rows <=> <<r[1], Author[r[2]]>> \in txn.edges
        /\ \A b \in txn.block : {b, <<b[2], b[1]>>} \cap follows \subseteq txn.edges
    BY <2>1, <1>3 DEF DropsCurrent
  <2>3. FollowingOnly'
    BY <2>1, <2>2, <1>3 DEF FollowingOnly
  <2>4. NoFollowAcrossBlock'
    <3>1. ASSUME NEW e \in follows' PROVE ~Blocked(e[1], e[2])'
      <4>1. e \in follows /\ e \notin txn.edges /\ e = <<e[1], e[2]>>
        BY <3>1, <2>1, <1>5 DEF Pairs
      <4>2. <<e[1], e[2]>> \notin txn.block /\ <<e[2], e[1]>> \notin txn.block
        BY <4>1, <2>2
      <4>3. QED BY <4>1, <4>2, <2>1, <1>3 DEF NoFollowAcrossBlock, Blocked
    <3>2. QED BY <3>1 DEF NoFollowAcrossBlock
  <2>5. Reached'
    <3>1. ASSUME NEW p \in Post, Settled(p), NEW u \in User, <<u, Author[p]>> \in follows'
          PROVE  Has(u, p, feed')
      <4>1. Has(u, p, feed) /\ <<u, Author[p]>> \notin txn.edges
        BY <3>1, <2>1, <1>3 DEF Reached, Followers
      <4>2. <<u, p>> \in feed => <<u, p>> \in feed'
        BY <4>1, <2>1, <2>2
      <4>3. QED BY <4>1, <4>2 DEF Has
    <3>2. QED BY <3>1, <1>4 DEF Reached, Followers, Has
  <2>6. QED BY <1>1, <1>2, <2>3, <2>4, <2>5, CommitSerial
<1>9. QED BY <1>6, <1>7, <1>8

(* One step per action.                                                    *)
LEMMA StepSerial == IInv /\ SerialInv /\ [Next]_vars => SerialInv'
<1> SUFFICES ASSUME IInv, SerialInv, [Next]_vars PROVE SerialInv'
  OBVIOUS
<1>1. stage \in [Post -> Stages]
  BY DEF IInv, TypeOK
<1>2. ASSUME NEW p \in Post, Publish(p) PROVE SerialInv'
  BY <1>1, <1>2, SingleStepSerial DEF Publish, Settled, Published
<1>3. ASSUME NEW p \in Post, Delete(p) PROVE SerialInv'
  BY <1>3, SingleStepSerial DEF Delete, Settled, Published
<1>4. ASSUME NEW p \in Post, FanOutRead(p) \/ FanOutCommit(p) PROVE SerialInv'
  BY <1>4, FanOutReadSerial, FanOutCommitSerial
<1>5. ASSUME NEW u \in User, NEW v \in User,
             FollowBegin(u, v) \/ UnfollowBegin(u, v) \/ BlockBegin(u, v)
      PROVE  SerialInv'
  BY <1>5, FollowBeginSerial, UnfollowBeginSerial, BlockBeginSerial
<1>6. ASSUME NEW u \in User, NEW v \in User, Unblock(u, v) PROVE SerialInv'
  BY <1>6, SingleStepSerial DEF Unblock, Settled, Published
<1>7. ASSUME NEW txn \in open, FollowCommit(txn) \/ UnfollowCommit(txn) \/ BlockCommit(txn)
      PROVE  SerialInv'
  BY <1>7, HandlerCommitSerial
<1>8. CASE UNCHANGED vars
  BY <1>8, SingleStepSerial DEF vars, Settled, Published
<1>9. QED BY <1>2, <1>3, <1>4, <1>5, <1>6, <1>7, <1>8 DEF Next

(* SerialInv is an invariant, whatever falls into the open transaction.    *)
THEOREM SerialInvariance == Spec => []SerialInv
BY InitSerial, StepSerial, Invariance, PTL DEF Spec

(* Without overlap, Following shows followed accounts only.                *)
THEOREM OnlyCurrentFollowersServed == Spec => []SerialFollowingOnly
<1>1. SerialInv => SerialFollowingOnly
  BY DEF SerialInv, SerialFollowingOnly
<1>2. QED BY <1>1, SerialInvariance, PTL

(* Without overlap, nobody follows across a block.                         *)
THEOREM BlocksEndFollows == Spec => []SerialNoFollowAcrossBlock
<1>1. SerialInv => SerialNoFollowAcrossBlock
  BY DEF SerialInv, SerialNoFollowAcrossBlock
<1>2. QED BY <1>1, SerialInvariance, PTL

(* Without overlap, fan-out and backfill leave a follower no gap.          *)
THEOREM FollowersAreServed == Spec => []SerialFollowersMissNothing
<1>1. SerialInv => SerialFollowersMissNothing
  BY DEF SerialInv, SerialFollowersMissNothing, Reached, Settled, Has, Newer
<1>2. QED BY <1>1, SerialInvariance, PTL

================================================================================
