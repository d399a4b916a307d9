------------------------------ MODULE Engagement ------------------------------
(***************************************************************************)
(* The counters of one published post: likes.like_count is adjusted by the *)
(* like and unlike handlers, reply_count and repost_count are recounted by *)
(* the worker when a reply or repost is published, and repost_count is     *)
(* decremented again by the deletion of a repost.  All write the one       *)
(* post_engagement row with values computed from what they read, under     *)
(* READ COMMITTED and without a lock.                                      *)
(*                                                                         *)
(* A handler or task is two actions: its reads, then its commit.  The ORM  *)
(* inserts the row when it read none, and fails on the key if one exists   *)
(* by then; otherwise it updates only the column it changed.               *)
(***************************************************************************)
EXTENDS Naturals, FiniteSets

CONSTANTS
    User,        \* accounts other than the author of the post
    Child,       \* the replies to the post and the reposts of it
    Owner,       \* child -> its author
    NoRow,       \* db.get(PostEngagement, ...) is None
    Workers,     \* bound: dispatches of children at a time
    Concurrency, \* bound: transactions open at a time
    LikeBound    \* bound on like_count

Columns == {"like", "reply", "repost"}

Counters == [Columns -> Nat]

ASSUME EngagementAssumption ==
    /\ IsFiniteSet(User) /\ IsFiniteSet(Child)
    /\ Owner \in [Child -> User]
    /\ NoRow \notin Counters
    /\ Workers \in Nat \ {0}
    /\ Concurrency \in Nat \ {0}
    /\ LikeBound \in Nat

VARIABLES
    kind,   \* child -> "reply" or "repost", which its author chose once
    stage,  \* child -> where its request and its dispatch are
    gone,   \* child -> "live", or who set deleted_at: "author", "moderator"
    likes,  \* users with a committed row in likes
    row,    \* the post_engagement row of the post, or NoRow
    init,   \* has the post's own EngagementInitTask run?
    open,   \* transactions that have read and not committed
    overlapped \* history: have two transactions been open together?

vars == <<kind, stage, gone, likes, row, init, open, overlapped>>

Stages == {"absent", "checked", "processing", "published", "counting", "done", "lost"}

Committed(c) == stage[c] \notin {"absent", "checked"}

(* Post.status == PUBLISHED: the status stays when deleted_at is set.      *)
Published(c) == stage[c] \in {"published", "counting", "done", "lost"}

(* What the task counts: published and not deleted.                        *)
Shown(k) == {c \in Child : kind[c] = k /\ Published(c) /\ gone[c] = "live"}

Checked == {c \in Child : stage[c] = "checked"}

(* A transaction opens, unless as many as the bound allows are open.       *)
Opening ==
    /\ Cardinality(open) + Cardinality(Checked) < Concurrency
    /\ overlapped' = (overlapped \/ open # {} \/ Checked # {})

Init ==
    /\ kind \in [Child -> {"reply", "repost"}]
    /\ stage = [c \in Child |-> "absent"]
    /\ gone = [c \in Child |-> "live"]
    /\ likes = {}
    /\ row = NoRow
    /\ init = FALSE
    /\ open = {}
    /\ overlapped = FALSE

-----------------------------------------------------------------------------

Fresh == [c \in Columns |-> 0]

(* A transaction: what it does, for whom, the row it read and the value it *)
(* is going to write; the slot tells apart two that are otherwise equal.   *)
Slot == CHOOSE i \in 1..Concurrency : \A txn \in open : txn.slot # i

Txn(op, who, value) ==
    [op |-> op, who |-> who, saw |-> row, value |-> value, slot |-> Slot]

Begin(txn) == Opening /\ open' = open \cup {txn}

End(txn) == open' = open \ {txn} /\ UNCHANGED overlapped

Conflict(txn) == txn.saw = NoRow /\ row # NoRow

(* Mutant: the whole row is written back as it was read.                   *)
Store_WholeRow(txn, column) ==
    row' = [(IF txn.saw = NoRow THEN Fresh ELSE txn.saw) EXCEPT ![column] = txn.value]

(* The flush of a changed column, or the insert of a fresh row.            *)
Store(txn, column) ==
    row' = IF txn.saw = NoRow THEN [Fresh EXCEPT ![column] = txn.value]
           ELSE IF txn.saw[column] = txn.value THEN row
           ELSE [row EXCEPT ![column] = txn.value]

Seen(column) == IF row = NoRow THEN 0 ELSE row[column]

(* `if engagement is not None and count > 0: count -= 1`                   *)
Decremented(column) == IF Seen(column) > 0 THEN Seen(column) - 1 ELSE 0

-----------------------------------------------------------------------------
(* Likes                                                                   *)

LikeBegin(u) ==
    /\ u \notin likes
    /\ Seen("like") < LikeBound
    /\ Begin(Txn("like", u, Seen("like") + 1))
    /\ UNCHANGED <<kind, stage, gone, likes, row, init>>

(* The primary key of likes or of post_engagement may be taken by now.     *)
LikeCommit(txn) ==
    /\ txn.op = "like"
    /\ End(txn)
    /\ IF txn.who \in likes \/ Conflict(txn)
       THEN UNCHANGED <<likes, row>>
       ELSE Store(txn, "like") /\ likes' = likes \cup {txn.who}
    /\ UNCHANGED <<kind, stage, gone, init>>

UnlikeBegin(u) ==
    /\ u \in likes
    /\ Begin(Txn("unlike", u, Decremented("like")))
    /\ UNCHANGED <<kind, stage, gone, likes, row, init>>

(* Mutant: the counter is left alone.                                      *)
UnlikeCommit_KeepsCount(txn) ==
    /\ txn.op = "unlike"
    /\ End(txn)
    /\ likes' = likes \ {txn.who}
    /\ UNCHANGED <<kind, stage, gone, row, init>>

(* Deleting a row that is gone is no error.                                *)
UnlikeCommit(txn) ==
    /\ txn.op = "unlike"
    /\ End(txn)
    /\ likes' = likes \ {txn.who}
    /\ IF txn.saw = NoRow THEN UNCHANGED row ELSE Store(txn, "like")
    /\ UNCHANGED <<kind, stage, gone, init>>

-----------------------------------------------------------------------------
(* Replies and reposts                                                     *)

(* create_post: "Already reposted" looks for a repost by the same user     *)
(* that is not deleted, whatever its status.                               *)
CreateBegin(c) ==
    /\ stage[c] = "absent"
    /\ Opening
    /\ kind[c] = "repost" =>
          \A d \in Child :
             kind[d] = "repost" /\ Owner[d] = Owner[c] /\ Committed(d) => gone[d] # "live"
    /\ stage' = [stage EXCEPT ![c] = "checked"]
    /\ UNCHANGED <<kind, gone, likes, row, init, open>>

CreateCommit(c) ==
    /\ stage[c] = "checked"
    /\ stage' = [stage EXCEPT ![c] = "processing"]
    /\ UNCHANGED <<kind, gone, likes, row, init, open, overlapped>>

(* The worker publishes the child, deleted or not, and goes on to count.   *)
Publish(c) ==
    /\ stage[c] = "processing"
    /\ Cardinality({d \in Child : stage[d] \in {"published", "counting"}}) < Workers
    /\ stage' = [stage EXCEPT ![c] = "published"]
    /\ UNCHANGED <<kind, gone, likes, row, init, open, overlapped>>

(* IncrementReplyCountTask, IncrementRepostCountTask: count what is shown. *)
CountBegin(c) ==
    /\ stage[c] = "published"
    /\ IF gone[c] = "live"
       THEN /\ stage' = [stage EXCEPT ![c] = "counting"]
            /\ Begin(Txn("count", c, Cardinality(Shown(kind[c]))))
       ELSE /\ stage' = [stage EXCEPT ![c] = "done"]
            /\ UNCHANGED <<open, overlapped>>
    /\ UNCHANGED <<kind, gone, likes, row, init>>

(* A key conflict fails the task; it is not run again.                     *)
CountCommit(txn) ==
    /\ txn.op = "count"
    /\ End(txn)
    /\ IF Conflict(txn)
       THEN /\ stage' = [stage EXCEPT ![txn.who] = "lost"]
            /\ UNCHANGED row
       ELSE /\ stage' = [stage EXCEPT ![txn.who] = "done"]
            /\ Store(txn, kind[txn.who])
    /\ UNCHANGED <<kind, gone, likes, init>>

(* delete_post and unrepost_post by the owner of the child.                *)
DeleteBegin(c) ==
    /\ Committed(c)
    /\ gone[c] = "live"
    /\ Begin(Txn("delete", c, Decremented(kind[c])))
    /\ UNCHANGED <<kind, stage, gone, likes, row, init>>

(* Mutant: the count of a deleted repost is kept.                          *)
DeleteCommit_KeepsCount(txn) ==
    /\ txn.op = "delete"
    /\ End(txn)
    /\ gone' = [gone EXCEPT ![txn.who] = "author"]
    /\ UNCHANGED <<kind, stage, likes, row, init>>

(* The reply_count of the parent is left alone; the repost_count is        *)
(* decremented whether or not this repost was ever counted.                *)
DeleteCommit(txn) ==
    /\ txn.op = "delete"
    /\ End(txn)
    /\ gone' = [gone EXCEPT ![txn.who] = "author"]
    /\ IF kind[txn.who] = "reply" \/ txn.saw = NoRow THEN UNCHANGED row ELSE Store(txn, "repost")
    /\ UNCHANGED <<kind, stage, likes, init>>

(* hide_post, and erase_me for all posts of an account: no counter.        *)
Hide(c) ==
    /\ Committed(c)
    /\ gone[c] = "live"
    /\ gone' = [gone EXCEPT ![c] = "moderator"]
    /\ UNCHANGED <<kind, stage, likes, row, init, open, overlapped>>

(* EngagementInitTask of the post itself adds the row unless it exists.    *)
InitBegin ==
    /\ ~init
    /\ init' = TRUE
    /\ IF row = NoRow THEN Begin(Txn("init", NoRow, 0)) ELSE UNCHANGED <<open, overlapped>>
    /\ UNCHANGED <<kind, stage, gone, likes, row>>

InitCommit(txn) ==
    /\ txn.op = "init"
    /\ End(txn)
    /\ row' = IF row = NoRow THEN Fresh ELSE row
    /\ UNCHANGED <<kind, stage, gone, likes, init>>

-----------------------------------------------------------------------------

Next ==
    \/ \E u \in User : LikeBegin(u) \/ UnlikeBegin(u)
    \/ \E c \in Child :
          CreateBegin(c) \/ CreateCommit(c) \/ Publish(c) \/ CountBegin(c) \/ DeleteBegin(c) \/ Hide(c)
    \/ InitBegin
    \/ \E txn \in open :
          LikeCommit(txn) \/ UnlikeCommit(txn) \/ CountCommit(txn) \/ DeleteCommit(txn)
          \/ InitCommit(txn)

Spec == Init /\ [][Next]_vars

-----------------------------------------------------------------------------
(* Properties                                                              *)

(* Every variable stays in its range; no counter is ever negative.         *)
TypeOK ==
    /\ kind \in [Child -> {"reply", "repost"}]
    /\ stage \in [Child -> Stages]
    /\ gone \in [Child -> {"live", "author", "moderator"}]
    /\ likes \subseteq User
    /\ row \in Counters \cup {NoRow}
    /\ init \in BOOLEAN
    /\ overlapped \in BOOLEAN
    /\ \A txn \in open :
          /\ txn.saw \in Counters \cup {NoRow} /\ txn.value \in Nat
          /\ \/ txn.op \in {"like", "unlike"} /\ txn.who \in User
             \/ txn.op \in {"count", "delete"} /\ txn.who \in Child
             \/ txn.op = "init"

(* like_count is the number of likes whenever no request is under way.     *)
LikeCountExact == open = {} => Seen("like") = Cardinality(likes)

(* One request after the other, like_count is exact, also around the       *)
(* creation of the row.                                                    *)
SerialLikeCountExact == ~overlapped => LikeCountExact

(* A repost its owner took back is not counted: one transaction after the  *)
(* other, repost_count exceeds the shown reposts by hidden and erased ones *)
(* only, although a repost may be deleted before it was ever counted.      *)
SerialRepostsTakenBack ==
    ~overlapped /\ open = {} =>
        Seen("repost") <= Cardinality({c \in Child : kind[c] = "repost" /\ Published(c)
                                                     /\ gone[c] # "author"})

(* Counting again makes up for everything before it: when each reply was   *)
(* published and counted and none was deleted, reply_count is exact, in    *)
(* whatever order likes, reposts and the row's creation interfered.        *)
RecountIsExact ==
    LET replies == {c \in Child : kind[c] = "reply" /\ Committed(c)}
    IN (\A c \in replies : stage[c] = "done" /\ gone[c] = "live")
          => Seen("reply") = Cardinality(replies)

===============================================================================
