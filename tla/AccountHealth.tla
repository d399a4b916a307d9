----------------------------- MODULE AccountHealth -----------------------------
(***************************************************************************)
(* The health of one account: a score computed from who follows and blocks *)
(* it and who likes and hides its posts, and two labels which keep it out  *)
(* of recommendations and which nothing ever takes back.                   *)
(*                                                                         *)
(* A block or a hide is committed first; the same request then recomputes  *)
(* the health in a second transaction.  Other changes recompute nothing.   *)
(* A handler reads the post or the account at some time before it commits, *)
(* so that a like, a hide or a follow can still come in after a deletion   *)
(* or a block.  The counting statements of one recomputation are one       *)
(* action.  The score is in thousandths.                                   *)
(***************************************************************************)
EXTENDS Integers, FiniteSets

CONSTANTS
    Viewer,       \* everybody else
    Post,         \* the account's posts
    Log1p,        \* log1p, in thousandths
    MaxChanges,   \* bound: changes of the signals
    MaxRefreshes, \* bound: visits to "under the hood" and moderators' labels
    MaxJobs       \* bound: requests under way that recompute, at a time

(* How many followers, or likes and followers, there may be.               *)
Counts == 0..(Cardinality(Viewer) + Cardinality(Viewer \X Post))

(* Of log1p only its growth matters, and that two hides cost less than     *)
(* 25 points.                                                              *)
ASSUME HealthAssumption ==
    /\ IsFiniteSet(Viewer) /\ IsFiniteSet(Post)
    /\ Log1p \in [Counts -> Nat] /\ Log1p[0] = 0
    /\ \A n \in Counts : n <= 2 => Log1p[n] <= 1099
    /\ \A m, n \in Counts : m <= n => Log1p[m] <= Log1p[n]
    /\ MaxChanges \in Nat /\ MaxRefreshes \in Nat /\ MaxJobs \in Nat

VARIABLES
    followers, following, blockers,
    likes, hides,   \* pairs of a viewer and a post
    posts,          \* the posts that are not deleted
    score,          \* users.cred_score
    labels,         \* the account's rows in safety_labels
    jobs,           \* requests under way that recompute
    changes, visits,
    drift,    \* history: what has changed since the last block or hide
    lost,     \* history: a recomputation failed and none has begun since
    overlap,  \* history: have two such requests overlapped?
    pressure  \* history: has there been a block, three hides at a time, or a
              \* moderator's label?

signals == <<followers, following, blockers, likes, hides, posts>>
health == <<score, labels>>
history == <<drift, lost, overlap, pressure>>
vars == <<signals, health, jobs, changes, visits, history>>

-----------------------------------------------------------------------------
(* The score                                                               *)

MaxScore == 100000

Clip(x) == IF x < 0 THEN 0 ELSE IF x > MaxScore THEN MaxScore ELSE x

AtLeastOne(n) == IF n = 0 THEN 1 ELSE n

Likes == Cardinality({r \in likes : r[2] \in posts})

Hides == Cardinality({r \in hides : r[2] \in posts})

Blocks == Cardinality(blockers)

(* Followers and likes count in full, accounts followed for a fifth.       *)
Positive ==
    Log1p[Cardinality(followers) + Likes] + Log1p[Cardinality(following)] \div 5

(* Mutant: hides weigh as much as blocks.                                  *)
Cred_HeavyHides ==
    LET negative == 5 * Log1p[Blocks] + 5 * Log1p[Hides]
    IN  Clip(50000 + 12 * Positive - (15 * negative) \div 2)

Cred ==
    LET negative == 5 * Log1p[Blocks] + 3 * Log1p[Hides]
    IN  Clip(50000 + 12 * Positive - (15 * negative) \div 2)

(* Mutant: the parentheses take in the score.                              *)
Spammy_Parentheses ==
    /\ Blocks + Hides >= 3
    /\ \/ 100 * Blocks >= 35 * AtLeastOne(Cardinality(followers))
       \/ 2 * Hides >= AtLeastOne(Likes + Hides)
       \/ Cred < 25000

Spammy ==
    \/ /\ Blocks + Hides >= 3
       /\ \/ 100 * Blocks >= 35 * AtLeastOne(Cardinality(followers))
          \/ 2 * Hides >= AtLeastOne(Likes + Hides)
    \/ Cred < 25000

HealthLabels == {"spam_suspect", "do_not_amplify"}

Init ==
    /\ followers = {} /\ following = {} /\ blockers = {}
    /\ likes = {} /\ hides = {} /\ posts = Post
    /\ score = 50000 /\ labels = {}
    /\ jobs = {} /\ changes = 0 /\ visits = 0
    /\ drift = {} /\ lost = FALSE /\ overlap = FALSE /\ pressure = FALSE

-----------------------------------------------------------------------------
(* Changes of the signals                                                  *)

Change == changes < MaxChanges /\ changes' = changes + 1

FreeId == CHOOSE n \in 1..MaxJobs : \A j \in jobs : j.id # n

Enter(j) ==
    /\ Cardinality(jobs) < MaxJobs
    /\ jobs' = jobs \cup {j}
    /\ overlap' = (overlap \/ jobs # {})

(* A request that has still to count, and the score its session has loaded.*)
Due(n, op, loaded) == [id |-> n, op |-> op, phase |-> "due", loaded |-> loaded]

Harm ==
    /\ Change
    /\ drift' = {}
    /\ UNCHANGED <<health, visits, lost>>

(* No recomputation follows.                                               *)
Quietly(kinds) ==
    /\ Change
    /\ drift' = drift \cup kinds
    /\ UNCHANGED <<health, jobs, visits, lost, overlap, pressure>>

(* block_user up to its reads: it loads the account's row.                 *)
AskBlock(v) ==
    /\ v \notin blockers
    /\ Enter([id |-> FreeId, op |-> "block", phase |-> "asked", loaded |-> score, by |-> v])
    /\ UNCHANGED <<signals, health, changes, visits, drift, lost, pressure>>

(* block_user up to its first commit.  A follow that was committed since   *)
(* the reads stays.                                                        *)
Block(j) ==
    /\ j.phase = "asked" /\ j.by \notin blockers
    /\ Harm
    /\ jobs' = (jobs \ {j}) \cup {Due(j.id, "block", j.loaded)}
    /\ blockers' = blockers \cup {j.by}
    /\ followers' \in {followers, followers \ {j.by}}
    /\ following' \in {following, following \ {j.by}}
    /\ pressure' = TRUE
    /\ UNCHANGED <<likes, hides, posts, overlap>>

Unblock(v) ==
    /\ v \in blockers
    /\ blockers' = blockers \ {v}
    /\ Quietly({"better"})
    /\ UNCHANGED <<followers, following, likes, hides, posts>>

(* upsert_feedback with kind hide, up to its first commit: a new feedback, *)
(* another kind of feedback, or the same once more.  The account's row     *)
(* will be loaded by the recomputation.                                    *)
Hide(v, p) ==
    /\ hides' = hides \cup {<<v, p>>}
    /\ Harm
    /\ Enter(Due(FreeId, "hide", -1))
    /\ pressure' = (pressure \/ Cardinality(hides') >= 3)
    /\ UNCHANGED <<followers, following, blockers, likes, posts>>

(* The feedback is deleted, or becomes "not interested".                   *)
Unhide(r) ==
    /\ hides' = hides \ {r}
    /\ Quietly({"better"})
    /\ UNCHANGED <<followers, following, blockers, likes, posts>>

Like(v, p) ==
    /\ <<v, p>> \notin likes
    /\ likes' = likes \cup {<<v, p>>}
    /\ Quietly({"better"})
    /\ UNCHANGED <<followers, following, blockers, hides, posts>>

Unlike(r) ==
    /\ likes' = likes \ {r}
    /\ Quietly({"worse"})
    /\ UNCHANGED <<followers, following, blockers, hides, posts>>

(* A viewer follows the account.                                           *)
Follow(v) ==
    /\ v \notin followers
    /\ followers' = followers \cup {v}
    /\ Quietly({"better"})
    /\ UNCHANGED <<following, blockers, likes, hides, posts>>

Unfollow(v) ==
    /\ v \in followers
    /\ followers' = followers \ {v}
    /\ Quietly({"worse"})
    /\ UNCHANGED <<following, blockers, likes, hides, posts>>

(* The account follows a viewer.                                           *)
FollowBack(v) ==
    /\ v \notin following
    /\ following' = following \cup {v}
    /\ Quietly({"better"})
    /\ UNCHANGED <<followers, blockers, likes, hides, posts>>

UnfollowBack(v) ==
    /\ v \in following
    /\ following' = following \ {v}
    /\ Quietly({"worse"})
    /\ UNCHANGED <<followers, blockers, likes, hides, posts>>

(* A post takes its likes and its hides with it.                           *)
DeletePost(p) ==
    /\ p \in posts
    /\ posts' = posts \ {p}
    /\ Quietly({"better", "worse"})
    /\ UNCHANGED <<followers, following, blockers, likes, hides>>

-----------------------------------------------------------------------------
(* Recomputation                                                           *)

Visit == visits < MaxRefreshes /\ visits' = visits + 1

(* get_under_the_hood: the account's own request.                          *)
LookUnderTheHood ==
    /\ Visit
    /\ Enter(Due(FreeId, "look", score))
    /\ UNCHANGED <<signals, health, changes, drift, lost, pressure>>

(* A moderator's write_label, after the race Moderation is about.          *)
ModeratorLabels(l) ==
    /\ Visit
    /\ l \notin labels
    /\ labels' = labels \cup {l}
    /\ pressure' = TRUE
    /\ UNCHANGED <<signals, score, jobs, changes, drift, lost, overlap>>

(* Mutant: the score of the last time decides.                             *)
Count_LastScore(j) ==
    /\ j.phase = "due"
    /\ jobs' = (jobs \ {j}) \cup
          {[id |-> j.id, op |-> j.op, phase |-> "counted",
            loaded |-> IF j.op = "hide" THEN score ELSE j.loaded,
            cred |-> Cred, spammy |-> score < 25000, present |-> labels]}
    /\ lost' = FALSE
    /\ UNCHANGED <<signals, health, changes, visits, drift, overlap, pressure>>

(* refresh_user_health up to its writes.                                   *)
Count(j) ==
    /\ j.phase = "due"
    /\ jobs' = (jobs \ {j}) \cup
          {[id |-> j.id, op |-> j.op, phase |-> "counted",
            loaded |-> IF j.op = "hide" THEN score ELSE j.loaded,
            cred |-> Cred, spammy |-> Spammy, present |-> labels]}
    /\ lost' = FALSE
    /\ UNCHANGED <<signals, health, changes, visits, drift, overlap, pressure>>

(* A label that was not there is inserted, and now is there.               *)
Conflict(j) == j.spammy /\ (HealthLabels \ j.present) \cap labels # {}

(* Mutant: only the label is written if there is one to write.             *)
Store_LabelOnly(j) ==
    /\ j.phase = "counted" /\ ~Conflict(j)
    /\ jobs' = jobs \ {j}
    /\ score' = IF j.loaded = j.cred \/ j.spammy THEN score ELSE j.cred
    /\ labels' = IF j.spammy THEN labels \cup HealthLabels ELSE labels
    /\ UNCHANGED <<signals, changes, visits, history>>

(* The score is written if it differs from the one that was loaded.        *)
Store(j) ==
    /\ j.phase = "counted" /\ ~Conflict(j)
    /\ jobs' = jobs \ {j}
    /\ score' = IF j.loaded = j.cred THEN score ELSE j.cred
    /\ labels' = IF j.spammy THEN labels \cup HealthLabels ELSE labels
    /\ UNCHANGED <<signals, changes, visits, history>>

(* The key conflicts, and the score is not written either; the request     *)
(* dies between the commit of the block or hide and this one; or it blocks *)
(* nobody, and nothing is lost.                                            *)
Fail(j) ==
    /\ jobs' = jobs \ {j}
    /\ lost' = (lost \/ j.phase # "asked")
    /\ UNCHANGED <<signals, health, changes, visits, drift, overlap, pressure>>

Next ==
    \/ \E v \in Viewer :
          \/ AskBlock(v) \/ Unblock(v)
          \/ Follow(v) \/ Unfollow(v) \/ FollowBack(v) \/ UnfollowBack(v)
    \/ \E v \in Viewer, p \in Post : Hide(v, p) \/ Like(v, p)
    \/ \E r \in hides : Unhide(r)
    \/ \E r \in likes : Unlike(r)
    \/ \E p \in Post : DeletePost(p)
    \/ LookUnderTheHood
    \/ \E l \in HealthLabels : ModeratorLabels(l)
    \/ \E j \in jobs : Block(j) \/ Count(j) \/ Store(j) \/ Fail(j)

Spec == Init /\ [][Next]_vars

-----------------------------------------------------------------------------
(* Properties                                                              *)

Scores == 0..MaxScore

(* Every variable stays in its range.                                      *)
TypeOK ==
    /\ followers \subseteq Viewer /\ following \subseteq Viewer /\ blockers \subseteq Viewer
    /\ likes \subseteq Viewer \X Post /\ hides \subseteq Viewer \X Post
    /\ posts \subseteq Post
    /\ score \in Scores
    /\ labels \subseteq HealthLabels
    /\ \A j \in jobs :
          /\ j.op \in {"block", "hide", "look"}
          /\ j.phase \in {"asked", "due", "counted"}
          /\ j.loaded \in Scores \cup {-1}
          /\ j.phase = "asked" => j.by \in Viewer
    /\ changes \in 0..MaxChanges /\ visits \in 0..MaxRefreshes
    /\ drift \subseteq {"better", "worse"}
    /\ lost \in BOOLEAN /\ overlap \in BOOLEAN /\ pressure \in BOOLEAN

(* No recomputation is owed or under way.                                  *)
AtRest == \A j \in jobs : j.phase = "asked"

(* No spammer is missed: when nothing is under way and the signals make    *)
(* the account spammy, it carries both labels, however the recomputations  *)
(* of several blocks and hides interleaved, unless the last of them was    *)
(* lost, or it turned spammy through a change that recomputes nothing (a   *)
(* follow or a like taken back, a post deleted).                           *)
NoSpammerMissed ==
    AtRest /\ ~lost /\ "worse" \notin drift /\ Spammy => labels = HealthLabels

(* A score that counts as spam never stands without the labels, whichever  *)
(* recomputations conflict or fail.                                        *)
LowScoreLabelled == score < 25000 => labels = HealthLabels

(* Without a moderator, no account is labelled that was never blocked and  *)
(* that never had three hides at a time on all its posts together, even    *)
(* one that nobody follows.  One reader may give all three.  (One block is *)
(* enough for an account without followers, below the three signals that   *)
(* MIN_SIGNALS_FOR_SPAM asks for.)                                         *)
LabelNeedsPressure == labels # {} => pressure

(* The score is that of the present signals, when nothing is under way,    *)
(* nothing was lost or has changed since the last block or hide, and no    *)
(* two requests that recompute it overlapped.                              *)
ScoreCurrent ==
    AtRest /\ ~lost /\ ~overlap /\ drift = {} /\ changes > 0 => score = Cred

================================================================================
