------------------------------- MODULE FeedPages -------------------------------
(***************************************************************************)
(* One viewer scrolls through GET /feed or GET /feed/following, or opens a *)
(* thread, while posts are dispatched, deleted, hidden, and authors are    *)
(* followed, blocked, muted, suspended or go private.  A page is two       *)
(* steps: the query hydrators read the viewer's lists, then the sources    *)
(* are read and filtered; a thread reads its posts first and the lists     *)
(* second; anything may commit in between.                                 *)
(*                                                                         *)
(* Posts are numbered in the order of (created_at, id), so that a cursor   *)
(* is a post number.  The ranking score and the similarity search are      *)
(* abstracted to any order and any eligible choice.  Nobody blocks the     *)
(* viewer, and a backfill has room for every post.                         *)
(***************************************************************************)
EXTENDS FeedPolicy, Listings, FiniteSets, Sequences

CONSTANTS
    Viewer,
    Others,     \* accounts the viewer may follow, mute or block
    NPosts,
    Content,    \* post -> its immutable columns and the labels of its dispatch
    Private,    \* accounts with is_private at first
    Keyword,    \* the words the viewer may mute
    PageLimit,  \* limit of the requests
    MinPosts,   \* bound: posts dispatched before the first request, at least
    MaxChanges  \* bound: commits of others than the feed requests

Post == 1..NPosts

NoPost == 0

Account == Others \cup {Viewer}

ASSUME PagesAssumption ==
    /\ NPosts \in Nat /\ MinPosts \in 0..NPosts /\ MaxChanges \in Nat
    /\ PageLimit \in Nat \ {0}
    /\ Viewer \notin Others
    /\ Private \subseteq Others
    /\ \A p \in Post :
          /\ Content[p].author \in Account
          /\ Content[p].parent \in {NoPost} \cup 1..(p - 1)
          /\ Content[p].refersTo \in {NoPost} \cup 1..(p - 1)
          /\ Content[p].words \subseteq Keyword

VARIABLES
    published, \* dispatched posts
    deleted,   \* posts with deleted_at
    rows,      \* posts in the viewer's user_feed
    follows,   \* accounts the viewer follows
    blocked,   \* accounts the viewer blocks
    muted,     \* accounts the viewer mutes
    keywords,  \* words the viewer mutes
    feedback,  \* post -> "none", "hide" or "not_interested"
    suspended, \* suspended accounts
    private,   \* accounts with is_private
    flagged,   \* posts a moderator labelled nsfw
    limited,   \* accounts labelled spam_suspect and do_not_amplify
    changes,   \* changes so far
    surface,   \* "for_you", "following" or "thread"
    adult,     \* is_adult of the viewer's birthdate
    phase,     \* "idle", "asked" or "done": next_cursor was null
    query,     \* what the hydrators of the open request read
    found,     \* posts of the thread, as its query found them
    cursor,    \* post number of the next page's cursor; NPosts + 1 is none
    page,      \* the last page, a sequence of Items
    shown,     \* history: posts of all pages so far, in order
    steady,    \* history: posts visible to the viewer ever since the first request
    dropped,   \* history: has the policy dropped a row of a page?
    weighed,   \* history: rows of user_feed that For You fetched and ranked
    strayed    \* history: was a For You cursor taken from outside the network?

lists == <<follows, blocked, muted, keywords, feedback>>
labels == <<flagged, limited>>
standing == <<suspended, private>>
world == <<published, deleted, rows, standing, labels, changes>>
scroll == <<phase, query, found, cursor, page, shown, dropped, weighed, strayed>>
vars == <<world, lists, surface, adult, scroll, steady>>

-----------------------------------------------------------------------------
(* What a request reads                                                    *)

Author(p) == Content[p].author

(* The labels of a post and of its author.                                 *)
LabelsOf(p) ==
    Content[p].labels
    \cup {l \in {"nsfw"} : p \in flagged}
    \cup {l \in {"spam_suspect", "do_not_amplify"} : Author(p) \in limited}

Public(p) == p \in published /\ p \notin deleted

CurrentQuery ==
    [ following |-> follows \cup {Viewer},
      blocked   |-> blocked,
      muted     |-> muted,
      keywords  |-> keywords,
      hidden    |-> {p \in Post : feedback[p] # "none"},
      declined  |-> {Author(p) : p \in {x \in Post : feedback[x] = "not_interested"}},
      adult     |-> adult ]

Hydrated(p) ==
    [ missing       |-> ~Public(p),
      author        |-> Author(p),
      followersOnly |-> Content[p].followersOnly,
      private       |-> Author(p) \in private,
      suspended     |-> Author(p) \in suspended ]

Root(p) == IF Content[p].parent = NoPost THEN p ELSE Content[p].root

(* A candidate after AuthorHydrator, SafetyLabelHydrator, ParentHydrator.  *)
Candidate(p, source) ==
    [ id |-> p, author |-> Author(p), source |-> source,
      words |-> Content[p].words, labels |-> LabelsOf(p), old |-> Content[p].old,
      followersOnly |-> Content[p].followersOnly,
      private |-> Author(p) \in private, suspended |-> Author(p) \in suspended,
      reply |-> Content[p].parent # NoPost,
      parent |-> IF Content[p].parent = NoPost THEN Hydrated(p) ELSE Hydrated(Content[p].parent) ]

Newest(posts, n) == {p \in posts : Cardinality({x \in posts : x > p}) < n}

(* Mutants of Thunder: the row at the cursor is read again; no extra row.  *)
Thunder_AtCursor(after) ==
    Newest({p \in rows : Public(p) /\ p <= after}, PageLimit + 1)

Thunder_NoExtra(after) ==
    Newest({p \in rows : Public(p) /\ p < after}, PageLimit)

(* ThunderSource: one row more than a page, older than the cursor.         *)
Thunder(after) ==
    Newest({p \in rows : Public(p) /\ p < after}, PageLimit + 1)

OonCap == LET cap == (35 * PageLimit) \div 100 IN IF cap > 1 THEN cap ELSE 1

(* At most two posts of an author.                                         *)
Diverse(posts) == \A a \in Account : Cardinality({p \in posts : Author(p) = a}) <= 2

(* What search_similar_posts may find: roots of strangers, none of authors *)
(* the viewer declined, nothing labelled.                                  *)
SimilarPosts(q) ==
    {s \in SUBSET {p \in Post :
              /\ Public(p)
              /\ Author(p) \notin q.following \cup q.blocked \cup q.muted \cup q.declined
              /\ p \notin q.hidden
              /\ Content[p].parent = NoPost /\ ~Content[p].repost
              /\ ~Content[p].followersOnly
              /\ LabelsOf(p) \cap AmplificationLabels = {}} : Diverse(s)}

(* Mutant: the rows are picked before they are in the order of time.       *)
Blends_Unordered(q, after) ==
    { [thunder |-> rs, oon |-> {}] :
        rs \in {x \in SUBSET {p \in rows : Public(p) /\ p < after} : Cardinality(x) <= PageLimit + 1} }

(* SourceBlender: what Thunder brought comes from there, and out-of-       *)
(* network posts are capped.                                               *)
Blends(q, after) ==
    { [thunder |-> Thunder(after), oon |-> s \ Thunder(after)] :
        s \in {x \in SimilarPosts(q) : Cardinality(x \ Thunder(after)) <= OonCap} }

(* The posts whose bodies the reader gets: the post itself, and the quoted *)
(* or reposted one as ReferenceHydrator fills it in.                       *)
BodiesOf(p, verdict) ==
    IF verdict = "interstitial" THEN {}
    ELSE {p} \cup {r \in {Content[p].refersTo} : r # NoPost /\ r \notin deleted}

(* sensitive: those of the bodies that are labelled nsfw.                  *)
Item(policy, q, p, source) ==
    LET c == Candidate(p, source)
        verdict == Verdict(policy, q, c)
    IN  [ id |-> p, source |-> source, labels |-> c.labels, verdict |-> verdict,
          sensitive |-> {b \in BodiesOf(p, verdict) : "nsfw" \in LabelsOf(b)} ]

Kept(items) == {i \in items : i.verdict # "drop"}

Conversation(i) == Root(i.id)

IsRoot(i) == Content[i.id].parent = NoPost

(* dedupe_conversations: the root if it is a candidate, else the reply     *)
(* ranked highest.                                                         *)
Deduped(ranked) ==
    LET roots == {Conversation(i) : i \in {j \in ToSet(ranked) : IsRoot(j)}}
        kept  == {n \in DOMAIN ranked :
                    \/ IsRoot(ranked[n])
                    \/ /\ Conversation(ranked[n]) \notin roots
                       /\ \A m \in 1..(n - 1) : Conversation(ranked[m]) # Conversation(ranked[n])}
    IN  {[k \in DOMAIN order |-> ranked[order[k]]] : order \in Orderings(kept, LAMBDA m, n : m < n)}

(* rank_candidates: whatever the scores are.                               *)
Rankings(items) == SetToSeqs(items)

-----------------------------------------------------------------------------
(* The thread of a root                                                    *)

ThreadItems == {Item(ThreadPolicy, CurrentQuery, p, "in_network") : p \in found}

(* Mutant: one pass over the replies.                                      *)
ThreadOf_OnePass(kept) ==
    LET roots == {p \in kept : Content[p].parent = NoPost}
    IN  roots \cup {p \in kept : Content[p].parent \in roots}

(* get_thread: the loop that adds the kept replies to what is visible      *)
(* already, until nothing is added.                                        *)
ThreadOf(kept) ==
    LET visible[n \in 0..NPosts] ==
            IF n = 0 THEN {p \in kept : Content[p].parent = NoPost}
            ELSE LET seen == visible[n - 1]
                 IN  seen \cup {p \in kept : Content[p].parent \in seen}
    IN  visible[NPosts]

-----------------------------------------------------------------------------

Policy == IF surface = "for_you" THEN HomePolicy ELSE FollowingPolicy

(* Nothing keeps p from the Following surface.                             *)
Visible(p) ==
    /\ p \in rows /\ Public(p)
    /\ Verdict(FollowingPolicy, CurrentQuery, Candidate(p, "in_network")) # "drop"

Init ==
    /\ \E n \in MinPosts..NPosts : published = 1..n
    /\ follows \in SUBSET Others
    /\ rows = {p \in published : Author(p) \in follows \cup {Viewer}}
    /\ deleted = {} /\ blocked = {} /\ muted = {} /\ keywords = {} /\ suspended = {}
    /\ private = Private
    /\ flagged = {} /\ limited = {}
    /\ feedback = [p \in Post |-> "none"]
    /\ changes = 0
    /\ surface \in {"for_you", "following", "thread"}
    /\ adult \in BOOLEAN
    /\ phase = "idle" /\ query = CurrentQuery /\ found = {} /\ cursor = NPosts + 1
    /\ page = <<>> /\ shown = <<>> /\ steady = {} /\ dropped = FALSE
    /\ weighed = {} /\ strayed = FALSE

First == shown = <<>> /\ cursor = NPosts + 1

(* The query hydrators.  Bound: nobody scrolls on from a cursor that       *)
(* strayed, as the pages may then go round in circles.                     *)
Ask ==
    /\ phase = "idle" /\ surface # "thread" /\ ~strayed
    /\ phase' = "asked"
    /\ query' = CurrentQuery
    /\ steady' = IF First THEN {p \in Post : Visible(p)} ELSE steady
    /\ UNCHANGED <<world, lists, surface, adult, found, cursor, page, shown, dropped,
                   weighed, strayed>>

(* Mutant: the cursor is the item that did not fit.                        *)
Select_SkipsOne(items) ==
    LET chosen == SubSeq(items, 1, IF Len(items) < PageLimit THEN Len(items) ELSE PageLimit)
    IN  /\ page' = chosen
        /\ shown' = shown \o [n \in DOMAIN chosen |-> chosen[n].id]
        /\ IF Len(items) > PageLimit
           THEN phase' = "idle" /\ cursor' = items[PageLimit + 1].id
           ELSE phase' = "done" /\ UNCHANGED cursor

(* CursorSelector: the last item of the page is the next cursor if there   *)
(* is a candidate that did not fit.                                        *)
Select(items) ==
    LET chosen == SubSeq(items, 1, IF Len(items) < PageLimit THEN Len(items) ELSE PageLimit)
    IN  /\ page' = chosen
        /\ shown' = shown \o [n \in DOMAIN chosen |-> chosen[n].id]
        /\ IF Len(items) > PageLimit
           THEN phase' = "idle" /\ cursor' = chosen[PageLimit].id
           ELSE phase' = "done" /\ UNCHANGED cursor

(* build_following_pipeline: Thunder only, in order of time.               *)
AnswerFollowing ==
    /\ phase = "asked" /\ surface = "following"
    /\ LET items == {Item(FollowingPolicy, query, p, "in_network") : p \in Thunder(cursor)}
       IN  /\ \E newest \in Orderings(Kept(items), LAMBDA i, j : i.id > j.id) : Select(newest)
           /\ dropped' = (dropped \/ Kept(items) # items)
    /\ UNCHANGED <<world, lists, surface, adult, query, found, steady, weighed, strayed>>

(* build_feed_pipeline: blended, ranked, one item per conversation.        *)
AnswerForYou ==
    /\ phase = "asked" /\ surface = "for_you"
    /\ \E blend \in Blends(query, cursor) :
          LET items == {Item(HomePolicy, query, p, "thunder") : p \in blend.thunder}
                       \cup {Item(HomePolicy, query, p, "oon") : p \in blend.oon}
          IN  /\ \E ranked \in Rankings(Kept(items)) : \E best \in Deduped(ranked) : Select(best)
              /\ dropped' = (dropped \/ Kept(items) # items)
              /\ weighed' = weighed \cup blend.thunder
              /\ strayed' = (strayed \/ (phase' = "idle" /\ Last(page').source = "oon"))
    /\ UNCHANGED <<world, lists, surface, adult, query, found, steady>>

(* get_thread: the posts of the conversation,                              *)
AskThread(p) ==
    /\ phase = "idle" /\ surface = "thread"
    /\ Public(p)
    /\ phase' = "asked"
    /\ found' = {x \in Post : Public(x) /\ Root(x) = Root(p)}
    /\ UNCHANGED <<world, lists, surface, adult, query, cursor, page, shown, steady, dropped,
                   weighed, strayed>>

(* then the lists, the policy, and the replies below what is visible; a    *)
(* root is older than its replies.                                         *)
AnswerThread ==
    /\ phase = "asked" /\ surface = "thread"
    /\ phase' = "done"
    /\ query' = CurrentQuery
    /\ LET kept == Kept(ThreadItems)
           thread == ThreadOf({i.id : i \in kept})
       IN  page' \in Orderings({i \in kept : i.id \in thread}, LAMBDA i, j : i.id < j.id)
    /\ UNCHANGED <<world, lists, surface, adult, found, cursor, shown, steady, dropped,
                   weighed, strayed>>

-----------------------------------------------------------------------------
(* What others commit                                                      *)

(* Bound: nothing changes once the last page is out, as nothing more is    *)
(* read.                                                                   *)
Change ==
    /\ changes < MaxChanges /\ phase # "done"
    /\ changes' = changes + 1
    /\ UNCHANGED <<surface, adult, scroll>>

KeepSteady == steady' = {p \in steady : Visible(p)'}

(* A dispatch; its steps are the subject of PostPipeline and FeedCache.    *)
Arrive(p) ==
    /\ p \notin published
    /\ published' = published \cup {p}
    /\ rows' = IF Author(p) \in follows \cup {Viewer} THEN rows \cup {p} ELSE rows
    /\ UNCHANGED <<deleted, standing, labels, lists>>
    /\ Change /\ KeepSteady

Delete(p) ==
    /\ p \notin deleted
    /\ deleted' = deleted \cup {p}
    /\ UNCHANGED <<published, rows, standing, labels, lists>>
    /\ Change /\ KeepSteady

(* refresh_user_health at the end of a handler: whether a is labelled      *)
(* depends on the likes, hides and blocks of everybody else as well.       *)
RefreshHealth(a) == limited' \in {limited, limited \cup {a}}

(* upsert_feedback and delete_feedback.                                    *)
GiveFeedback(p, kind) ==
    /\ IF kind = "none" THEN feedback[p] # "none" ELSE Public(p) /\ Author(p) # Viewer
    /\ feedback' = [feedback EXCEPT ![p] = kind]
    /\ IF kind = "hide" THEN RefreshHealth(Author(p)) ELSE UNCHANGED limited
    /\ UNCHANGED <<published, deleted, rows, standing, flagged, follows, blocked, muted, keywords>>
    /\ Change /\ KeepSteady

Follow(a) ==
    /\ a \notin follows \cup blocked
    /\ follows' = follows \cup {a}
    /\ rows' = rows \cup {p \in Post : Author(p) = a /\ Public(p)}
    /\ UNCHANGED <<published, deleted, standing, labels, blocked, muted, keywords, feedback>>
    /\ Change /\ KeepSteady

Forget(a) ==
    /\ follows' = follows \ {a}
    /\ rows' = IF a \in follows THEN {p \in rows : Author(p) # a} ELSE rows

Unfollow(a) ==
    /\ a \in follows
    /\ Forget(a)
    /\ UNCHANGED <<published, deleted, standing, labels, blocked, muted, keywords, feedback>>
    /\ Change /\ KeepSteady

Block(a) ==
    /\ a \notin blocked
    /\ blocked' = blocked \cup {a}
    /\ Forget(a)
    /\ RefreshHealth(a)
    /\ UNCHANGED <<published, deleted, standing, flagged, muted, keywords, feedback>>
    /\ Change /\ KeepSteady

Unblock(a) ==
    /\ a \in blocked
    /\ blocked' = blocked \ {a}
    /\ UNCHANGED <<published, deleted, rows, standing, labels, follows, muted, keywords, feedback>>
    /\ Change /\ KeepSteady

Toggle(set, e) == (set \ {e}) \cup ({e} \ set)

(* mute_user and unmute_user.                                              *)
Mute(a) ==
    /\ muted' = Toggle(muted, a)
    /\ UNCHANGED <<published, deleted, rows, standing, labels, follows, blocked, keywords, feedback>>
    /\ Change /\ KeepSteady

(* add and remove a muted keyword.                                         *)
MuteKeyword(k) ==
    /\ keywords' = Toggle(keywords, k)
    /\ UNCHANGED <<published, deleted, rows, standing, labels, follows, blocked, muted, feedback>>
    /\ Change /\ KeepSteady

(* suspend_user and unsuspend_user.                                        *)
Suspend(a) ==
    /\ suspended' = Toggle(suspended, a)
    /\ UNCHANGED <<published, deleted, rows, private, labels, lists>>
    /\ Change /\ KeepSteady

(* update_me changes is_private.                                           *)
SetPrivate(a) ==
    /\ private' = Toggle(private, a)
    /\ UNCHANGED <<published, deleted, rows, suspended, labels, lists>>
    /\ Change /\ KeepSteady

(* write_label by a moderator, for a post or for an account.               *)
LabelPost(p) ==
    /\ p \in published /\ p \notin flagged
    /\ flagged' = flagged \cup {p}
    /\ UNCHANGED <<published, deleted, rows, standing, limited, lists>>
    /\ Change /\ KeepSteady

LabelUser(a) ==
    /\ a \notin limited
    /\ limited' = limited \cup {a}
    /\ UNCHANGED <<published, deleted, rows, standing, flagged, lists>>
    /\ Change /\ KeepSteady

Next ==
    \/ Ask \/ AnswerFollowing \/ AnswerForYou \/ AnswerThread
    \/ \E p \in Post :
          \/ AskThread(p) \/ Arrive(p) \/ Delete(p) \/ LabelPost(p)
          \/ \E kind \in {"none", "hide", "not_interested"} : GiveFeedback(p, kind)
    \/ \E a \in Others :
          \/ Follow(a) \/ Unfollow(a) \/ Block(a) \/ Unblock(a) \/ Mute(a)
          \/ Suspend(a) \/ LabelUser(a) \/ SetPrivate(a)
    \/ \E k \in Keyword : MuteKeyword(k)

Spec == Init /\ [][Next]_vars

-----------------------------------------------------------------------------
(* Properties                                                              *)

OnPage == ToSet(page)

ShownPosts == ToSet(shown)

(* Across pages, Following is strictly newest first: whatever is           *)
(* published, deleted or backfilled while one scrolls, no post comes twice *)
(* or out of order (the compound cursor against an OFFSET).                *)
FollowingDescends ==
    surface = "following" =>
        \A m, n \in DOMAIN shown : m < n => shown[n] < shown[m]

(* No page jumps over a post: one that was visible all along and is newer  *)
(* than the cursor was on a page.  The lists a request goes by may be      *)
(* stale, and the policy may drop what was visible all along: a reply to   *)
(* an author who was followed and went private while the request was under *)
(* way.  But a page from which it has dropped one of limit + 1 rows has no *)
(* next cursor, so what goes missing goes missing at the end (EndMeansEnd).*)
NoGaps ==
    surface = "following" /\ phase # "done" /\ cursor <= NPosts =>
        {p \in steady : p >= cursor} \subseteq ShownPosts

(* "limit items, and a cursor if there are more": when next_cursor is      *)
(* null, a post that was visible all along has been on a page.             *)
EndMeansEnd ==
    surface = "following" /\ phase = "done" => steady \subseteq ShownPosts

(* The same, unless the policy dropped a row on the way.                   *)
EndMeansEndUndropped == ~dropped => EndMeansEnd

(* For You ranks before it cuts, so a page may repeat a post or leave one  *)
(* out.  It does not jump over posts that were never weighed, though: each *)
(* row that was visible all along and is newer than the cursor has been a  *)
(* candidate, as long as no cursor was taken from an out-of-network post   *)
(* that happened to be ranked last and may be of any age.                  *)
ForYouWeighs ==
    surface = "for_you" /\ phase # "done" /\ ~strayed /\ cursor <= NPosts =>
        {p \in steady : p >= cursor} \subseteq weighed

(* What ReplyAncillaryRule does not look into: the parent may be hidden,   *)
(* hold a muted word, not be for minors, or itself be a reply to a post    *)
(* that is invisible.                                                      *)
BeyondTheParent == {"HiddenPost", "MutedKeyword", "ViewerAgeGate", "ReplyAncillary"}

(* When Following shows a reply, at any depth of a thread, its parent is   *)
(* published and passes all the rules of Following but those four, by the  *)
(* lists that the request has read: the conditions the rule repeats are    *)
(* the ones the other rules put to a post of one's own.                    *)
RepliesInContext ==
    [][AnswerFollowing =>
        \A i \in ToSet(page') : Content[i.id].parent # NoPost =>
            LET parent == Content[i.id].parent
            IN  /\ Public(parent)
                /\ Verdict(FollowingPolicy \ BeyondTheParent, query,
                           Candidate(parent, "in_network")) # "drop"]_vars

(* A post labelled NSFW is an item for adults only, and behind an inter-   *)
(* stitial: SensitiveInterstitialRule leaves minors and out-of-network     *)
(* posts to other rules, so this depends on how the lists are put          *)
(* together.  An NSFW body does come in plain, and to minors, as the       *)
(* reference of a post that quotes or reposts it, and in no other way: no  *)
(* rule looks at the labels of a reference.                                *)
SensitiveOnlyQuoted ==
    \A i \in OnPage :
        /\ "nsfw" \in i.labels => adult /\ i.verdict = "interstitial" /\ i.sensitive = {}
        /\ i.sensitive \subseteq {Content[i.id].refersTo}

(* A thread shows a reply only below its parent, and it shows every reply  *)
(* that passes the policy and can be read from the root downwards.         *)
ThreadIsConnected ==
    surface = "thread" /\ phase = "done" =>
        LET thread == {i.id : i \in OnPage}
        IN  \A i \in Kept(ThreadItems) :
               i.id \in thread <=> IsRoot(i) \/ Content[i.id].parent \in thread

================================================================================
