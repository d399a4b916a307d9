------------------------------ MODULE ProfileLists ------------------------------
(***************************************************************************)
(* What a reader pages through besides the feeds: the posts and the        *)
(* replies on an owner's profile, and his own likes; and the inbox of the  *)
(* owner, whom each like and each reply notifies.                          *)
(*                                                                         *)
(* A row's created_at is the time its transaction began, so rows appear in *)
(* another order than they are listed in: posts are numbered by time and   *)
(* published in any order, and likes and notifications take their time     *)
(* from a clock when they begin.  Each statement of a request is an action *)
(* of its own: the owner's is_private, the follow and the rows of a page;  *)
(* the rows and the unread count of the inbox.                             *)
(***************************************************************************)
EXTENDS Listings, Naturals, FiniteSets, Sequences

CONSTANTS
    Reader,
    Fan,           \* accounts that like, the reader among them
    NPosts,        \* the owner's posts
    Replies,       \* those that are replies
    FollowersOnly, \* those with visibility followers
    PageLimit,     \* limit of the pages
    InboxLimit,    \* limit of the inbox
    MaxChanges     \* bound: changes by others than the page requests

Post == 1..NPosts

Worker == "worker"

ASSUME ListsAssumption ==
    /\ Reader \in Fan /\ Worker \notin Fan
    /\ NPosts \in Nat /\ MaxChanges \in Nat
    /\ PageLimit \in Nat \ {0} /\ InboxLimit \in Nat \ {0}
    /\ Replies \subseteq Post /\ FollowersOnly \subseteq Post

VARIABLES
    published, deleted,
    private,   \* the owner's is_private
    follows,   \* does the reader follow the owner?
    likes,     \* rows [by, post, at]
    inbox,     \* the owner's notifications [by, post, at, read]
    writing,   \* likes and notifications begun and not committed
    clock, changes,
    list,      \* "posts", "replies" or "likes"
    phase,     \* "idle", "asked", "checked" or "done": next_cursor was null
    asked,     \* [private, follows] as the open request read them
    cursor,    \* key of the last row shown, 0 before the first page
    shown,     \* history: rows [post, key] of all pages, in order
    steady,    \* history: rows visible to the reader since the first request
    seen,      \* the rows an open request for the inbox has listed
    counting,  \* has it listed them, and not yet counted the unread?
    arrived,   \* history: has a notification appeared since it listed them?
    crossed,   \* history: did a request for a page meet the owner opening the
               \* account and the reader leaving, between its two reads?
    late,      \* history: did a notification appear below an older one?
    double     \* history: did two likes of one post by one fan overlap?

content == <<published, deleted, private, follows>>
rows == <<likes, inbox, writing, clock>>
scroll == <<phase, asked, cursor, shown, crossed>>
glance == <<seen, counting>>
vars == <<content, rows, changes, list, scroll, steady, glance, arrived, late, double>>

-----------------------------------------------------------------------------
(* Pages                                                                   *)

Public(p) == p \in published \ deleted

(* get_user_posts; the parent tells the two tabs apart.                    *)
OnProfile(a) ==
    {[post |-> p, key |-> p] : p \in
        {x \in Post : /\ Public(x)
                      /\ (x \in Replies) = (list = "replies")
                      /\ x \in FollowersOnly => a.follows}}

(* get_user_likes, open to the reader himself only.                        *)
Liked == {[post |-> l.post, key |-> l.at] : l \in {x \in likes : x.by = Reader /\ Public(x.post)}}

Now == [private |-> private, follows |-> follows]

Rows(a) ==
    IF list = "likes" THEN Liked
    ELSE IF a.private /\ ~a.follows THEN {}
    ELSE OnProfile(a)

Init ==
    /\ \E p \in Post : published = Post \ {p}
    /\ deleted = {}
    /\ private \in BOOLEAN /\ follows \in BOOLEAN
    /\ likes = {} /\ inbox = {} /\ writing = {} /\ clock = 0 /\ changes = 0
    /\ list \in {"posts", "replies", "likes"}
    /\ phase = "idle" /\ asked = Now /\ cursor = 0 /\ shown = <<>> /\ steady = {}
    /\ seen = {} /\ counting = FALSE /\ arrived = FALSE
    /\ crossed = FALSE /\ late = FALSE /\ double = FALSE

(* Reads the owner's row; for the likes that is all.  The follow of this   *)
(* moment only serves the history: Check puts the one it reads in its      *)
(* place.                                                                  *)
Ask ==
    /\ phase = "idle"
    /\ phase' = IF list = "likes" THEN "checked" ELSE "asked"
    /\ asked' = Now
    /\ steady' = IF cursor = 0 THEN Rows(Now) ELSE steady
    /\ UNCHANGED <<content, rows, changes, list, cursor, shown, crossed, glance, arrived, late,
                   double>>

(* Reads the follow.                                                       *)
Check ==
    /\ phase = "asked"
    /\ phase' = "checked"
    /\ asked' = [asked EXCEPT !.follows = follows]
    /\ crossed' = (crossed \/ (asked.private /\ ~private /\ asked.follows /\ ~follows))
    /\ UNCHANGED <<content, rows, changes, list, cursor, shown, steady, glance, arrived, late,
                   double>>

(* Mutant: the row at the cursor once more.                                *)
After_AtCursor(a) == {r \in Rows(a) : cursor = 0 \/ r.key <= cursor}

(* The keyset condition.                                                   *)
After(a) == {r \in Rows(a) : cursor = 0 \/ r.key < cursor}

(* Mutant: the row that did not fit is the cursor.                         *)
Answer_SkipsOne ==
    /\ phase = "checked"
    /\ \E found \in Orderings(After(asked), LAMBDA r, s : r.key > s.key) :
          LET page == SubSeq(found, 1, IF Len(found) < PageLimit THEN Len(found) ELSE PageLimit)
          IN  /\ shown' = shown \o page
              /\ IF Len(found) > PageLimit
                 THEN phase' = "idle" /\ cursor' = found[PageLimit + 1].key
                 ELSE phase' = "done" /\ UNCHANGED cursor
    /\ UNCHANGED <<content, rows, changes, list, asked, steady, crossed, glance, arrived, late,
                   double>>

(* One row more than the page is fetched to know whether there are more.   *)
Answer ==
    /\ phase = "checked"
    /\ \E found \in Orderings(After(asked), LAMBDA r, s : r.key > s.key) :
          LET page == SubSeq(found, 1, IF Len(found) < PageLimit THEN Len(found) ELSE PageLimit)
          IN  /\ shown' = shown \o page
              /\ IF Len(found) > PageLimit
                 THEN phase' = "idle" /\ cursor' = Last(page).key
                 ELSE phase' = "done" /\ UNCHANGED cursor
    /\ UNCHANGED <<content, rows, changes, list, asked, steady, crossed, glance, arrived, late,
                   double>>

-----------------------------------------------------------------------------
(* What others commit                                                      *)

Change ==
    /\ changes < MaxChanges
    /\ changes' = changes + 1
    /\ UNCHANGED <<list, scroll, glance>>

KeepSteady == steady' = steady \cap Rows(Now)'

Publish(p) ==
    /\ p \notin published
    /\ published' = published \cup {p}
    /\ UNCHANGED <<deleted, private, follows, rows, arrived, late, double>>
    /\ Change /\ KeepSteady

Delete(p) ==
    /\ Public(p)
    /\ deleted' = deleted \cup {p}
    /\ UNCHANGED <<published, private, follows, rows, arrived, late, double>>
    /\ Change /\ KeepSteady

(* update_me.                                                              *)
SetPrivate ==
    /\ private' = ~private
    /\ UNCHANGED <<published, deleted, follows, rows, arrived, late, double>>
    /\ Change /\ KeepSteady

FollowOrUnfollow ==
    /\ follows' = ~follows
    /\ UNCHANGED <<published, deleted, private, rows, arrived, late, double>>
    /\ Change /\ KeepSteady

Likes(f, p) == {l \in likes : l.by = f /\ l.post = p}

Start(by, p) ==
    /\ clock' = clock + 1
    /\ writing' = writing \cup {[by |-> by, post |-> p, at |-> clock + 1]}
    /\ double' = (double \/ \E w \in writing : w.by = by /\ w.post = p)
    /\ UNCHANGED <<content, likes, inbox, arrived, late>>
    /\ Change /\ KeepSteady

(* like_post up to its commit: the post is there and not liked.            *)
Like(f, p) == Public(p) /\ Likes(f, p) = {} /\ Start(f, p)

(* A reply task of the worker notifies the author.                         *)
Notify(p) == Public(p) /\ Start(Worker, p)

(* The primary key lets one like in; the notification goes with it.        *)
CommitRow(w) ==
    /\ writing' = writing \ {w}
    /\ IF Likes(w.by, w.post) # {}
       THEN UNCHANGED <<likes, inbox, arrived, late>>
       ELSE /\ likes' = IF w.by = Worker THEN likes ELSE likes \cup {w}
            /\ inbox' = inbox \cup {[by |-> w.by, post |-> w.post, at |-> w.at, read |-> FALSE]}
            /\ arrived' = counting
            /\ late' = (late \/ \E n \in inbox : n.at > w.at)
    /\ UNCHANGED <<content, clock, changes, list, scroll, glance, double>>
    /\ KeepSteady

(* unlike_post; the notification stays.                                    *)
Unlike(f, p) ==
    /\ Likes(f, p) # {}
    /\ likes' = likes \ Likes(f, p)
    /\ UNCHANGED <<content, inbox, writing, clock, arrived, late, double>>
    /\ Change /\ KeepSteady

(* mark_notifications_read: all that are unread, listed or not.            *)
MarkRead ==
    /\ inbox' = {[n EXCEPT !.read = TRUE] : n \in inbox}
    /\ UNCHANGED <<content, likes, writing, clock, arrived, late, double>>
    /\ Change /\ KeepSteady

-----------------------------------------------------------------------------
(* The inbox as it is presented                                            *)

Unread == {n \in inbox : ~n.read}

Listed == {n \in inbox : Cardinality({m \in inbox : m.at > n.at}) < InboxLimit}

(* list_notifications up to its rows.                                      *)
ListInbox ==
    /\ ~counting
    /\ counting' = TRUE /\ seen' = Listed /\ arrived' = FALSE
    /\ UNCHANGED <<content, rows, changes, list, scroll, steady, late, double>>

(* The unread are counted, and the request is answered.                    *)
CountUnread ==
    /\ counting
    /\ counting' = FALSE /\ seen' = {} /\ arrived' = FALSE
    /\ UNCHANGED <<content, rows, changes, list, scroll, steady, late, double>>

(* One item for all the likes of a fan, one for every other notification.  *)
Items ==
    {{m \in seen : m.by = n.by} : n \in {x \in seen : x.by \in Fan}}
        \cup {{n} : n \in {x \in seen : x.by \notin Fan}}

(* Mutant: the newest of the group decides.                                *)
ItemUnread_Newest(item) == \E n \in item : ~n.read /\ \A m \in item : m.at <= n.at

ItemUnread(item) == \E n \in item : ~n.read

Next ==
    \/ Ask \/ Check \/ Answer
    \/ ListInbox \/ CountUnread
    \/ \E p \in Post : Publish(p) \/ Delete(p) \/ Notify(p)
    \/ SetPrivate \/ FollowOrUnfollow \/ MarkRead
    \/ \E f \in Fan, p \in Post : Like(f, p) \/ Unlike(f, p)
    \/ \E w \in writing : CommitRow(w)

Spec == Init /\ [][Next]_vars

-----------------------------------------------------------------------------
(* Properties                                                              *)

(* Every variable stays in its range.                                      *)
TypeOK ==
    /\ published \subseteq Post /\ deleted \subseteq published
    /\ private \in BOOLEAN /\ follows \in BOOLEAN
    /\ clock \in 0..MaxChanges /\ changes \in 0..MaxChanges
    /\ likes \cup writing \subseteq [by : Fan \cup {Worker}, post : Post, at : 1..clock]
    /\ inbox \subseteq [by : Fan \cup {Worker}, post : Post, at : 1..clock, read : BOOLEAN]
    /\ seen \subseteq [by : Fan \cup {Worker}, post : Post, at : 1..clock, read : BOOLEAN]
    /\ phase \in {"idle", "asked", "checked", "done"}
    /\ counting \in BOOLEAN /\ arrived \in BOOLEAN /\ crossed \in BOOLEAN
    /\ late \in BOOLEAN /\ double \in BOOLEAN

(* Whatever is published late, deleted, liked again or withdrawn while the *)
(* reader pages, rows come newest first and no post comes twice: a like    *)
(* that is withdrawn and given again moves up, out of the pages to come,   *)
(* unless two likes of the same post overlapped.                           *)
EachOnce ==
    \A m, n \in DOMAIN shown : m < n =>
        /\ shown[n].key < shown[m].key
        /\ (list = "likes" /\ double) \/ shown[n].post # shown[m].post

(* When next_cursor is null, everything the reader could see all along has *)
(* been on a page: unlike the feeds, these lists filter before they cut,   *)
(* and what decides the audience is read before the rows.  The exception   *)
(* is a request between whose first two reads a private owner went public  *)
(* and a follower left: it takes the reader for a stranger to a private    *)
(* account, and ends the list.                                             *)
ListsComplete == phase = "done" /\ ~crossed => steady \subseteq ToSet(shown)

(* A badge has a cause one can find: while unread_count is positive, an    *)
(* item of the list that came with it shows as unread, unless a            *)
(* notification arrived between the listing and the count, and if the      *)
(* notifications appeared in order or all of them fit into the list.       *)
BadgeHasCause ==
    /\ counting /\ Unread # {} /\ ~arrived
    /\ ~late \/ Cardinality(inbox) <= InboxLimit
    => \E item \in Items : ItemUnread(item)

================================================================================
