-------------------------- MODULE ProfileListsProofs --------------------------
(***************************************************************************)
(* What ProfileLists guarantees for any fans, posts and sizes of pages:    *)
(* the types, that a badge has a cause, and that the pages of a list show  *)
(* every row once and leave none out.  The last two rest on what the       *)
(* cursor separates: rows shown are not below it, rows there all along and *)
(* not below it are shown, and a like that is given again is newer than    *)
(* any that was shown.                                                     *)
(***************************************************************************)
EXTENDS ProfileLists, FiniteSetTheorems, TLAPS

(* There is a newest notification.                                         *)
NewestExists == inbox # {} => \E m \in inbox : \A n \in inbox : n.at <= m.at

(* In order of appearance, what was read is no newer than what was not.    *)
ReadFirst == ~late => \A m, n \in inbox : m.read /\ ~n.read => m.at <= n.at

IInv ==
    /\ TypeOK /\ clock <= changes
    /\ IsFiniteSet(inbox) /\ NewestExists /\ ReadFirst

(* Likes that are there or about to be have times of their own.            *)
TimesDiffer == \A l, w \in likes \cup writing : l.at = w.at => l = w

(* Unless two overlapped, there is one of a fan and a post.                *)
OneOfEach ==
    ~double => \A l, w \in likes \cup writing : l.by = w.by /\ l.post = w.post => l = w

LikesOK == IsFiniteSet(likes) /\ \A l \in likes : l.by # Worker

(* A place on a page.                                                      *)
Place == [post : Post, key : Nat \ {0}]

ShownOK ==
    /\ shown \in Seq(Place) /\ cursor \in Nat
    /\ \A n \in DOMAIN shown :
          IF list = "likes" THEN shown[n].key <= clock ELSE shown[n].key = shown[n].post

(* Pages go down to the cursor.                                            *)
ShownDescends == \A m, n \in DOMAIN shown : m < n => shown[n].key < shown[m].key

ShownAbove ==
    phase # "done" =>
        \A n \in DOMAIN shown : cursor # 0 /\ shown[n].key >= cursor

(* What the reader likes of the posts shown is what was shown, or newer.   *)
LikedAgainAbove ==
    list = "likes" /\ ~double =>
        \A n \in DOMAIN shown, l \in likes \cup writing :
            l.by = Reader /\ l.post = shown[n].post => l.at >= shown[n].key

(* What was there all along is there now, and for an open request.         *)
SteadyThere ==
    /\ asked \in [private : BOOLEAN, follows : BOOLEAN]
    /\ steady \subseteq Rows(Now)
    /\ phase = "asked" => list # "likes" /\ steady \subseteq Rows(asked)
    /\ phase = "checked" /\ ~crossed => steady \subseteq Rows(asked)

(* What is there all along and not below the cursor has been shown.        *)
SteadyShown ==
    phase # "done" /\ ~crossed /\ cursor # 0 =>
        \A r \in steady : r.key >= cursor => r \in ToSet(shown)

PagesInv ==
    /\ LikesOK /\ TimesDiffer /\ OneOfEach
    /\ ShownOK /\ ShownDescends /\ ShownAbove /\ LikedAgainAbove /\ EachOnce
    /\ SteadyThere /\ SteadyShown /\ ListsComplete

Row(c) == [by : Fan \cup {Worker}, post : Post, at : 1..c]

Notification(c) == [by : Fan \cup {Worker}, post : Post, at : 1..c, read : BOOLEAN]

-------------------------------------------------------------------------------
(* The shapes of the steps                                                 *)

(* A step that leaves rows and inbox alone.                                *)
Content ==
    /\ published' \subseteq Post /\ deleted' \subseteq published'
    /\ private' \in BOOLEAN /\ follows' \in BOOLEAN
    /\ phase' \in {"idle", "asked", "checked", "done"}
    /\ changes' \in 0..MaxChanges /\ changes <= changes'
    /\ UNCHANGED <<inbox, writing, clock, late, double>>
    /\ seen' \subseteq seen \cup inbox
    /\ counting' \in BOOLEAN /\ arrived' \in BOOLEAN /\ crossed' \in BOOLEAN
    /\ likes' \subseteq likes

Glance == <<seen, counting, arrived, crossed>>

Same == UNCHANGED <<published, deleted, private, follows, phase>> /\ UNCHANGED Glance

Starts(by, p) ==
    /\ Same /\ by \in Fan \cup {Worker} /\ p \in Post
    /\ clock' = clock + 1 /\ changes' = changes + 1 /\ changes < MaxChanges
    /\ writing' = writing \cup {[by |-> by, post |-> p, at |-> clock + 1]}
    /\ double' \in BOOLEAN
    /\ UNCHANGED <<likes, inbox, late>>

LEMMA ListShapes ==
    ASSUME TypeOK, Next
    PROVE  \/ Content
           \/ \E by \in Fan \cup {Worker}, p \in Post : Starts(by, p)
           \/ \E w \in writing : CommitRow(w)
           \/ MarkRead
<1> USE DEF TypeOK
<1>1. CASE Ask \/ Check \/ Answer
  <2>1. UNCHANGED <<published, deleted, private, follows, changes, inbox, writing, clock, late, double, likes>>
    BY <1>1 DEF Ask, Check, Answer, content, rows
  <2>2. phase' \in {"idle", "asked", "checked", "done"}
    BY <1>1 DEF Ask, Check, Answer
  <2>3. UNCHANGED <<seen, counting, arrived>>
    BY <1>1 DEF Ask, Check, Answer, glance
  <2>4. crossed' \in BOOLEAN
    BY <1>1, Zenon DEF Ask, Check, Answer
  <2>5. counting' \in BOOLEAN /\ arrived' \in BOOLEAN
    BY <2>3, Zenon
  <2>6. QED
    BY <2>1, <2>2, <2>3, <2>4, <2>5, ListsAssumption DEF Content
<1>2. ASSUME NEW p \in Post, Publish(p) \/ Delete(p)
      PROVE  Content
  <2>1. published' \subseteq Post /\ deleted' \subseteq published'
    BY <1>2 DEF Publish, Delete, Public
  <2>2. UNCHANGED <<private, follows, phase, inbox, writing, clock, late, double, likes>>
    BY <1>2 DEF Publish, Delete, Change, scroll, rows
  <2>3. changes' \in 0..MaxChanges /\ changes <= changes'
    BY <1>2, ListsAssumption DEF Publish, Delete, Change
  <2>4. UNCHANGED Glance
    BY <1>2 DEF Publish, Delete, Change, scroll, glance, Glance
  <2>5. counting' \in BOOLEAN /\ arrived' \in BOOLEAN /\ crossed' \in BOOLEAN
    BY <2>4, Zenon DEF Glance
  <2>6. QED
    BY <2>1, <2>2, <2>3, <2>4, <2>5 DEF Content, Glance
<1>3. CASE SetPrivate \/ FollowOrUnfollow
  <2>1. private' \in BOOLEAN /\ follows' \in BOOLEAN
    BY <1>3 DEF SetPrivate, FollowOrUnfollow
  <2>2. UNCHANGED <<published, deleted, phase, inbox, writing, clock, late, double, likes>>
    BY <1>3 DEF SetPrivate, FollowOrUnfollow, Change, scroll, rows
  <2>3. changes' \in 0..MaxChanges /\ changes <= changes'
    BY <1>3, ListsAssumption DEF SetPrivate, FollowOrUnfollow, Change
  <2>4. UNCHANGED Glance
    BY <1>3 DEF SetPrivate, FollowOrUnfollow, Change, scroll, glance, Glance
  <2>5. counting' \in BOOLEAN /\ arrived' \in BOOLEAN /\ crossed' \in BOOLEAN
    BY <2>4, Zenon DEF Glance
  <2>6. QED
    BY <2>1, <2>2, <2>3, <2>4, <2>5 DEF Content, Glance
<1>4. ASSUME NEW f \in Fan, NEW p \in Post, Unlike(f, p)
      PROVE  Content
  <2>1. UNCHANGED <<published, deleted, private, follows, phase, inbox, writing, clock, late, double>>
    BY <1>4 DEF Unlike, Change, scroll, content
  <2>2. changes' \in 0..MaxChanges /\ changes <= changes'
    BY <1>4, ListsAssumption DEF Unlike, Change
  <2>3. likes' \subseteq likes
    BY <1>4 DEF Unlike
  <2>4. UNCHANGED Glance
    BY <1>4 DEF Unlike, Change, scroll, glance, Glance
  <2>5. counting' \in BOOLEAN /\ arrived' \in BOOLEAN /\ crossed' \in BOOLEAN
    BY <2>4, Zenon DEF Glance
  <2>6. QED
    BY <2>1, <2>2, <2>3, <2>4, <2>5 DEF Content, Glance
<1>5. ASSUME NEW by \in Fan \cup {Worker}, NEW p \in Post, Start(by, p)
      PROVE  Starts(by, p)
  <2>1. double' \in BOOLEAN
    BY <1>5 DEF Start
  <2>2. QED
    BY <1>5, <2>1 DEF Start, Starts, Same, Glance, Change, content, scroll, glance
<1>6. CASE ListInbox \/ CountUnread
  <2>1. UNCHANGED <<published, deleted, private, follows, changes, inbox, writing, clock, late, double, likes>>
    BY <1>6 DEF ListInbox, CountUnread, content, rows
  <2>2. UNCHANGED <<phase, crossed>>
    BY <1>6 DEF ListInbox, CountUnread, scroll
  <2>3. seen' \subseteq inbox /\ counting' \in BOOLEAN /\ arrived' \in BOOLEAN
    BY <1>6 DEF ListInbox, CountUnread, Listed
  <2>4. crossed' \in BOOLEAN
    BY <2>2, Zenon
  <2>5. QED
    BY <2>1, <2>2, <2>3, <2>4, ListsAssumption DEF Content
<1>7. QED
  BY <1>1, <1>2, <1>3, <1>4, <1>5, <1>6 DEF Next, Like, Notify

(* TypeOK in the terms of the steps.                                       *)
LEMMA TypeParts ==
    TypeOK <=>
        /\ published \subseteq Post /\ deleted \subseteq published
        /\ private \in BOOLEAN /\ follows \in BOOLEAN
        /\ clock \in 0..MaxChanges /\ changes \in 0..MaxChanges
        /\ likes \subseteq Row(clock) /\ writing \subseteq Row(clock)
        /\ inbox \subseteq Notification(clock) /\ seen \subseteq Notification(clock)
        /\ counting \in BOOLEAN /\ arrived \in BOOLEAN /\ crossed \in BOOLEAN
        /\ phase \in {"idle", "asked", "checked", "done"}
        /\ late \in BOOLEAN /\ double \in BOOLEAN
BY DEF TypeOK, Row, Notification

(* Rows of the past are rows of the future.                                *)
LEMMA LaterRows ==
    ASSUME NEW c \in Nat
    PROVE  Row(c) \subseteq Row(c + 1) /\ Notification(c) \subseteq Notification(c + 1)
<1>1. 1..c \subseteq 1..(c + 1)
  OBVIOUS
<1>2. QED
  BY <1>1 DEF Row, Notification

-------------------------------------------------------------------------------
(* The steps                                                               *)

LEMMA ContentKeeps ==
    ASSUME IInv, Content
    PROVE  IInv'
<1> USE DEF IInv
<1>1. /\ published \subseteq Post /\ deleted \subseteq published
      /\ clock \in 0..MaxChanges /\ changes \in 0..MaxChanges
      /\ likes \subseteq Row(clock) /\ writing \subseteq Row(clock)
      /\ inbox \subseteq Notification(clock) /\ seen \subseteq Notification(clock)
      /\ counting \in BOOLEAN /\ arrived \in BOOLEAN /\ crossed \in BOOLEAN
      /\ late \in BOOLEAN /\ double \in BOOLEAN
  BY TypeParts
<1>2. /\ UNCHANGED <<inbox, writing, clock, late, double>>
      /\ likes' \subseteq likes
      /\ changes' \in 0..MaxChanges /\ changes <= changes'
  BY DEF Content
<1>3. /\ published' \subseteq Post /\ deleted' \subseteq published'
      /\ private' \in BOOLEAN /\ follows' \in BOOLEAN
      /\ phase' \in {"idle", "asked", "checked", "done"}
      /\ seen' \subseteq seen \cup inbox
      /\ counting' \in BOOLEAN /\ arrived' \in BOOLEAN /\ crossed' \in BOOLEAN
  BY DEF Content
<1>4. late' \in BOOLEAN /\ double' \in BOOLEAN
  BY <1>1, <1>2
<1>5. TypeOK'
  BY <1>1, <1>2, <1>3, <1>4 DEF TypeOK, Row, Notification
<1>6. clock' <= changes'
  BY <1>1, <1>2, ListsAssumption
<1>7. QED
  BY <1>2, <1>5, <1>6 DEF NewestExists, ReadFirst

LEMMA StartsKeeps ==
    ASSUME IInv, NEW by \in Fan \cup {Worker}, NEW p \in Post, Starts(by, p)
    PROVE  IInv'
<1> USE DEF IInv
<1>1. /\ published \subseteq Post /\ deleted \subseteq published
      /\ private \in BOOLEAN /\ follows \in BOOLEAN
      /\ phase \in {"idle", "asked", "checked", "done"} /\ late \in BOOLEAN
      /\ clock \in 0..MaxChanges /\ changes \in 0..MaxChanges
      /\ likes \subseteq Row(clock) /\ writing \subseteq Row(clock)
      /\ inbox \subseteq Notification(clock) /\ seen \subseteq Notification(clock)
      /\ counting \in BOOLEAN /\ arrived \in BOOLEAN /\ crossed \in BOOLEAN
  BY TypeParts
<1>2. /\ clock' = clock + 1 /\ changes' = changes + 1 /\ changes < MaxChanges
      /\ writing' = writing \cup {[by |-> by, post |-> p, at |-> clock + 1]}
      /\ double' \in BOOLEAN
      /\ UNCHANGED <<likes, inbox, late>>
      /\ UNCHANGED <<published, deleted, private, follows, phase>>
  BY DEF Starts, Same
<1>2a. UNCHANGED seen
  BY DEF Starts, Same, Glance
<1>2b. counting' \in BOOLEAN /\ arrived' \in BOOLEAN /\ crossed' \in BOOLEAN
  BY <1>1, Zenon DEF Starts, Same, Glance
<1>3. clock \in Nat /\ changes \in Nat /\ clock <= changes /\ MaxChanges \in Nat
  BY <1>1, ListsAssumption
<1>4. clock' \in 0..MaxChanges /\ changes' \in 0..MaxChanges /\ clock' <= changes'
  BY <1>2, <1>3
<1>5. [by |-> by, post |-> p, at |-> clock + 1] \in Row(clock + 1)
  BY <1>3 DEF Row
<1>6. /\ likes' \subseteq Row(clock') /\ writing' \subseteq Row(clock')
      /\ inbox' \subseteq Notification(clock') /\ seen' \subseteq Notification(clock')
  BY <1>1, <1>2, <1>3, <1>5, <1>2a, LaterRows
<1>7. late' \in BOOLEAN
  BY <1>1, <1>2
<1>8. TypeOK'
  BY <1>1, <1>2, <1>4, <1>6, <1>7, <1>2a, <1>2b DEF TypeOK, Row, Notification
<1>9. QED
  BY <1>2, <1>4, <1>8 DEF NewestExists, ReadFirst

LEMMA CommitKeeps ==
    ASSUME IInv, NEW w \in writing, CommitRow(w)
    PROVE  IInv'
<1> USE DEF IInv
<1>1. /\ published \subseteq Post /\ deleted \subseteq published
      /\ private \in BOOLEAN /\ follows \in BOOLEAN
      /\ phase \in {"idle", "asked", "checked", "done"} /\ late \in BOOLEAN /\ double \in BOOLEAN
      /\ clock \in 0..MaxChanges /\ changes \in 0..MaxChanges
      /\ likes \subseteq Row(clock) /\ writing \subseteq Row(clock)
      /\ inbox \subseteq Notification(clock) /\ seen \subseteq Notification(clock)
      /\ counting \in BOOLEAN /\ arrived \in BOOLEAN /\ crossed \in BOOLEAN
  BY TypeParts
<1>2. /\ writing' = writing \ {w}
      /\ UNCHANGED <<published, deleted, private, follows, phase, clock, changes, double>>
  BY DEF CommitRow, content, scroll
<1>2a. UNCHANGED seen
  BY DEF CommitRow, glance
<1>2b. counting' \in BOOLEAN /\ crossed' \in BOOLEAN
  BY <1>1, Zenon DEF CommitRow, glance, scroll
<1>2c. arrived' \in BOOLEAN
  <2>1. arrived' = arrived \/ arrived' = counting
    BY DEF CommitRow
  <2>2. QED
    BY <1>1, <2>1, Zenon
<1> DEFINE n == [by |-> w.by, post |-> w.post, at |-> w.at, read |-> FALSE]
<1>3. n \in Notification(clock) /\ n.at = w.at /\ n.read = FALSE
  BY <1>1 DEF Row, Notification
<1>4. \A m \in inbox \cup {n} : m.at \in Int
  BY <1>1, <1>3 DEF Notification
<1>5. CASE Likes(w.by, w.post) # {}
  <2>1. UNCHANGED <<likes, inbox, late>>
    BY <1>5 DEF CommitRow
  <2>2. TypeOK'
    BY <1>1, <1>2, <1>2a, <1>2b, <1>2c, <2>1 DEF TypeOK, Row, Notification
  <2>3. QED
    BY <1>2, <2>1, <2>2 DEF NewestExists, ReadFirst
<1>6. CASE Likes(w.by, w.post) = {}
  <2>1. /\ likes' = (IF w.by = Worker THEN likes ELSE likes \cup {w})
        /\ inbox' = inbox \cup {n}
        /\ late' = (late \/ \E m \in inbox : m.at > w.at)
    BY <1>6 DEF CommitRow
  <2> HIDE DEF n
  <2>2. likes' \subseteq Row(clock') /\ writing' \subseteq Row(clock')
          /\ inbox' \subseteq Notification(clock')
    BY <1>1, <1>2, <1>3, <2>1
  <2>3. late' \in BOOLEAN
    BY <1>1, <2>1
  <2>4. TypeOK'
    BY <1>1, <1>2, <1>2a, <1>2b, <1>2c, <2>2, <2>3 DEF TypeOK, Row, Notification
  <2>5. IsFiniteSet(inbox')
    BY <2>1, FS_AddElement
  <2>6. NewestExists'
    <3>1. CASE inbox = {}
      BY <1>4, <2>1, <3>1 DEF NewestExists
    <3>2. CASE inbox # {}
      <4>1. PICK m \in inbox : \A k \in inbox : k.at <= m.at
        BY <3>2 DEF NewestExists
      <4>2. CASE n.at <= m.at
        BY <2>1, <4>1, <4>2 DEF NewestExists
      <4>3. CASE ~(n.at <= m.at)
        <5>1. \A k \in inbox \cup {n} : k.at <= n.at
          BY <1>4, <4>1, <4>3
        <5>2. QED
          BY <2>1, <5>1 DEF NewestExists
      <4>4. QED
        BY <4>2, <4>3
    <3>3. QED
      BY <3>1, <3>2
  <2>7. ReadFirst'
    <3>1. ASSUME ~late' PROVE ~late /\ \A m \in inbox : m.at <= n.at
      <4>1. ~late /\ \A m \in inbox : ~(m.at > w.at)
        BY <2>1, <3>1
      <4>2. \A m \in inbox : m.at \in Int
        BY <1>4
      <4>3. n.at \in Int /\ n.at = w.at
        BY <1>3, <1>4
      <4>4. QED
        BY <4>1, <4>2, <4>3
    <3>2. QED
      BY <1>3, <2>1, <3>1 DEF ReadFirst
  <2>8. QED
    BY <1>2, <2>4, <2>5, <2>6, <2>7
<1>7. QED
  BY <1>5, <1>6

LEMMA ReadKeeps ==
    ASSUME IInv, MarkRead
    PROVE  IInv'
<1> USE DEF IInv
<1>1. /\ published \subseteq Post /\ deleted \subseteq published
      /\ private \in BOOLEAN /\ follows \in BOOLEAN
      /\ phase \in {"idle", "asked", "checked", "done"} /\ late \in BOOLEAN /\ double \in BOOLEAN
      /\ clock \in 0..MaxChanges /\ changes \in 0..MaxChanges
      /\ likes \subseteq Row(clock) /\ writing \subseteq Row(clock)
      /\ inbox \subseteq Notification(clock) /\ seen \subseteq Notification(clock)
      /\ counting \in BOOLEAN /\ arrived \in BOOLEAN /\ crossed \in BOOLEAN
  BY TypeParts
<1>2. /\ inbox' = {[n EXCEPT !.read = TRUE] : n \in inbox}
      /\ UNCHANGED <<published, deleted, private, follows, phase, likes, writing, clock, late, double>>
      /\ changes < MaxChanges /\ changes' = changes + 1
  BY DEF MarkRead, content, Change, scroll
<1>2a. UNCHANGED seen
  BY DEF MarkRead, Change, glance
<1>2b. counting' \in BOOLEAN /\ arrived' \in BOOLEAN /\ crossed' \in BOOLEAN
  BY <1>1, Zenon DEF MarkRead, Change, glance, scroll
<1>3. \A n \in inbox : /\ [n EXCEPT !.read = TRUE] \in Notification(clock)
                       /\ [n EXCEPT !.read = TRUE].at = n.at
                       /\ [n EXCEPT !.read = TRUE].read = TRUE
  BY <1>1 DEF Notification
<1>4. inbox' \subseteq Notification(clock) /\ \A m \in inbox' : m.read
  BY <1>2, <1>3
<1>5. changes' \in 0..MaxChanges /\ clock' <= changes'
  BY <1>1, <1>2, ListsAssumption
<1>6. TypeOK'
  BY <1>1, <1>2, <1>4, <1>5, <1>2a, <1>2b DEF TypeOK, Row, Notification
<1>7. IsFiniteSet(inbox')
  <2> DEFINE f == [n \in inbox |-> [n EXCEPT !.read = TRUE]]
  <2>1. f \in [inbox -> inbox']
    BY <1>2
  <2>2. \A m \in inbox' : \E n \in inbox : f[n] = m
    BY <1>2
  <2>3. f \in Surjection(inbox, inbox')
    BY <2>1, <2>2 DEF Surjection
  <2>4. QED
    BY <2>3, FS_Surjection
<1>8. NewestExists'
  <2>1. CASE inbox = {}
    BY <1>2, <2>1 DEF NewestExists
  <2>2. CASE inbox # {}
    <3>1. PICK m \in inbox : \A k \in inbox : k.at <= m.at
      BY <2>2 DEF NewestExists
    <3>2. [m EXCEPT !.read = TRUE] \in inbox'
      BY <1>2
    <3>3. \A k \in inbox' : k.at <= [m EXCEPT !.read = TRUE].at
      BY <1>2, <1>3, <3>1
    <3>4. QED
      BY <3>2, <3>3 DEF NewestExists
  <2>3. QED
    BY <2>1, <2>2
<1>9. ReadFirst'
  BY <1>4 DEF ReadFirst
<1>10. QED
  BY <1>5, <1>6, <1>7, <1>8, <1>9

-------------------------------------------------------------------------------
(* The theorems                                                            *)

LEMMA InitIInv == Init => IInv
<1> SUFFICES ASSUME Init PROVE IInv
  OBVIOUS
<1>1. /\ published \subseteq Post /\ deleted \subseteq published
      /\ private \in BOOLEAN /\ follows \in BOOLEAN
      /\ likes = {} /\ inbox = {} /\ writing = {} /\ clock = 0 /\ changes = 0 /\ seen = {}
      /\ phase \in {"idle", "asked", "checked", "done"}
  BY DEF Init
<1>2. /\ late \in BOOLEAN /\ double \in BOOLEAN
      /\ counting \in BOOLEAN /\ arrived \in BOOLEAN /\ crossed \in BOOLEAN
  <2>1. late = FALSE /\ double = FALSE /\ counting = FALSE /\ arrived = FALSE /\ crossed = FALSE
    BY SMT DEF Init
  <2>2. QED
    BY <2>1, Zenon
<1>3. TypeOK
  BY <1>1, <1>2, ListsAssumption DEF TypeOK
<1>4. QED
  BY <1>1, <1>3, FS_EmptySet DEF IInv, NewestExists, ReadFirst

LEMMA NextIInv == IInv /\ [Next]_vars => IInv'
<1> SUFFICES ASSUME IInv, [Next]_vars PROVE IInv'
  OBVIOUS
<1>1. CASE UNCHANGED vars
  BY <1>1 DEF vars, content, rows, scroll, glance, IInv, TypeOK, NewestExists, ReadFirst
<1>2. CASE Next
  BY <1>2, ListShapes, ContentKeeps, StartsKeeps, CommitKeeps, ReadKeeps DEF IInv
<1>3. QED
  BY <1>1, <1>2

(* The invariant holds in every state of every behaviour.                  *)
THEOREM ListsInvariance == Spec => []IInv
<1>1. QED
  BY InitIInv, NextIInv, PTL DEF Spec

(* Every variable stays in its range.                                      *)
THEOREM ListsTypeCorrect == Spec => []TypeOK
<1>1. IInv => TypeOK
  BY DEF IInv
<1>2. QED
  BY <1>1, ListsInvariance, PTL

(* The newest notification is always listed, and in order of appearance it *)
(* is the last to be read; and where all fit, all are listed.              *)
LEMMA NewestListed ==
    ASSUME IInv, NEW m \in inbox, \A n \in inbox : n.at <= m.at
    PROVE  m \in Listed
<1>1. \A n \in inbox : n.at \in Int
  BY TypeParts DEF IInv, Notification
<1>2. {n \in inbox : n.at > m.at} = {}
  BY <1>1
<1>3. Cardinality({n \in inbox : n.at > m.at}) = 0
  BY <1>2, FS_EmptySet
<1>4. QED
  BY <1>3, ListsAssumption DEF Listed

LEMMA AllListed ==
    ASSUME IInv, Cardinality(inbox) <= InboxLimit, NEW m \in inbox
    PROVE  m \in Listed
<1> DEFINE newer == {n \in inbox : n.at > m.at}
<1>1. \A n \in inbox : n.at \in Int
  BY TypeParts DEF IInv, Notification
<1>2. newer \in SUBSET (inbox \ {m})
  BY <1>1
<1>3. /\ IsFiniteSet(inbox \ {m})
      /\ Cardinality(inbox \ {m}) = Cardinality(inbox) - 1
  BY FS_RemoveElement DEF IInv
<1>4. IsFiniteSet(newer) /\ Cardinality(newer) <= Cardinality(inbox \ {m})
  BY <1>2, <1>3, FS_Subset
<1>5. Cardinality(newer) \in Nat /\ Cardinality(inbox) \in Nat
  BY <1>4, FS_CardinalityType DEF IInv
<1>6. Cardinality(newer) < InboxLimit
  BY <1>3, <1>4, <1>5, ListsAssumption
<1>7. QED
  BY <1>6 DEF Listed

(* What is unread has an unread item among what is listed: the newest      *)
(* notification is always listed, and was read last.                       *)
LEMMA UnreadListed ==
    ASSUME IInv, Unread # {}, ~late \/ Cardinality(inbox) <= InboxLimit
    PROVE  \E n \in Listed : ~n.read
<1>1. PICK u \in inbox : ~u.read
  BY DEF Unread
<1>2. CASE Cardinality(inbox) <= InboxLimit
  BY <1>1, <1>2, AllListed
<1>3. CASE ~late
  <2>1. PICK m \in inbox : \A n \in inbox : n.at <= m.at
    BY <1>1 DEF IInv, NewestExists
  <2>2. CASE ~m.read
    BY <2>1, <2>2, NewestListed
  <2>3. CASE m.read
    <3>1. m.at <= u.at
      BY <1>1, <1>3, <2>3 DEF IInv, ReadFirst
    <3>2. m.at \in Int /\ \A n \in inbox : n.at \in Int
      BY TypeParts DEF IInv, Notification
    <3>3. \A n \in inbox : n.at <= u.at
      BY <1>1, <2>1, <3>1, <3>2
    <3>4. QED
      BY <1>1, <3>3, NewestListed
  <2>4. QED
    BY <2>2, <2>3
<1>4. QED
  BY <1>2, <1>3

LEMMA ItemOf ==
    ASSUME NEW n \in seen, ~n.read
    PROVE  \E item \in Items : ItemUnread(item)
<1>1. CASE n.by \in Fan
  <2>1. {m \in seen : m.by = n.by} \in Items /\ n \in {m \in seen : m.by = n.by}
    BY <1>1 DEF Items
  <2>2. QED
    BY <2>1 DEF ItemUnread
<1>2. CASE n.by \notin Fan
  <2>1. {n} \in Items
    BY <1>2 DEF Items
  <2>2. QED
    BY <2>1 DEF ItemUnread
<1>3. QED
  BY <1>1, <1>2

(* While an open request has yet to count and nothing has arrived since it *)
(* listed, what it listed accounts for what is unread.                     *)
SeenAccounts ==
    /\ counting /\ ~arrived /\ Unread # {}
    /\ ~late \/ Cardinality(inbox) <= InboxLimit
    => \E n \in seen : ~n.read

LEMMA AccountsKeep == IInv /\ SeenAccounts /\ [Next]_vars => SeenAccounts'
<1> SUFFICES ASSUME IInv, SeenAccounts, [Next]_vars PROVE SeenAccounts'
  OBVIOUS
<1>1. CASE ListInbox
  <2>1. seen' = Listed /\ UNCHANGED <<inbox, late>>
    BY <1>1 DEF ListInbox, rows
  <2>2. QED
    BY <2>1, UnreadListed DEF SeenAccounts, Unread
<1>2. CASE CountUnread
  <2>1. counting' = FALSE
    BY <1>2 DEF CountUnread
  <2>2. QED
    BY <2>1 DEF SeenAccounts
<1>3. CASE UNCHANGED <<inbox, late, seen, counting, arrived>>
  BY <1>3 DEF SeenAccounts, Unread
<1>4. CASE MarkRead
  <2>1. inbox' = {[n EXCEPT !.read = TRUE] : n \in inbox}
    BY <1>4 DEF MarkRead
  <2>2. \A n \in inbox : [n EXCEPT !.read = TRUE].read = TRUE
    BY TypeParts DEF IInv, Notification
  <2>3. Unread' = {}
    BY <2>1, <2>2 DEF Unread
  <2>4. QED
    BY <2>3 DEF SeenAccounts
<1>5. ASSUME NEW w \in writing, CommitRow(w)
      PROVE  SeenAccounts'
  <2>1. UNCHANGED <<inbox, late, arrived>> \/ arrived' = counting
    BY <1>5 DEF CommitRow
  <2>2. UNCHANGED <<seen, counting>>
    BY <1>5 DEF CommitRow, glance
  <2>3. CASE arrived' = counting
    BY <2>2, <2>3 DEF SeenAccounts
  <2>4. QED
    BY <1>3, <2>1, <2>2, <2>3
<1>6. ASSUME NEW p \in Post, Publish(p) \/ Delete(p) \/ Notify(p)
      PROVE  UNCHANGED <<inbox, late, seen, counting, arrived>>
  BY <1>6 DEF Publish, Delete, Notify, Start, Change, rows, glance
<1>7. ASSUME NEW f \in Fan, NEW p \in Post, Like(f, p) \/ Unlike(f, p)
      PROVE  UNCHANGED <<inbox, late, seen, counting, arrived>>
  BY <1>7 DEF Like, Unlike, Start, Change, glance
<1>8. CASE Ask \/ Check \/ Answer \/ SetPrivate \/ FollowOrUnfollow \/ UNCHANGED vars
  <2>1. UNCHANGED <<inbox, late, seen, counting, arrived>>
    BY <1>8 DEF Ask, Check, Answer, SetPrivate, FollowOrUnfollow, Change, rows, glance, vars
  <2>2. QED
    BY <1>3, <2>1
<1>9. QED
  BY <1>1, <1>2, <1>3, <1>4, <1>5, <1>6, <1>7, <1>8 DEF Next

(* While unread_count is positive, an item of the list it comes with shows *)
(* as unread, unless a notification arrived between list_notifications'    *)
(* two statements, or one has appeared below an older one and not all fit. *)
THEOREM BadgesHaveCauses == Spec => []BadgeHasCause
<1>1. Init => SeenAccounts
  BY DEF Init, SeenAccounts
<1>2. SeenAccounts => BadgeHasCause
  BY ItemOf DEF SeenAccounts, BadgeHasCause
<1>3. QED
  BY <1>1, <1>2, AccountsKeep, ListsInvariance, PTL DEF Spec

-------------------------------------------------------------------------------
(* Rows of likes                                                           *)

(* A like or a notification begins, later than all others.                 *)
Begins(by, p) ==
    /\ clock' = clock + 1
    /\ writing' = writing \cup {[by |-> by, post |-> p, at |-> clock + 1]}
    /\ double' = (double \/ \E w \in writing : w.by = by /\ w.post = p)
    /\ UNCHANGED likes
    /\ \A l \in likes : ~(l.by = by /\ l.post = p)

(* No row is added, and likes come from what was being written.            *)
Settles ==
    /\ UNCHANGED <<clock, double>>
    /\ writing' \subseteq writing
    /\ \/ likes' \subseteq likes
       \/ \E w \in writing : w.by # Worker /\ likes' = likes \cup {w}

(* What a step does to likes and to what is being written.                 *)
LEMMA RowShapes ==
    ASSUME IInv, LikesOK, [Next]_vars
    PROVE  Settles \/ \E by \in Fan \cup {Worker}, p \in Post : Begins(by, p)
<1>1. CASE \/ Ask \/ Check \/ Answer \/ ListInbox \/ CountUnread
           \/ SetPrivate \/ FollowOrUnfollow \/ MarkRead \/ UNCHANGED vars
  BY <1>1 DEF Ask, Check, Answer, ListInbox, CountUnread, SetPrivate, FollowOrUnfollow, MarkRead, rows, vars, Settles
<1>2. ASSUME NEW p \in Post, Publish(p) \/ Delete(p)
      PROVE  Settles
  BY <1>2 DEF Publish, Delete, rows, Settles
<1>3. ASSUME NEW f \in Fan, NEW p \in Post, Unlike(f, p)
      PROVE  Settles
  BY <1>3 DEF Unlike, Settles
<1>4. ASSUME NEW w \in writing, CommitRow(w)
      PROVE  Settles
  BY <1>4 DEF CommitRow, Settles
<1>5. ASSUME NEW p \in Post, Notify(p)
      PROVE  Begins(Worker, p)
  BY <1>5 DEF Notify, Start, Begins, LikesOK
<1>6. ASSUME NEW f \in Fan, NEW p \in Post, Like(f, p)
      PROVE  Begins(f, p)
  BY <1>6 DEF Like, Likes, Start, Begins
<1>7. QED
  BY <1>1, <1>2, <1>3, <1>4, <1>5, <1>6 DEF Next

(* What the rows are.                                                      *)
LEMMA RowTypes ==
    ASSUME IInv
    PROVE  /\ clock \in Nat
           /\ \A l \in likes \cup writing : l.at \in 1..clock /\ l.at \in Nat \ {0} /\ l.post \in Post
           /\ Post \in SUBSET (Nat \ {0})
<1>1. clock \in Nat /\ likes \subseteq Row(clock) /\ writing \subseteq Row(clock)
  BY TypeParts, ListsAssumption DEF IInv
<1>2. QED
  BY <1>1, ListsAssumption DEF Row, Post

(* Times stay different and likes single.                                  *)
LEMMA RowsKeep ==
    ASSUME IInv, LikesOK, TimesDiffer, OneOfEach, [Next]_vars
    PROVE  LikesOK' /\ TimesDiffer' /\ OneOfEach'
<1>1. CASE Settles
  <2>1. likes' \cup writing' \subseteq likes \cup writing /\ double' = double
    BY <1>1 DEF Settles
  <2>2. TimesDiffer' /\ OneOfEach'
    BY <2>1 DEF TimesDiffer, OneOfEach
  <2>3. IsFiniteSet(likes')
    BY <1>1, FS_Subset, FS_AddElement DEF Settles, LikesOK
  <2>4. QED
    BY <1>1, <2>2, <2>3 DEF Settles, LikesOK
<1>2. ASSUME NEW by \in Fan \cup {Worker}, NEW p \in Post, Begins(by, p)
      PROVE  LikesOK' /\ TimesDiffer' /\ OneOfEach'
  <2> DEFINE new == [by |-> by, post |-> p, at |-> clock + 1]
  <2>1. new.by = by /\ new.post = p /\ new.at = clock + 1
    OBVIOUS
  <2>2. /\ likes' = likes /\ writing' = writing \cup {new}
        /\ double' = (double \/ \E w \in writing : w.by = by /\ w.post = p)
        /\ \A l \in likes : ~(l.by = by /\ l.post = p)
    BY <1>2 DEF Begins
  <2> HIDE DEF new
  <2>3. \A l \in likes \cup writing : l.at # new.at
    BY <2>1, RowTypes
  <2>4. TimesDiffer'
    BY <2>2, <2>3 DEF TimesDiffer
  <2>5. OneOfEach'
    <3> SUFFICES ASSUME ~double'
                 PROVE  \A l, w \in likes' \cup writing' : l.by = w.by /\ l.post = w.post => l = w
      BY DEF OneOfEach
    <3>1. ~double /\ \A w \in writing : ~(w.by = by /\ w.post = p)
      BY <2>2
    <3>2. \A l, w \in likes \cup writing : l.by = w.by /\ l.post = w.post => l = w
      BY <3>1 DEF OneOfEach
    <3>3. \A l \in likes \cup writing : ~(l.by = new.by /\ l.post = new.post)
      BY <2>1, <2>2, <3>1
    <3>4. QED
      BY <2>2, <3>2, <3>3
  <2>6. QED
    BY <2>2, <2>4, <2>5 DEF LikesOK
<1>3. QED
  BY <1>1, <1>2, RowShapes

(* What the pages show are places.                                         *)
LEMMA ShownPlaces ==
    ASSUME ShownOK
    PROVE  /\ DOMAIN shown = 1..Len(shown) /\ Len(shown) \in Nat
           /\ \A n \in DOMAIN shown :
                 /\ shown[n] \in Place /\ shown[n].key \in Nat /\ shown[n].post \in Post
<1>1. shown \in Seq(Place)
  BY DEF ShownOK
<1>2. /\ DOMAIN shown = 1..Len(shown) /\ Len(shown) \in Nat
      /\ \A n \in DOMAIN shown : shown[n] \in Place
  BY <1>1
<1>3. \A r \in Place : r.key \in Nat /\ r.post \in Post
  BY DEF Place
<1>4. QED
  BY <1>2, <1>3

LEMMA ShownPlacesLater ==
    ASSUME ShownOK'
    PROVE  \A n \in DOMAIN shown' : shown'[n].key \in Nat
<1>1. shown' \in Seq(Place)
  BY DEF ShownOK, Place
<1>2. \A n \in DOMAIN shown' : shown'[n] \in Place
  BY <1>1
<1>3. \A r \in Place : r.key \in Nat
  BY DEF Place
<1>4. QED
  BY <1>2, <1>3

(* A like of what was shown is what was shown, or newer.                   *)
LEMMA LikedAboveKeeps ==
    ASSUME IInv, LikesOK, ShownOK, LikedAgainAbove, [Next]_vars, UNCHANGED <<list, shown>>
    PROVE  LikedAgainAbove'
<1>1. CASE Settles
  <2>1. likes' \cup writing' \subseteq likes \cup writing /\ double' = double
    BY <1>1 DEF Settles
  <2>2. QED
    BY <2>1 DEF LikedAgainAbove
<1>2. ASSUME NEW by \in Fan \cup {Worker}, NEW p \in Post, Begins(by, p)
      PROVE  LikedAgainAbove'
  <2> DEFINE new == [by |-> by, post |-> p, at |-> clock + 1]
  <2>1. new.at = clock + 1
    OBVIOUS
  <2>2. /\ likes' \cup writing' = likes \cup writing \cup {new}
        /\ double' = (double \/ \E w \in writing : w.by = by /\ w.post = p)
    BY <1>2 DEF Begins
  <2> HIDE DEF new
  <2>3. list = "likes" => \A n \in DOMAIN shown : new.at >= shown[n].key
    <3>1. \A n \in DOMAIN shown : shown[n].key \in Nat
      BY ShownPlaces
    <3>2. QED
      BY <2>1, <3>1, RowTypes DEF ShownOK
  <2>4. QED
    BY <2>2, <2>3 DEF LikedAgainAbove
<1>3. QED
  BY <1>1, <1>2, RowShapes

-------------------------------------------------------------------------------
(* The rows of a list                                                      *)

(* A listing of a set has every element once.                              *)
LEMMA ListingFacts ==
    ASSUME NEW S, IsFiniteSet(S), NEW s \in SetToSeqs(S)
    PROVE  s \in Seq(S) /\ Len(s) \in Nat /\ DOMAIN s = 1..Len(s) /\ ToSet(s) = S
<1> DEFINE N == Cardinality(S)
<1>1. N \in Nat
  BY FS_CardinalityType
<1>2. s \in [1..N -> S] /\ \A i, j \in 1..N : i # j => s[i] # s[j]
  BY DEF SetToSeqs
<1>3. s \in Seq(S) /\ Len(s) = N /\ DOMAIN s = 1..N
  BY <1>1, <1>2
<1>4. s \in Injection(1..N, S)
  BY <1>2 DEF Injection, IsInjective
<1>5. Cardinality(1..N) = N
  BY <1>1, FS_Interval
<1>6. s \in Surjection(1..N, S)
  BY <1>4, <1>5, FS_Injection
<1>7. ToSet(s) = S
  BY <1>2, <1>6 DEF ToSet, Surjection
<1>8. QED
  BY <1>1, <1>3, <1>7

(* A list has finitely many rows, each in its place; on a profile the post *)
(* tells its place, among the likes the like does.                         *)
LEMMA PlacesFacts ==
    ASSUME IInv, LikesOK, NEW a
    PROVE  /\ Rows(a) \in SUBSET Place /\ IsFiniteSet(Rows(a))
           /\ list # "likes" => \A r \in Rows(a) : r.key = r.post
           /\ list = "likes" =>
                 \A r \in Rows(a) : \E l \in likes : l.by = Reader /\ l.post = r.post /\ l.at = r.key
<1>1. CASE list = "likes"
  <2> DEFINE mine == {x \in likes : x.by = Reader /\ Public(x.post)}
             f == [l \in mine |-> [post |-> l.post, key |-> l.at]]
  <2>1. Rows(a) = {[post |-> l.post, key |-> l.at] : l \in mine}
    BY <1>1 DEF Rows, Liked
  <2>2. mine \subseteq likes /\ IsFiniteSet(mine) /\ \A l \in mine : l.by = Reader
    <3>1. mine \subseteq likes
      OBVIOUS
    <3>2. QED
      BY <3>1, FS_Subset DEF LikesOK
  <2>3. f \in [mine -> Rows(a)] /\ \A r \in Rows(a) : \E l \in mine : f[l] = r
    BY <2>1
  <2>4. f \in Surjection(mine, Rows(a))
    BY <2>3 DEF Surjection
  <2>5. IsFiniteSet(Rows(a))
    <3> HIDE DEF mine, f
    <3>1. QED
      BY <2>2, <2>4, FS_Surjection
  <2>6. \A l \in likes : l.post \in Post /\ l.at \in Nat \ {0}
    BY RowTypes
  <2> HIDE DEF mine
  <2>7. \A r \in Rows(a) : \E l \in mine : r = [post |-> l.post, key |-> l.at]
    BY <2>1
  <2>8. \A r \in Rows(a) : /\ r \in Place
                           /\ \E l \in likes : l.by = Reader /\ l.post = r.post /\ l.at = r.key
    BY <2>2, <2>6, <2>7 DEF Place
  <2>9. QED
    BY <1>1, <2>5, <2>8
<1>2. CASE list # "likes"
  <2> DEFINE all == {[post |-> p, key |-> p] : p \in Post}
             f == [p \in Post |-> [post |-> p, key |-> p]]
  <2>1. Rows(a) \subseteq all
    BY <1>2 DEF Rows, OnProfile
  <2>2. IsFiniteSet(Post)
    BY ListsAssumption, FS_Interval DEF Post
  <2>3. f \in [Post -> all] /\ \A r \in all : \E p \in Post : f[p] = r
    OBVIOUS
  <2>4. f \in Surjection(Post, all)
    BY <2>3 DEF Surjection
  <2>5. IsFiniteSet(Rows(a))
    <3>1. IsFiniteSet(all)
      <4> HIDE DEF all, f
      <4>1. QED
        BY <2>2, <2>4, FS_Surjection
    <3> HIDE DEF all
    <3>2. QED
      BY <2>1, <3>1, FS_Subset
  <2>6. \A r \in all : r \in Place /\ r.key = r.post
    BY RowTypes DEF Place
  <2> HIDE DEF all
  <2>7. QED
    BY <1>2, <2>1, <2>5, <2>6
<1>3. QED
  BY <1>1, <1>2

(* A page is the upper end of the rows below the cursor: all of them, when *)
(* next_cursor is null, and otherwise down to the new cursor.              *)
IsPage(found, k) ==
    /\ found \in Seq(Place) /\ Len(found) \in Nat /\ DOMAIN found = 1..Len(found)
    /\ ToSet(found) = After(asked)
    /\ \A m, n \in 1..Len(found) : m < n => found[m].key > found[n].key
    /\ k \in 0..Len(found)
    /\ \/ k >= 1 /\ phase' = "idle" /\ cursor' = found[k].key
       \/ k = Len(found) /\ phase' = "done" /\ cursor' = cursor

(* get_user_posts and get_user_likes answer so.                            *)
LEMMA AnswerFacts ==
    ASSUME IInv, LikesOK, Answer
    PROVE  \E found, k : IsPage(found, k) /\ shown' = shown \o SubSeq(found, 1, k)
<1>1. PICK found \in SetToSeqs(After(asked)) :
         /\ \A m, n \in DOMAIN found : m < n => found[m].key > found[n].key
         /\ LET page == SubSeq(found, 1, IF Len(found) < PageLimit THEN Len(found) ELSE PageLimit)
            IN  /\ shown' = shown \o page
                /\ IF Len(found) > PageLimit
                   THEN phase' = "idle" /\ cursor' = Last(page).key
                   ELSE phase' = "done" /\ UNCHANGED cursor
  BY Zenon DEF Answer, Orderings
<1> DEFINE k == IF Len(found) < PageLimit THEN Len(found) ELSE PageLimit
<1>2. After(asked) \in SUBSET Place /\ IsFiniteSet(After(asked))
  <2>1. Rows(asked) \in SUBSET Place /\ IsFiniteSet(Rows(asked)) /\ After(asked) \subseteq Rows(asked)
    BY PlacesFacts DEF After
  <2>2. QED
    BY <2>1, FS_Subset
<1>3. /\ found \in Seq(After(asked)) /\ Len(found) \in Nat /\ DOMAIN found = 1..Len(found)
      /\ ToSet(found) = After(asked)
  BY <1>2, ListingFacts
<1>4. found \in Seq(Place)
  BY <1>2, <1>3
<1>5. PageLimit \in Nat /\ PageLimit >= 1
  BY ListsAssumption
<1>6. k \in 0..Len(found)
  BY <1>3, <1>5
<1>7. shown' = shown \o SubSeq(found, 1, k)
  BY <1>1
<1>8. CASE Len(found) > PageLimit
  <2>1. k >= 1
    BY <1>3, <1>5, <1>8
  <2>2. phase' = "idle" /\ cursor' = Last(SubSeq(found, 1, k)).key
    BY <1>1, <1>8
  <2> HIDE DEF k
  <2>3. Len(SubSeq(found, 1, k)) = k /\ SubSeq(found, 1, k)[k] = found[k]
    BY <1>3, <1>4, <1>6, <2>1
  <2>4. Last(SubSeq(found, 1, k)) = found[k]
    BY <2>3 DEF Last
  <2>5. cursor' = found[k].key
    BY <2>2, <2>4
  <2>6. IsPage(found, k)
    BY <1>1, <1>3, <1>4, <1>6, <2>1, <2>2, <2>5 DEF IsPage
  <2>7. QED
    BY <1>7, <2>6
<1>9. CASE ~(Len(found) > PageLimit)
  <2>1. k = Len(found)
    <3>1. Len(found) \in Nat
      BY <1>3
    <3>2. k >= Len(found) /\ k \in Nat
      BY <1>5, <1>9, <3>1
    <3> HIDE DEF k
    <3>3. QED
      BY <1>6, <3>1, <3>2
  <2>2. phase' = "done" /\ cursor' = cursor
    BY <1>1, <1>9
  <2> HIDE DEF k
  <2>3. IsPage(found, k)
    BY <1>1, <1>3, <1>4, <1>6, <2>1, <2>2 DEF IsPage
  <2>4. QED
    BY <1>7, <2>3
<1>10. QED
  BY <1>8, <1>9

(* What is shown after a page was shown before or is on the page.          *)
LEMMA Appended ==
    ASSUME ShownOK, NEW found \in Seq(Place), NEW k \in 0..Len(found),
           shown' = shown \o SubSeq(found, 1, k)
    PROVE  /\ shown' \in Seq(Place) /\ DOMAIN shown' = 1..(Len(shown) + k)
           /\ \A n \in 1..Len(shown) : shown'[n] = shown[n]
           /\ \A n \in (Len(shown) + 1)..(Len(shown) + k) :
                 n - Len(shown) \in 1..k /\ shown'[n] = found[n - Len(shown)]
           /\ \A n \in 1..k : found[n] \in ToSet(shown')
           /\ ToSet(shown) \subseteq ToSet(shown')
<1> DEFINE page == SubSeq(found, 1, k)
<1>1. Len(found) \in Nat /\ DOMAIN found = 1..Len(found) /\ k \in Nat /\ k <= Len(found)
  OBVIOUS
<1>2. page \in Seq(Place) /\ Len(page) = k /\ \A n \in 1..k : page[n] = found[n]
  BY <1>1
<1>3. shown \in Seq(Place) /\ Len(shown) \in Nat
  BY ShownPlaces DEF ShownOK
<1>4. shown' = shown \o page
  OBVIOUS
<1> HIDE DEF page
<1>5. shown' \in Seq(Place) /\ Len(shown') = Len(shown) + k
  BY <1>2, <1>3, <1>4
<1>6. \A n \in 1..(Len(shown) + k) :
         shown'[n] = IF n <= Len(shown) THEN shown[n] ELSE page[n - Len(shown)]
  BY <1>2, <1>3, <1>4
<1>7. DOMAIN shown' = 1..(Len(shown) + k)
  BY <1>5
<1>8. \A n \in 1..Len(shown) : n \in 1..(Len(shown) + k) /\ shown'[n] = shown[n]
  BY <1>1, <1>3, <1>6
<1>9. \A n \in (Len(shown) + 1)..(Len(shown) + k) :
         n - Len(shown) \in 1..k /\ shown'[n] = found[n - Len(shown)]
  BY <1>1, <1>2, <1>3, <1>6
<1>10. \A n \in 1..k : found[n] \in ToSet(shown')
  <2> TAKE n \in 1..k
  <2>1. Len(shown) + n \in (Len(shown) + 1)..(Len(shown) + k) /\ (Len(shown) + n) - Len(shown) = n
    BY <1>1, <1>3
  <2>2. Len(shown) + n \in DOMAIN shown' /\ shown'[Len(shown) + n] = found[n]
    BY <1>1, <1>3, <1>7, <1>9, <2>1
  <2>3. QED
    BY <2>2 DEF ToSet
<1>11. ToSet(shown) \subseteq ToSet(shown')
  <2>1. DOMAIN shown = 1..Len(shown)
    BY ShownPlaces
  <2>2. QED
    BY <1>7, <1>8, <2>1 DEF ToSet
<1>12. QED
  BY <1>5, <1>7, <1>8, <1>9, <1>10, <1>11

-------------------------------------------------------------------------------
(* The pages                                                               *)

(* Pages go on where the last one ended: below the cursor.                 *)
LEMMA DescentAnswer ==
    ASSUME IInv, PagesInv, Answer
    PROVE  ShownOK' /\ ShownDescends' /\ ShownAbove'
<1>1. PICK found, k : IsPage(found, k) /\ shown' = shown \o SubSeq(found, 1, k)
  BY AnswerFacts DEF PagesInv
<1>2. /\ found \in Seq(Place) /\ k \in 0..Len(found) /\ Len(found) \in Nat
      /\ DOMAIN found = 1..Len(found) /\ ToSet(found) = After(asked)
      /\ \A m, n \in 1..Len(found) : m < n => found[m].key > found[n].key
  BY <1>1 DEF IsPage
<1>3. ShownOK /\ ShownDescends /\ ShownAbove /\ LikesOK /\ phase = "checked"
  BY DEF PagesInv, Answer
<1>4. /\ shown' \in Seq(Place) /\ DOMAIN shown' = 1..(Len(shown) + k)
      /\ \A n \in 1..Len(shown) : shown'[n] = shown[n]
      /\ \A n \in (Len(shown) + 1)..(Len(shown) + k) :
            n - Len(shown) \in 1..k /\ shown'[n] = found[n - Len(shown)]
  BY <1>1, <1>2, <1>3, Appended
<1>5. /\ Len(shown) \in Nat /\ DOMAIN shown = 1..Len(shown)
      /\ \A n \in 1..Len(shown) : shown[n].key \in Nat
  BY <1>3, ShownPlaces
<1>6. \A n \in 1..k : /\ found[n] \in After(asked) /\ found[n] \in Place
                      /\ found[n].key \in Nat /\ found[n].key >= 1
  <2>1. \A n \in 1..k : n \in DOMAIN found
    BY <1>2
  <2>2. \A n \in 1..k : found[n] \in After(asked) /\ found[n] \in Place
    BY <1>2, <2>1 DEF ToSet
  <2>3. \A r \in Place : r.key \in Nat /\ r.key >= 1
    BY DEF Place
  <2>4. QED
    BY <2>2, <2>3
<1>7. UNCHANGED <<list, clock>>
  BY DEF Answer, rows
<1>8. cursor' \in Nat
  <2>1. CASE k >= 1 /\ cursor' = found[k].key
    BY <1>2, <1>6, <2>1
  <2>2. CASE cursor' = cursor
    BY <1>3, <2>2 DEF ShownOK
  <2>3. QED
    BY <1>1, <2>1, <2>2 DEF IsPage
<1>9. \A n \in DOMAIN shown' :
         \/ n \in 1..Len(shown) /\ shown'[n] = shown[n]
         \/ n - Len(shown) \in 1..k /\ n > Len(shown) /\ shown'[n] = found[n - Len(shown)]
  <2> TAKE n \in DOMAIN shown'
  <2>1. n \in Nat /\ n >= 1 /\ n <= Len(shown) + k
    BY <1>2, <1>4, <1>5
  <2>2. CASE n <= Len(shown)
    BY <1>4, <1>5, <2>1, <2>2
  <2>3. CASE n > Len(shown)
    <3>1. n \in (Len(shown) + 1)..(Len(shown) + k)
      BY <1>2, <1>5, <2>1, <2>3
    <3>2. QED
      BY <1>4, <2>3, <3>1
  <2>4. QED
    BY <1>5, <2>1, <2>2, <2>3
<1>10. ShownOK'
  <2>1. \A n \in 1..k : IF list = "likes" THEN found[n].key <= clock
                        ELSE found[n].key = found[n].post
    <3>1. \A r \in After(asked) : r \in Rows(asked)
      BY DEF After
    <3>2. \A l \in likes : l.at <= clock
      BY RowTypes
    <3>3. CASE list = "likes"
      BY <1>3, <1>6, <3>1, <3>2, <3>3, PlacesFacts
    <3>4. CASE list # "likes"
      BY <1>3, <1>6, <3>1, <3>4, PlacesFacts
    <3>5. QED
      BY <3>3, <3>4
  <2>2. \A n \in DOMAIN shown' :
           IF list' = "likes" THEN shown'[n].key <= clock' ELSE shown'[n].key = shown'[n].post
    <3> TAKE n \in DOMAIN shown'
    <3>1. CASE n \in 1..Len(shown) /\ shown'[n] = shown[n]
      BY <1>3, <1>5, <1>7, <3>1 DEF ShownOK
    <3>2. CASE n - Len(shown) \in 1..k /\ shown'[n] = found[n - Len(shown)]
      BY <1>7, <2>1, <3>2
    <3>3. QED
      BY <1>9, <3>1, <3>2
  <2>3. QED
    BY <1>4, <1>8, <2>2 DEF ShownOK
<1>11. \A m \in 1..Len(shown), n \in 1..k : found[n].key < shown[m].key
  <2> TAKE m \in 1..Len(shown), n \in 1..k
  <2>1. cursor # 0 /\ shown[m].key >= cursor /\ cursor \in Nat
    BY <1>3, <1>5 DEF ShownAbove, ShownOK
  <2>2. found[n].key < cursor
    BY <1>6, <2>1 DEF After
  <2>3. QED
    BY <1>5, <1>6, <2>1, <2>2
<1>12. ShownDescends'
  <2> SUFFICES ASSUME NEW m \in DOMAIN shown', NEW n \in DOMAIN shown', m < n
               PROVE  shown'[n].key < shown'[m].key
    BY DEF ShownDescends
  <2>1. CASE n \in 1..Len(shown) /\ shown'[n] = shown[n]
    <3>1. m \in 1..Len(shown) /\ shown'[m] = shown[m]
      BY <1>4, <1>5, <2>1
    <3>2. QED
      BY <1>3, <1>5, <2>1, <3>1 DEF ShownDescends
  <2>2. CASE n - Len(shown) \in 1..k /\ n > Len(shown) /\ shown'[n] = found[n - Len(shown)]
    <3>1. CASE m \in 1..Len(shown) /\ shown'[m] = shown[m]
      BY <1>11, <2>2, <3>1
    <3>2. CASE m - Len(shown) \in 1..k /\ shown'[m] = found[m - Len(shown)]
      <4>1. /\ m - Len(shown) < n - Len(shown)
            /\ m - Len(shown) \in 1..Len(found) /\ n - Len(shown) \in 1..Len(found)
        BY <1>2, <1>4, <1>5, <2>2, <3>2
      <4>2. found[m - Len(shown)].key > found[n - Len(shown)].key
        BY <1>2, <4>1
      <4>3. QED
        BY <1>6, <2>2, <3>2, <4>2
    <3>3. QED
      BY <1>9, <3>1, <3>2
  <2>3. QED
    BY <1>9, <2>1, <2>2
<1>13. ShownAbove'
  <2> SUFFICES ASSUME phase' # "done", NEW n \in DOMAIN shown'
               PROVE  cursor' # 0 /\ shown'[n].key >= cursor'
    BY DEF ShownAbove
  <2>1. k >= 1 /\ cursor' = found[k].key
    BY <1>1 DEF IsPage
  <2>2. k \in 1..k /\ k \in 1..Len(found)
    BY <1>2, <2>1
  <2>3. cursor' # 0
    BY <1>6, <2>1, <2>2
  <2>4. CASE n \in 1..Len(shown) /\ shown'[n] = shown[n]
    BY <1>5, <1>6, <1>11, <2>1, <2>2, <2>4
  <2>5. CASE n - Len(shown) \in 1..k /\ shown'[n] = found[n - Len(shown)]
    <3> DEFINE i == n - Len(shown)
    <3>1. i \in 1..k /\ shown'[n] = found[i]
      BY <2>5
    <3> HIDE DEF i
    <3>2. i = k \/ i < k
      BY <1>2, <3>1
    <3>3. i \in 1..Len(found)
      BY <1>2, <3>1
    <3>4. found[i].key >= found[k].key
      BY <1>2, <1>6, <2>2, <3>1, <3>2, <3>3
    <3>5. QED
      BY <2>1, <2>3, <3>1, <3>4
  <2>6. QED
    BY <1>9, <2>4, <2>5
<1>14. QED
  BY <1>10, <1>12, <1>13

(* Below what was shown of the likes there is no other like of a post that *)
(* was shown, unless two overlapped.                                       *)
LEMMA OnceAnswer ==
    ASSUME IInv, PagesInv, Answer
    PROVE  LikedAgainAbove' /\ EachOnce'
<1>1. PICK found, k : IsPage(found, k) /\ shown' = shown \o SubSeq(found, 1, k)
  BY AnswerFacts DEF PagesInv
<1>2. /\ found \in Seq(Place) /\ k \in 0..Len(found) /\ Len(found) \in Nat
      /\ DOMAIN found = 1..Len(found) /\ ToSet(found) = After(asked)
  BY <1>1 DEF IsPage
<1>3. ShownOK /\ LikesOK /\ OneOfEach /\ LikedAgainAbove
  BY DEF PagesInv
<1>4. ShownOK' /\ ShownDescends'
  BY DescentAnswer
<1>5. UNCHANGED <<list, likes, writing, double>>
  BY DEF Answer, rows
<1>6. \A n \in DOMAIN shown' :
         (n \in DOMAIN shown /\ shown'[n] = shown[n]) \/ shown'[n] \in Rows(asked)
  <2>1. /\ DOMAIN shown' = 1..(Len(shown) + k)
        /\ \A n \in 1..Len(shown) : shown'[n] = shown[n]
        /\ \A n \in (Len(shown) + 1)..(Len(shown) + k) :
              n - Len(shown) \in 1..k /\ shown'[n] = found[n - Len(shown)]
    BY <1>1, <1>2, <1>3, Appended
  <2>2. Len(shown) \in Nat /\ DOMAIN shown = 1..Len(shown)
    BY <1>3, ShownPlaces
  <2>3. \A n \in 1..k : found[n] \in Rows(asked)
    <3>1. \A n \in 1..k : n \in DOMAIN found
      BY <1>2
    <3>2. \A n \in 1..k : found[n] \in After(asked)
      BY <1>2, <3>1 DEF ToSet
    <3>3. QED
      BY <3>2 DEF After
  <2> TAKE n \in DOMAIN shown'
  <2>4. n \in 1..Len(shown) \/ n \in (Len(shown) + 1)..(Len(shown) + k)
    BY <1>2, <2>1, <2>2
  <2>5. QED
    BY <2>1, <2>2, <2>3, <2>4
<1>7. LikedAgainAbove'
  <2> SUFFICES ASSUME list = "likes", ~double, NEW n \in DOMAIN shown',
                      NEW l \in likes \cup writing, l.by = Reader, l.post = shown'[n].post
               PROVE  l.at >= shown'[n].key
    BY <1>5 DEF LikedAgainAbove
  <2>1. CASE n \in DOMAIN shown /\ shown'[n] = shown[n]
    BY <1>3, <2>1 DEF LikedAgainAbove
  <2>2. CASE shown'[n] \in Rows(asked)
    <3>1. PICK x \in likes : x.by = Reader /\ x.post = shown'[n].post /\ x.at = shown'[n].key
      BY <1>3, <2>2, PlacesFacts
    <3>2. x = l
      BY <1>3, <3>1 DEF OneOfEach
    <3>3. l.at \in Nat
      BY RowTypes
    <3>4. QED
      BY <3>1, <3>2, <3>3
  <2>3. QED
    BY <1>6, <2>1, <2>2
<1>8. EachOnce'
  <2>1. \A n \in DOMAIN shown' : shown'[n].key \in Nat
    BY <1>4, ShownPlacesLater
  <2> SUFFICES ASSUME NEW m \in DOMAIN shown', NEW n \in DOMAIN shown', m < n
               PROVE  /\ shown'[n].key < shown'[m].key
                      /\ (list' = "likes" /\ double') \/ shown'[n].post # shown'[m].post
    BY DEF EachOnce
  <2>2. shown'[n].key < shown'[m].key
    BY <1>4 DEF ShownDescends
  <2>3. CASE list # "likes"
    <3>1. shown'[n].key = shown'[n].post /\ shown'[m].key = shown'[m].post
      BY <1>4, <1>5, <2>3 DEF ShownOK
    <3>2. QED
      BY <2>1, <2>2, <3>1
  <2>4. CASE list = "likes" /\ ~double
    <3> SUFFICES ASSUME shown'[n].post = shown'[m].post
                 PROVE  FALSE
      BY <2>2
    <3>1. CASE shown'[n] \in Rows(asked)
      <4>1. PICK x \in likes : x.by = Reader /\ x.post = shown'[n].post /\ x.at = shown'[n].key
        BY <1>3, <2>4, <3>1, PlacesFacts
      <4>2. x.at >= shown'[m].key
        BY <1>5, <1>7, <2>4, <4>1 DEF LikedAgainAbove
      <4>3. QED
        BY <2>1, <2>2, <4>1, <4>2
    <3>2. CASE n \in DOMAIN shown /\ shown'[n] = shown[n]
      <4>1. m \in DOMAIN shown /\ shown'[m] = shown[m]
        <5>1. DOMAIN shown' = 1..(Len(shown) + k) /\ \A i \in 1..Len(shown) : shown'[i] = shown[i]
          BY <1>1, <1>2, <1>3, Appended
        <5>2. Len(shown) \in Nat /\ DOMAIN shown = 1..Len(shown)
          BY <1>3, ShownPlaces
        <5>3. QED
          BY <1>2, <3>2, <5>1, <5>2
      <4>2. shown[n].post # shown[m].post
        BY <2>4, <3>2, <4>1 DEF PagesInv, EachOnce
      <4>3. QED
        BY <3>2, <4>1, <4>2
    <3>3. QED
      BY <1>6, <3>1, <3>2
  <2>5. CASE list = "likes" /\ double
    BY <1>5, <2>2, <2>5
  <2>6. QED
    BY <2>3, <2>4, <2>5
<1>9. QED
  BY <1>7, <1>8

(* What was there all along was found below the cursor or shown before.    *)
LEMMA CompleteAnswer ==
    ASSUME IInv, PagesInv, Answer
    PROVE  SteadyShown' /\ ListsComplete'
<1>1. PICK found, k : IsPage(found, k) /\ shown' = shown \o SubSeq(found, 1, k)
  BY AnswerFacts DEF PagesInv
<1>2. /\ found \in Seq(Place) /\ k \in 0..Len(found) /\ Len(found) \in Nat
      /\ DOMAIN found = 1..Len(found) /\ ToSet(found) = After(asked)
      /\ \A m, n \in 1..Len(found) : m < n => found[m].key > found[n].key
  BY <1>1 DEF IsPage
<1>3. ShownOK /\ LikesOK /\ SteadyThere /\ SteadyShown /\ phase = "checked"
  BY DEF PagesInv, Answer
<1>4. ToSet(shown) \subseteq ToSet(shown') /\ \A n \in 1..k : found[n] \in ToSet(shown')
  BY <1>1, <1>2, <1>3, Appended
<1>5. UNCHANGED <<steady, crossed>>
  BY DEF Answer
<1>6. ~crossed => \A r \in steady : r \in ToSet(shown) \/ \E n \in 1..Len(found) : r = found[n]
  <2> HAVE ~crossed
  <2> TAKE r \in steady
  <2>1. r \in Rows(asked) /\ r \in Place
    BY <1>3, PlacesFacts DEF SteadyThere
  <2>2. r.key \in Nat /\ cursor \in Nat
    BY <1>3, <2>1 DEF Place, ShownOK
  <2>3. CASE cursor = 0 \/ r.key < cursor
    <3>1. r \in ToSet(found)
      BY <1>2, <2>1, <2>3 DEF After
    <3>2. QED
      BY <1>2, <3>1 DEF ToSet
  <2>4. CASE cursor # 0 /\ r.key >= cursor
    BY <1>3, <2>4 DEF SteadyShown
  <2>5. QED
    BY <2>2, <2>3, <2>4
<1>7. ASSUME phase' = "done"
      PROVE  ListsComplete'
  <2>1. k = Len(found)
    BY <1>1, <1>7 DEF IsPage
  <2>2. QED
    BY <1>4, <1>5, <1>6, <2>1 DEF ListsComplete
<1>8. ASSUME phase' # "done"
      PROVE  SteadyShown'
  <2>1. k >= 1 /\ cursor' = found[k].key
    BY <1>1, <1>8 DEF IsPage
  <2> SUFFICES ASSUME ~crossed, NEW r \in steady, r.key >= cursor'
               PROVE  r \in ToSet(shown')
    BY <1>5 DEF SteadyShown
  <2>2. CASE r \in ToSet(shown)
    BY <1>4, <2>2
  <2>3. ASSUME NEW n \in 1..Len(found), r = found[n]
        PROVE  r \in ToSet(shown')
    <3>1. k \in 1..Len(found) /\ found[k].key \in Nat /\ found[n].key \in Nat
      <4>1. k \in 1..Len(found)
        BY <1>2, <2>1
      <4>2. found[k] \in Place /\ found[n] \in Place
        BY <1>2, <4>1
      <4>3. QED
        BY <4>1, <4>2 DEF Place
    <3>2. ~(k < n)
      BY <1>2, <2>1, <2>3, <3>1
    <3>3. n \in 1..k
      BY <1>2, <3>2
    <3>4. QED
      BY <1>4, <2>3, <3>3
  <2>4. QED
    BY <1>6, <2>2, <2>3
<1>9. QED
  BY <1>7, <1>8 DEF SteadyShown, ListsComplete

-------------------------------------------------------------------------------
(* The other steps                                                         *)

(* A step of others leaves the reader's scroll alone.                      *)
Elsewhere == UNCHANGED <<list, phase, asked, cursor, shown, crossed>> /\ KeepSteady

(* The requests for the inbox leave all of it alone.                       *)
Aside ==
    /\ UNCHANGED <<published, deleted, private, follows, likes, writing, clock, double>>
    /\ UNCHANGED <<list, phase, asked, cursor, shown, crossed, steady>>

(* Only the reader's requests turn pages.                                  *)
LEMMA StepsElsewhere ==
    ASSUME Next
    PROVE  Ask \/ Check \/ Answer \/ Elsewhere \/ Aside
<1>1. ASSUME NEW p \in Post, Publish(p) \/ Delete(p) \/ Notify(p)
      PROVE  Elsewhere
  BY <1>1 DEF Publish, Delete, Notify, Start, Change, scroll, Elsewhere
<1>2. CASE SetPrivate \/ FollowOrUnfollow \/ MarkRead
  BY <1>2 DEF SetPrivate, FollowOrUnfollow, MarkRead, Change, scroll, Elsewhere
<1>3. ASSUME NEW f \in Fan, NEW p \in Post, Like(f, p) \/ Unlike(f, p)
      PROVE  Elsewhere
  BY <1>3 DEF Like, Unlike, Start, Change, scroll, Elsewhere
<1>4. ASSUME NEW w \in writing, CommitRow(w)
      PROVE  Elsewhere
  BY <1>4 DEF CommitRow, scroll, Elsewhere
<1>5. CASE ListInbox \/ CountUnread
  BY <1>5 DEF ListInbox, CountUnread, content, rows, scroll, Aside
<1>6. QED
  BY <1>1, <1>2, <1>3, <1>4, <1>5 DEF Next

(* What the open request would have shown and is visible now, it still     *)
(* would show, by what it has read of the owner and of the follow.         *)
LEMMA RowsMix ==
    ASSUME UNCHANGED <<list, asked>>, NEW r \in Rows(asked), r \in Rows(Now)'
    PROVE  r \in Rows(asked)'
<1>1. CASE list = "likes"
  BY <1>1 DEF Rows
<1>2. CASE list # "likes"
  <2>1. ~(asked.private /\ ~asked.follows) /\ r \in OnProfile(asked)
    BY <1>2 DEF Rows
  <2>2. PICK x \in Post : /\ r = [post |-> x, key |-> x]
                          /\ (x \in Replies) = (list = "replies")
                          /\ x \in FollowersOnly => asked.follows
    BY <2>1 DEF OnProfile
  <2>3. r \in OnProfile(Now)'
    BY <1>2 DEF Rows
  <2>4. PICK y \in Post : r = [post |-> y, key |-> y] /\ Public(y)'
    BY <2>3 DEF OnProfile
  <2>5. x = y
    BY <2>2, <2>4
  <2>6. r \in OnProfile(asked)'
    BY <2>2, <2>4, <2>5 DEF OnProfile
  <2>7. QED
    BY <1>2, <2>1, <2>6 DEF Rows
<1>3. QED
  BY <1>1, <1>2

LEMMA ElsewhereKeeps ==
    ASSUME IInv, PagesInv, Next, Elsewhere
    PROVE  PagesInv'
<1>1. UNCHANGED <<list, phase, asked, cursor, shown, crossed>> /\ steady' = steady \cap Rows(Now)'
  BY DEF Elsewhere, KeepSteady
<1>2. LikesOK' /\ TimesDiffer' /\ OneOfEach' /\ LikedAgainAbove'
  BY <1>1, RowsKeep, LikedAboveKeeps DEF PagesInv
<1>3. clock' >= clock /\ clock' \in Nat /\ (double => double')
  <2>1. clock \in Nat
    BY RowTypes
  <2>2. CASE Settles
    BY <2>1, <2>2 DEF Settles
  <2>3. ASSUME NEW by \in Fan \cup {Worker}, NEW p \in Post, Begins(by, p)
        PROVE  clock' >= clock /\ clock' \in Nat /\ (double => double')
    <3>1. clock' = clock + 1
      BY <2>3 DEF Begins
    <3>2. double => double'
      BY <2>3, Zenon DEF Begins
    <3>3. QED
      BY <2>1, <3>1, <3>2
  <2>4. QED
    BY <2>2, <2>3, RowShapes DEF PagesInv
<1>4. ShownOK'
  <2>1. ShownOK /\ \A n \in DOMAIN shown : shown[n].key \in Nat
    BY ShownPlaces DEF PagesInv
  <2>2. \A n \in DOMAIN shown :
           IF list = "likes" THEN shown[n].key <= clock' ELSE shown[n].key = shown[n].post
    BY <1>3, <2>1, RowTypes DEF ShownOK
  <2>3. QED
    BY <1>1, <2>1, <2>2 DEF ShownOK
<1>5. ShownDescends' /\ ShownAbove' /\ EachOnce'
  BY <1>1, <1>3 DEF PagesInv, ShownDescends, ShownAbove, EachOnce
<1>6. SteadyThere'
  <2>1. steady' \subseteq Rows(Now)'
    BY <1>1
  <2>2. ASSUME phase' = "asked" \/ (phase' = "checked" /\ ~crossed'), NEW r \in steady'
        PROVE  r \in Rows(asked)'
    <3>1. r \in Rows(asked)
      BY <1>1, <2>2 DEF PagesInv, SteadyThere
    <3>2. QED
      BY <1>1, <2>1, <2>2, <3>1, RowsMix
  <2>3. asked' \in [private : BOOLEAN, follows : BOOLEAN] /\ (phase' = "asked" => list' # "likes")
    BY <1>1 DEF PagesInv, SteadyThere
  <2>4. QED
    BY <2>1, <2>2, <2>3 DEF SteadyThere
<1>7. SteadyShown' /\ ListsComplete'
  BY <1>1 DEF PagesInv, SteadyShown, ListsComplete
<1>8. QED
  BY <1>2, <1>4, <1>5, <1>6, <1>7 DEF PagesInv

(* A request reads who it is asked by, and the first one what there is.    *)
LEMMA AskKeeps ==
    ASSUME IInv, PagesInv, Ask
    PROVE  PagesInv'
<1>1. /\ phase = "idle" /\ phase' = (IF list = "likes" THEN "checked" ELSE "asked") /\ asked' = Now
      /\ steady' = (IF cursor = 0 THEN Rows(Now) ELSE steady)
      /\ UNCHANGED <<published, deleted, private, follows, likes, writing, clock, double>>
      /\ UNCHANGED <<list, cursor, shown, crossed>>
  BY DEF Ask, content, rows
<1>2. LikesOK' /\ TimesDiffer' /\ OneOfEach' /\ LikedAgainAbove'
  BY <1>1 DEF PagesInv, LikesOK, TimesDiffer, OneOfEach, LikedAgainAbove
<1>3. ShownOK' /\ ShownDescends' /\ ShownAbove' /\ EachOnce'
  BY <1>1 DEF PagesInv, ShownOK, ShownDescends, ShownAbove, EachOnce
<1>4. Rows(Now)' = Rows(Now) /\ Rows(asked)' = Rows(Now)
  BY <1>1 DEF Rows, Now, Liked, OnProfile, Public
<1>5. Now \in [private : BOOLEAN, follows : BOOLEAN]
  BY DEF Now, IInv, TypeOK
<1>6. steady' \subseteq Rows(Now)
  BY <1>1 DEF PagesInv, SteadyThere
<1>7. SteadyThere'
  BY <1>1, <1>4, <1>5, <1>6 DEF SteadyThere
<1>8. SteadyShown' /\ ListsComplete'
  BY <1>1 DEF PagesInv, SteadyShown, ListsComplete
<1>9. QED
  BY <1>2, <1>3, <1>7, <1>8 DEF PagesInv

(* The follow that is read decides no otherwise than the one that was      *)
(* there with is_private, unless the owner and the reader crossed.         *)
LEMMA CheckKeeps ==
    ASSUME IInv, PagesInv, Check
    PROVE  PagesInv'
<1>1. /\ phase = "asked" /\ phase' = "checked" /\ asked' = [asked EXCEPT !.follows = follows]
      /\ UNCHANGED <<published, deleted, private, follows, likes, writing, clock, double>>
      /\ UNCHANGED <<list, cursor, shown, steady>>
  BY DEF Check, content, rows
<1>2. ~crossed' => ~crossed /\ ~(asked.private /\ ~private /\ asked.follows /\ ~follows)
  BY Zenon DEF Check
<1>3. LikesOK' /\ TimesDiffer' /\ OneOfEach' /\ LikedAgainAbove'
  BY <1>1 DEF PagesInv, LikesOK, TimesDiffer, OneOfEach, LikedAgainAbove
<1>4. ShownOK' /\ ShownDescends' /\ ShownAbove' /\ EachOnce'
  BY <1>1 DEF PagesInv, ShownOK, ShownDescends, ShownAbove, EachOnce
<1>5. /\ asked \in [private : BOOLEAN, follows : BOOLEAN] /\ list # "likes"
      /\ steady \subseteq Rows(Now) /\ steady \subseteq Rows(asked)
      /\ private \in BOOLEAN /\ follows \in BOOLEAN
  BY <1>1 DEF PagesInv, SteadyThere, IInv, TypeOK
<1>6. /\ asked' \in [private : BOOLEAN, follows : BOOLEAN]
      /\ asked'.private = asked.private /\ asked'.follows = follows
  BY <1>1, <1>5
<1>7. Rows(Now)' = Rows(Now)
  BY <1>1 DEF Rows, Now, Liked, OnProfile, Public
<1>8. ASSUME ~crossed', NEW r \in steady
      PROVE  r \in Rows(asked)'
  <2>1. r \in OnProfile(Now) /\ ~(private /\ ~follows) /\ ~(asked.private /\ ~asked.follows)
    BY <1>5 DEF Rows, Now
  <2>2. ~(asked'.private /\ ~asked'.follows)
    BY <1>2, <1>6, <1>8, <2>1
  <2>3. r \in OnProfile(asked)'
    BY <1>1, <1>6, <2>1 DEF OnProfile, Public, Now
  <2>4. QED
    BY <1>1, <1>5, <2>2, <2>3 DEF Rows
<1>9. SteadyThere'
  BY <1>1, <1>5, <1>6, <1>7, <1>8 DEF SteadyThere
<1>10. SteadyShown' /\ ListsComplete'
  BY <1>1, <1>2 DEF PagesInv, SteadyShown, ListsComplete
<1>11. QED
  BY <1>3, <1>4, <1>9, <1>10 DEF PagesInv

LEMMA AnswerKeeps ==
    ASSUME IInv, PagesInv, Answer
    PROVE  PagesInv'
<1>1. UNCHANGED <<published, deleted, private, follows, list, likes, writing, double, asked, steady>>
  BY DEF Answer, content, rows
<1>2. LikesOK' /\ TimesDiffer' /\ OneOfEach'
  BY <1>1 DEF PagesInv, LikesOK, TimesDiffer, OneOfEach
<1>3. phase' # "asked" /\ phase' # "checked"
  BY AnswerFacts DEF PagesInv, IsPage
<1>4. Rows(Now)' = Rows(Now)
  BY <1>1 DEF Rows, Now, Liked, OnProfile, Public
<1>5. SteadyThere'
  BY <1>1, <1>3, <1>4 DEF PagesInv, SteadyThere
<1>6. QED
  BY <1>2, <1>5, DescentAnswer, OnceAnswer, CompleteAnswer DEF PagesInv

(* Before the first page nothing is shown.                                 *)
LEMMA InitPages == Init => PagesInv
<1> SUFFICES ASSUME Init PROVE PagesInv
  OBVIOUS
<1>1. /\ likes = {} /\ writing = {} /\ phase = "idle" /\ cursor = 0 /\ steady = {}
      /\ shown = <<>> /\ DOMAIN shown = {}
  BY DEF Init
<1>2. shown \in Seq(Place)
  BY <1>1
<1>3. LikesOK /\ TimesDiffer /\ OneOfEach
  BY <1>1, FS_EmptySet DEF LikesOK, TimesDiffer, OneOfEach
<1>4. ShownOK /\ ShownDescends /\ ShownAbove /\ LikedAgainAbove /\ EachOnce
  BY <1>1, <1>2 DEF ShownOK, ShownDescends, ShownAbove, LikedAgainAbove, EachOnce
<1>5. asked \in [private : BOOLEAN, follows : BOOLEAN]
  BY DEF Init, Now
<1>6. SteadyThere /\ SteadyShown /\ ListsComplete
  BY <1>1, <1>5 DEF SteadyThere, SteadyShown, ListsComplete
<1>7. QED
  BY <1>3, <1>4, <1>6 DEF PagesInv

(* The second invariant, on the first.                                     *)
LEMMA PagesInvariance == Spec => []PagesInv
<1>1. IInv /\ PagesInv /\ [Next]_vars => PagesInv'
  <2> SUFFICES ASSUME IInv, PagesInv, [Next]_vars PROVE PagesInv'
    OBVIOUS
  <2>1. CASE Aside \/ UNCHANGED vars
    <3>1. /\ UNCHANGED <<published, deleted, private, follows, likes, writing, clock, double>>
          /\ UNCHANGED <<list, phase, asked, cursor, shown, crossed, steady>>
      BY <2>1 DEF vars, content, rows, scroll, Aside
    <3>2. LikesOK' /\ TimesDiffer' /\ OneOfEach' /\ LikedAgainAbove'
      BY <3>1 DEF PagesInv, LikesOK, TimesDiffer, OneOfEach, LikedAgainAbove
    <3>3. ShownOK' /\ ShownDescends' /\ ShownAbove' /\ EachOnce'
      BY <3>1 DEF PagesInv, ShownOK, ShownDescends, ShownAbove, EachOnce
    <3>4. Rows(Now)' = Rows(Now) /\ Rows(asked)' = Rows(asked)
      BY <3>1 DEF Rows, Now, Liked, OnProfile, Public
    <3>5. SteadyThere' /\ SteadyShown' /\ ListsComplete'
      BY <3>1, <3>4 DEF PagesInv, SteadyThere, SteadyShown, ListsComplete
    <3>6. QED
      BY <3>2, <3>3, <3>5 DEF PagesInv
  <2>2. CASE Next
    BY <2>2, <2>1, StepsElsewhere, AskKeeps, CheckKeeps, AnswerKeeps, ElsewhereKeeps
  <2>3. QED
    BY <2>1, <2>2
<1>2. QED
  BY <1>1, InitPages, ListsInvariance, PTL DEF Spec

(* Rows come newest first and no post comes twice, whatever is published,  *)
(* deleted or liked again between the pages of get_user_posts and          *)
(* get_user_likes, unless two likes of a post overlapped.                  *)
THEOREM RowsComeOnce == Spec => []EachOnce
<1>1. PagesInv => EachOnce
  BY DEF PagesInv
<1>2. QED
  BY <1>1, PagesInvariance, PTL

(* A null next_cursor of a profile's lists means that what was visible all *)
(* along has been shown, unless the owner went public and the reader left  *)
(* between get_user_posts' reads of the two.                               *)
THEOREM ListsAreComplete == Spec => []ListsComplete
<1>1. PagesInv => ListsComplete
  BY DEF PagesInv
<1>2. QED
  BY <1>1, PagesInvariance, PTL

===============================================================================
