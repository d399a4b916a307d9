-------------------------- MODULE AccountHealthProofs --------------------------
(***************************************************************************)
(* What AccountHealth guarantees for any number of changes and of          *)
(* recomputations under way.  The arithmetic of the score is settled       *)
(* first; after that the score is only a number that stays the same while  *)
(* the signals do.                                                         *)
(***************************************************************************)
EXTENDS AccountHealth, FiniteSetTheorems, TLAPS

(* Blocks, and three hides at a time, have been recorded as pressure.      *)
PressureSeen ==
    /\ blockers # {} => pressure
    /\ Cardinality(hides) >= 3 => pressure

(* What a counted job holds.                                               *)
CountedOK ==
    \A j \in jobs : j.phase = "counted" =>
        /\ j.cred \in Scores /\ j.spammy \in BOOLEAN
        /\ j.cred < 25000 => j.spammy
        /\ j.spammy => pressure

(* While the account is spammy and nothing excuses it, the labels are      *)
(* there or a job is under way that will see it, or has.                   *)
SpammerWatched ==
    ~lost /\ "worse" \notin drift /\ Spammy =>
        \/ labels = HealthLabels
        \/ \E j \in jobs : j.phase = "due" \/ (j.phase = "counted" /\ j.spammy)

(* As long as requests that recompute do not overlap, the only one knows   *)
(* the score in the table, and since the last block or hide nothing has    *)
(* changed that it has not counted.                                        *)
OneAtATime ==
    ~overlap =>
        /\ \A j, k \in jobs : j = k
        /\ \A j \in jobs : (j.phase = "due" /\ j.op = "hide") \/ j.loaded = score
        /\ \A j \in jobs : j.phase = "counted" /\ drift = {} => j.cred = Cred
        /\ \A j \in jobs : j.phase = "asked" => j.op # "hide"
        /\ AtRest /\ ~lost /\ drift = {} => score = Cred

IInv ==
    /\ TypeOK
    /\ PressureSeen /\ CountedOK /\ SpammerWatched /\ OneAtATime
    /\ LowScoreLabelled /\ LabelNeedsPressure

--------------------------------------------------------------------------------
(* The score                                                               *)

Pairs == Viewer \X Post

(* No more than all viewers follow or block, no more than all pairs like   *)
(* or hide.                                                                *)
LEMMA SetFacts ==
    /\ Cardinality(Viewer) \in Nat /\ Cardinality(Pairs) \in Nat
    /\ \A S \in SUBSET Viewer :
          IsFiniteSet(S) /\ Cardinality(S) \in Nat /\ Cardinality(S) <= Cardinality(Viewer)
    /\ \A S \in SUBSET Pairs :
          IsFiniteSet(S) /\ Cardinality(S) \in Nat /\ Cardinality(S) <= Cardinality(Pairs)
<1>1. IsFiniteSet(Viewer) /\ IsFiniteSet(Post)
  BY HealthAssumption
<1>2. IsFiniteSet(Pairs)
  BY <1>1, FS_Product DEF Pairs
<1>3. Cardinality(Viewer) \in Nat /\ Cardinality(Pairs) \in Nat
  BY <1>1, <1>2, FS_CardinalityType
<1>4. ASSUME NEW S \in SUBSET Viewer
      PROVE  IsFiniteSet(S) /\ Cardinality(S) \in Nat /\ Cardinality(S) <= Cardinality(Viewer)
  BY <1>1, FS_Subset, FS_CardinalityType
<1>5. ASSUME NEW S \in SUBSET Pairs
      PROVE  IsFiniteSet(S) /\ Cardinality(S) \in Nat /\ Cardinality(S) <= Cardinality(Pairs)
  BY <1>2, FS_Subset, FS_CardinalityType
<1>6. QED
  BY <1>3, <1>4, <1>5, Zenon

(* A pair or a viewer less makes a count no larger.                        *)
LEMMA Fewer ==
    ASSUME NEW S, NEW T, S \subseteq T, T \in SUBSET Viewer \/ T \in SUBSET Pairs
    PROVE  Cardinality(S) \in Nat /\ Cardinality(T) \in Nat /\ Cardinality(S) <= Cardinality(T)
<1>1. IsFiniteSet(T) /\ Cardinality(T) \in Nat
  BY SetFacts
<1>2. IsFiniteSet(S) /\ Cardinality(S) <= Cardinality(T)
  BY <1>1, FS_Subset
<1>3. QED
  BY <1>1, <1>2, FS_CardinalityType

(* The rows on posts that are not deleted.                                 *)
LiveRows(rows, there) == {r \in rows : r[2] \in there}

LEMMA LiveIs ==
    Likes = Cardinality(LiveRows(likes, posts)) /\ Hides = Cardinality(LiveRows(hides, posts))
BY DEF Likes, Hides, LiveRows

LEMMA LiveFacts ==
    ASSUME NEW R \in SUBSET Pairs, NEW there
    PROVE  LiveRows(R, there) \in SUBSET R /\ LiveRows(R, there) \in SUBSET Pairs
BY DEF LiveRows

(* Counts of followers, accounts followed, likes, blocks and hides.        *)
Fits(f, g, l, b, h) ==
    /\ f \in Nat /\ g \in Nat /\ l \in Nat /\ b \in Nat /\ h \in Nat
    /\ f + l \in Counts /\ g \in Counts /\ b \in Counts /\ h \in Counts

LEMMA FitFacts ==
    ASSUME NEW F \in SUBSET Viewer, NEW G \in SUBSET Viewer, NEW B \in SUBSET Viewer,
           NEW L \in SUBSET Pairs, NEW H \in SUBSET Pairs
    PROVE  Fits(Cardinality(F), Cardinality(G), Cardinality(L), Cardinality(B), Cardinality(H))
<1> DEFINE n == Cardinality(Viewer)
           m == Cardinality(Pairs)
           f == Cardinality(F)
           g == Cardinality(G)
           b == Cardinality(B)
           l == Cardinality(L)
           h == Cardinality(H)
<1>1. n \in Nat /\ m \in Nat /\ Counts = 0..(n + m)
  BY SetFacts DEF Counts, Pairs
<1>2. f \in Nat /\ f <= n /\ g \in Nat /\ g <= n /\ b \in Nat /\ b <= n
  BY SetFacts
<1>3. l \in Nat /\ l <= m /\ h \in Nat /\ h <= m
  BY SetFacts
<1> HIDE DEF n, m, f, g, b, l, h
<1>4. Fits(f, g, l, b, h)
  BY <1>1, <1>2, <1>3, SMT DEF Fits
<1>5. QED
  BY <1>4 DEF f, g, b, l, h

LEMMA SignalFacts ==
    ASSUME TypeOK
    PROVE  /\ Fits(Cardinality(followers), Cardinality(following), Likes, Blocks, Hides)
           /\ Hides <= Cardinality(hides) /\ Cardinality(hides) \in Nat
<1>1. /\ followers \in SUBSET Viewer /\ following \in SUBSET Viewer
      /\ blockers \in SUBSET Viewer
      /\ likes \in SUBSET Pairs /\ hides \in SUBSET Pairs
  BY DEF TypeOK, Pairs
<1>2. /\ LiveRows(likes, posts) \in SUBSET Pairs
      /\ LiveRows(hides, posts) \in SUBSET Pairs /\ LiveRows(hides, posts) \subseteq hides
  BY <1>1, LiveFacts
<1>3. Fits(Cardinality(followers), Cardinality(following), Likes, Blocks, Hides)
  BY <1>1, <1>2, LiveIs, FitFacts DEF Blocks
<1>4. Hides <= Cardinality(hides) /\ Cardinality(hides) \in Nat
  BY <1>1, <1>2, LiveIs, Fewer
<1>5. QED
  BY <1>3, <1>4

LEMMA LogFacts ==
    /\ \A n \in Counts : Log1p[n] \in Nat
    /\ \A m, n \in Counts : m <= n => Log1p[m] <= Log1p[n]
    /\ Log1p[0] = 0 /\ \A n \in Counts : n <= 2 => Log1p[n] <= 1099
BY HealthAssumption

LEMMA FifthFacts ==
    \A m, n \in Nat : m \div 5 \in Nat /\ (m <= n => m \div 5 <= n \div 5)
BY SMT

(* The score, of logarithms p of what counts for, b of the blocks and h of *)
(* the hides against the account.                                          *)
Points(p, b, h) == Clip(50000 + 12 * p - (15 * (5 * b + 3 * h)) \div 2)

LEMMA ClipFacts ==
    /\ \A x \in Int : Clip(x) \in Int /\ 0 <= Clip(x) /\ Clip(x) <= MaxScore
    /\ \A x \in Int : x >= 25000 => Clip(x) >= 25000
    /\ \A x, y \in Int : x <= y => Clip(x) <= Clip(y)
BY SMT DEF Clip, MaxScore

LEMMA HalfFacts ==
    \A n \in Int : n \div 2 \in Int /\ 2 * (n \div 2) <= n /\ n <= 2 * (n \div 2) + 1
BY SMT

LEMMA PointsRange ==
    ASSUME NEW p \in Nat, NEW b \in Nat, NEW h \in Nat
    PROVE  /\ Points(p, b, h) \in Int
           /\ 0 <= Points(p, b, h) /\ Points(p, b, h) <= MaxScore
           /\ b = 0 /\ h <= 1099 => Points(p, b, h) >= 25000
<1> DEFINE n == 15 * (5 * b + 3 * h)
           x == 50000 + 12 * p - n \div 2
<1>1. n \in Int /\ (b = 0 /\ h <= 1099 => n <= 49455)
  BY SMT
<1>2. Points(p, b, h) = Clip(x)
  BY SMT DEF Points
<1> HIDE DEF n
<1>3. n \div 2 \in Int /\ (b = 0 /\ h <= 1099 => n \div 2 <= 24727)
  BY <1>1, HalfFacts, SMT
<1>4. x \in Int /\ (b = 0 /\ h <= 1099 => x >= 25000)
  BY <1>3, SMT
<1> HIDE DEF x
<1>5. QED
  BY <1>2, <1>4, ClipFacts, SMT

LEMMA PointsMonotone ==
    ASSUME NEW p \in Nat, NEW b \in Nat, NEW h \in Nat,
           NEW q \in Nat, NEW c \in Nat, NEW i \in Nat,
           p <= q, c <= b, i <= h
    PROVE  Points(p, b, h) <= Points(q, c, i)
<1> DEFINE n == 15 * (5 * b + 3 * h)
           m == 15 * (5 * c + 3 * i)
           x == 50000 + 12 * p - n \div 2
           y == 50000 + 12 * q - m \div 2
<1>1. n \in Int /\ m \in Int /\ m <= n
  BY SMT
<1>2. Points(p, b, h) = Clip(x) /\ Points(q, c, i) = Clip(y)
  BY SMT DEF Points
<1> HIDE DEF n, m
<1>3. n \div 2 \in Int /\ m \div 2 \in Int /\ m \div 2 <= n \div 2
  BY <1>1, HalfFacts, SMT
<1>4. x \in Int /\ y \in Int /\ x <= y
  BY <1>3, SMT
<1> HIDE DEF x, y
<1>5. QED
  BY <1>2, <1>4, ClipFacts, SMT

(* The score of given counts: the body of Cred.                            *)
PositiveOf(f, g, l) == Log1p[f + l] + Log1p[g] \div 5

CredOf(f, g, l, b, h) == Points(PositiveOf(f, g, l), Log1p[b], Log1p[h])

LEMMA CredIs ==
    Cred = CredOf(Cardinality(followers), Cardinality(following), Likes, Blocks, Hides)
BY DEF Cred, CredOf, Points, Positive, PositiveOf

(* It is in range; up to two hides alone do not make it count as spam.     *)
LEMMA CredRange ==
    ASSUME NEW f, NEW g, NEW l, NEW b, NEW h, Fits(f, g, l, b, h)
    PROVE  /\ CredOf(f, g, l, b, h) \in Int
           /\ 0 <= CredOf(f, g, l, b, h) /\ CredOf(f, g, l, b, h) <= MaxScore
           /\ b = 0 /\ h <= 2 => CredOf(f, g, l, b, h) >= 25000
<1> DEFINE x == PositiveOf(f, g, l)
           y == Log1p[b]
           z == Log1p[h]
<1>1. Log1p[f + l] \in Nat /\ Log1p[g] \in Nat /\ y \in Nat /\ z \in Nat
  BY LogFacts DEF Fits
<1>2. x \in Nat
  BY <1>1, FifthFacts, SMT DEF PositiveOf
<1>3. b = 0 => y = 0
  BY LogFacts
<1>4. h <= 2 => z <= 1099
  BY LogFacts DEF Fits
<1>5. CredOf(f, g, l, b, h) = Points(x, y, z)
  BY DEF CredOf
<1> HIDE DEF x, y, z
<1>6. /\ Points(x, y, z) \in Int
      /\ 0 <= Points(x, y, z) /\ Points(x, y, z) <= MaxScore
      /\ y = 0 /\ z <= 1099 => Points(x, y, z) >= 25000
  BY <1>1, <1>2, PointsRange, SMT
<1>7. QED
  BY <1>3, <1>4, <1>5, <1>6, SMT

(* Counts at least as good: no fewer that count for the account, no more   *)
(* that count against it.                                                  *)
Better(f1, g1, l1, b1, h1, f2, g2, l2, b2, h2) ==
    f1 <= f2 /\ g1 <= g2 /\ l1 <= l2 /\ b2 <= b1 /\ h2 <= h1

LEMMA CredMonotone ==
    ASSUME NEW f1, NEW g1, NEW l1, NEW b1, NEW h1, Fits(f1, g1, l1, b1, h1),
           NEW f2, NEW g2, NEW l2, NEW b2, NEW h2, Fits(f2, g2, l2, b2, h2),
           Better(f1, g1, l1, b1, h1, f2, g2, l2, b2, h2)
    PROVE  CredOf(f1, g1, l1, b1, h1) <= CredOf(f2, g2, l2, b2, h2)
<1>1. f1 + l1 <= f2 + l2
  BY SMT DEF Fits, Better
<1>2. /\ Log1p[f1 + l1] \in Nat /\ Log1p[f2 + l2] \in Nat
      /\ Log1p[g1] \in Nat /\ Log1p[g2] \in Nat
      /\ Log1p[b1] \in Nat /\ Log1p[b2] \in Nat
      /\ Log1p[h1] \in Nat /\ Log1p[h2] \in Nat
  BY LogFacts DEF Fits
<1>3. /\ Log1p[f1 + l1] <= Log1p[f2 + l2] /\ Log1p[g1] <= Log1p[g2]
      /\ Log1p[b2] <= Log1p[b1] /\ Log1p[h2] <= Log1p[h1]
  BY <1>1, LogFacts DEF Fits, Better
<1>4. /\ PositiveOf(f1, g1, l1) \in Nat /\ PositiveOf(f2, g2, l2) \in Nat
      /\ PositiveOf(f1, g1, l1) <= PositiveOf(f2, g2, l2)
  <2> DEFINE c == Log1p[g1] \div 5
             d == Log1p[g2] \div 5
  <2>1. c \in Nat /\ d \in Nat /\ c <= d
    BY <1>2, <1>3, FifthFacts
  <2>2. PositiveOf(f1, g1, l1) = Log1p[f1 + l1] + c /\ PositiveOf(f2, g2, l2) = Log1p[f2 + l2] + d
    BY DEF PositiveOf
  <2> HIDE DEF c, d
  <2>3. QED
    BY <1>2, <1>3, <2>1, <2>2, SMT
<1>5. QED
  BY <1>2, <1>3, <1>4, PointsMonotone, Zenon DEF CredOf

(* Spammy in the same terms.                                               *)
SpammyOf(f, g, l, b, h) ==
    \/ /\ b + h >= 3
       /\ \/ 100 * b >= 35 * AtLeastOne(f)
          \/ 2 * h >= AtLeastOne(l + h)
    \/ CredOf(f, g, l, b, h) < 25000

LEMMA SpammyIs ==
    Spammy <=> SpammyOf(Cardinality(followers), Cardinality(following), Likes, Blocks, Hides)
BY CredIs DEF Spammy, SpammyOf

LEMMA SpammyMonotone ==
    ASSUME NEW f1, NEW g1, NEW l1, NEW b1, NEW h1, Fits(f1, g1, l1, b1, h1),
           NEW f2, NEW g2, NEW l2, NEW b2, NEW h2, Fits(f2, g2, l2, b2, h2),
           Better(f1, g1, l1, b1, h1, f2, g2, l2, b2, h2),
           SpammyOf(f2, g2, l2, b2, h2)
    PROVE  SpammyOf(f1, g1, l1, b1, h1)
<1>1. CredOf(f1, g1, l1, b1, h1) <= CredOf(f2, g2, l2, b2, h2)
  BY CredMonotone
<1>2. CredOf(f1, g1, l1, b1, h1) \in Int /\ CredOf(f2, g2, l2, b2, h2) \in Int
  BY CredRange, SMT
<1>3. /\ f1 \in Nat /\ l1 \in Nat /\ b1 \in Nat /\ h1 \in Nat
      /\ f2 \in Nat /\ l2 \in Nat /\ b2 \in Nat /\ h2 \in Nat
      /\ f1 <= f2 /\ l1 <= l2 /\ b2 <= b1 /\ h2 <= h1
  BY DEF Fits, Better
<1>4. CASE CredOf(f2, g2, l2, b2, h2) < 25000
  BY <1>1, <1>2, <1>4, SMT DEF SpammyOf
<1>5. CASE b2 + h2 >= 3 /\ 100 * b2 >= 35 * AtLeastOne(f2)
  <2>1. AtLeastOne(f1) <= AtLeastOne(f2) /\ AtLeastOne(f1) \in Nat /\ AtLeastOne(f2) \in Nat
    BY <1>3, SMT DEF AtLeastOne
  <2>2. b1 + h1 >= 3 /\ 100 * b1 >= 35 * AtLeastOne(f1)
    BY <1>3, <1>5, <2>1, SMT
  <2>3. QED
    BY <2>2 DEF SpammyOf
<1>6. CASE b2 + h2 >= 3 /\ 2 * h2 >= AtLeastOne(l2 + h2)
  <2>1. 2 * h1 >= AtLeastOne(l1 + h1)
    BY <1>3, <1>6, SMT DEF AtLeastOne
  <2>2. b1 + h1 >= 3
    BY <1>3, <1>6, SMT
  <2>3. QED
    BY <2>1, <2>2 DEF SpammyOf
<1>7. \/ CredOf(f2, g2, l2, b2, h2) < 25000
      \/ b2 + h2 >= 3 /\ 100 * b2 >= 35 * AtLeastOne(f2)
      \/ b2 + h2 >= 3 /\ 2 * h2 >= AtLeastOne(l2 + h2)
  BY DEF SpammyOf
<1>8. QED
  BY <1>4, <1>5, <1>6, <1>7

(* It takes a block or three hides.                                        *)
LEMMA SpammyNeedsPressure ==
    ASSUME TypeOK, PressureSeen, Spammy
    PROVE  pressure
<1>1. /\ Fits(Cardinality(followers), Cardinality(following), Likes, Blocks, Hides)
      /\ Hides <= Cardinality(hides) /\ Cardinality(hides) \in Nat
  BY SignalFacts
<1>2. Blocks \in Nat /\ Hides \in Nat
  BY <1>1 DEF Fits
<1>3. CASE Blocks # 0
  <2>1. blockers # {}
    BY <1>3, FS_EmptySet DEF Blocks
  <2>2. QED
    BY <2>1 DEF PressureSeen
<1>4. CASE Hides >= 3
  <2>1. Cardinality(hides) >= 3
    BY <1>1, <1>2, <1>4
  <2>2. QED
    BY <2>1 DEF PressureSeen
<1>5. CASE Blocks = 0 /\ Hides <= 2
  <2> DEFINE c == CredOf(Cardinality(followers), Cardinality(following), Likes, Blocks, Hides)
  <2>1. c >= 25000 /\ c \in Int
    BY <1>1, <1>5, CredRange
  <2>2. ~(Blocks + Hides >= 3)
    BY <1>2, <1>5, SMT
  <2> HIDE DEF c
  <2>3. ~(c < 25000)
    BY <2>1, SMT
  <2>4. QED
    BY <2>2, <2>3, SpammyIs DEF SpammyOf, c
<1>6. Blocks # 0 \/ Hides >= 3 \/ (Blocks = 0 /\ Hides <= 2)
  BY <1>2
<1>7. QED
  BY <1>3, <1>4, <1>5, <1>6, Zenon

--------------------------------------------------------------------------------
(* The shapes of the steps                                                 *)

(* A block or a hide is committed.                                         *)
Harms ==
    \/ \E v \in Viewer, p \in Post : Hide(v, p)
    \/ \E j \in jobs : Block(j)

(* Something else changes, and is recomputed by nobody.                    *)
Easings ==
    \/ \E v \in Viewer :
          Unblock(v) \/ Follow(v) \/ Unfollow(v) \/ FollowBack(v) \/ UnfollowBack(v)
    \/ \E v \in Viewer, p \in Post : Like(v, p)
    \/ \E r \in hides : Unhide(r)
    \/ \E r \in likes : Unlike(r)
    \/ \E p \in Post : DeletePost(p)

SignalsInRange ==
    /\ followers \subseteq Viewer /\ following \subseteq Viewer /\ blockers \subseteq Viewer
    /\ likes \subseteq Pairs /\ hides \subseteq Pairs /\ posts \subseteq Post

LEMMA HarmSignals ==
    ASSUME TypeOK, PressureSeen, Harms
    PROVE  SignalsInRange' /\ PressureSeen' /\ pressure' \in BOOLEAN /\ (pressure => pressure')
<1>1. SignalsInRange /\ pressure \in BOOLEAN
  BY DEF TypeOK, SignalsInRange, Pairs
<1>2. ASSUME NEW v \in Viewer, NEW p \in Post, Hide(v, p)
      PROVE  SignalsInRange' /\ PressureSeen' /\ pressure' \in BOOLEAN /\ (pressure => pressure')
  <2>1. /\ hides' = hides \cup {<<v, p>>}
        /\ UNCHANGED <<followers, following, blockers, likes, posts>>
    BY <1>2 DEF Hide
  <2>2. pressure' = (pressure \/ Cardinality(hides') >= 3)
    BY <1>2 DEF Hide
  <2>3. <<v, p>> \in Pairs
    BY DEF Pairs
  <2>4. SignalsInRange'
    BY <1>1, <2>1, <2>3 DEF SignalsInRange
  <2>5. PressureSeen'
    BY <2>1, <2>2, Zenon DEF PressureSeen
  <2>6. pressure' \in BOOLEAN /\ (pressure => pressure')
    BY <2>2, Zenon
  <2>7. QED
    BY <2>4, <2>5, <2>6
<1>3. ASSUME NEW j \in jobs, Block(j)
      PROVE  SignalsInRange' /\ PressureSeen' /\ pressure' \in BOOLEAN /\ (pressure => pressure')
  <2>1. /\ followers' \subseteq followers /\ following' \subseteq following
        /\ blockers' = blockers \cup {j.by} /\ j.phase = "asked"
        /\ UNCHANGED <<likes, hides, posts>>
    BY <1>3 DEF Block
  <2>2. j.by \in Viewer
    BY <2>1 DEF TypeOK
  <2>3. SignalsInRange'
    BY <1>1, <2>1, <2>2 DEF SignalsInRange
  <2>4. pressure' = TRUE
    BY <1>3, Zenon DEF Block
  <2>5. PressureSeen'
    BY <2>4, Zenon DEF PressureSeen
  <2>6. pressure' \in BOOLEAN /\ (pressure => pressure')
    BY <2>4, Zenon
  <2>7. QED
    BY <2>3, <2>5, <2>6
<1>4. QED
  BY <1>2, <1>3 DEF Harms

LEMMA EasingSignals ==
    ASSUME TypeOK, PressureSeen, Easings
    PROVE  SignalsInRange' /\ PressureSeen' /\ UNCHANGED pressure
<1>1. SignalsInRange
  BY DEF TypeOK, SignalsInRange, Pairs
<1>2. UNCHANGED pressure
  BY Zenon DEF Easings, Unblock, Follow, Unfollow, FollowBack, UnfollowBack, Like, Unhide,
               Unlike, DeletePost, Quietly
<1>3. blockers' \subseteq blockers /\ hides' \subseteq hides
  BY DEF Easings, Unblock, Follow, Unfollow, FollowBack, UnfollowBack, Like, Unhide,
         Unlike, DeletePost
<1>4. SignalsInRange'
  <2>1. followers' \subseteq Viewer /\ following' \subseteq Viewer
    BY <1>1 DEF SignalsInRange, Easings, Unblock, Follow, Unfollow, FollowBack, UnfollowBack,
                Like, Unhide, Unlike, DeletePost
  <2>2. likes' \subseteq Pairs
    <3>1. \A v \in Viewer, p \in Post : <<v, p>> \in Pairs
      BY DEF Pairs
    <3>2. likes' \subseteq likes \/ \E v \in Viewer, p \in Post : likes' = likes \cup {<<v, p>>}
      BY DEF Easings, Unblock, Follow, Unfollow, FollowBack, UnfollowBack, Like, Unhide,
             Unlike, DeletePost
    <3>3. QED
      BY <1>1, <3>1, <3>2 DEF SignalsInRange
  <2>3. posts' \subseteq Post
    BY <1>1 DEF SignalsInRange, Easings, Unblock, Follow, Unfollow, FollowBack, UnfollowBack,
                Like, Unhide, Unlike, DeletePost
  <2>4. QED
    BY <1>1, <1>3, <2>1, <2>2, <2>3 DEF SignalsInRange
<1>5. PressureSeen'
  <2>1. hides \in SUBSET Pairs
    BY <1>1 DEF SignalsInRange
  <2>2. /\ Cardinality(hides') \in Nat /\ Cardinality(hides) \in Nat
        /\ Cardinality(hides') <= Cardinality(hides)
    BY <1>3, <2>1, Fewer
  <2>3. Cardinality(hides') >= 3 => Cardinality(hides) >= 3
    BY <2>2
  <2>4. blockers' # {} => blockers # {}
    BY <1>3
  <2>5. QED
    BY <1>2, <2>3, <2>4 DEF PressureSeen
<1>6. QED
  BY <1>2, <1>4, <1>5

(* What takes a block or a hide back, or adds a like or a follow, makes no *)
(* account spammy.                                                         *)
LEMMA EasingEases ==
    ASSUME TypeOK, SignalsInRange', UNCHANGED posts,
           followers \subseteq followers', following \subseteq following',
           likes \subseteq likes',
           blockers' \subseteq blockers, hides' \subseteq hides,
           Spammy'
    PROVE  Spammy
<1> DEFINE f == Cardinality(followers)
           g == Cardinality(following)
<1>1. /\ blockers \in SUBSET Viewer /\ hides \in SUBSET Pairs
      /\ followers \in SUBSET Viewer /\ following \in SUBSET Viewer
      /\ followers' \in SUBSET Viewer /\ following' \in SUBSET Viewer
      /\ blockers' \in SUBSET Viewer
      /\ likes' \in SUBSET Pairs /\ hides' \in SUBSET Pairs
  BY DEF TypeOK, SignalsInRange, Pairs
<1>2. f <= f' /\ g <= g' /\ Blocks' <= Blocks
  BY <1>1, Fewer DEF Blocks
<1>3. Likes <= Likes'
  <2>1. LiveRows(likes, posts) \subseteq LiveRows(likes', posts)
    BY DEF LiveRows
  <2>2. LiveRows(likes', posts) \in SUBSET Pairs
    BY <1>1, LiveFacts
  <2>3. Likes' = Cardinality(LiveRows(likes', posts))
    BY DEF Likes, LiveRows
  <2>4. QED
    BY <2>1, <2>2, <2>3, LiveIs, Fewer
<1>4. Hides' <= Hides
  <2>1. LiveRows(hides', posts) \subseteq LiveRows(hides, posts)
    BY DEF LiveRows
  <2>2. LiveRows(hides, posts) \in SUBSET Pairs
    BY <1>1, LiveFacts
  <2>3. Hides' = Cardinality(LiveRows(hides', posts))
    BY DEF Hides, LiveRows
  <2>4. QED
    BY <2>1, <2>2, <2>3, LiveIs, Fewer
<1>5. Fits(f, g, Likes, Blocks, Hides)
  BY SignalFacts
<1>6. Fits(f', g', Likes', Blocks', Hides')
  <2>1. LiveRows(likes', posts) \in SUBSET Pairs /\ LiveRows(hides', posts) \in SUBSET Pairs
    BY <1>1, LiveFacts
  <2>2. Likes' = Cardinality(LiveRows(likes', posts)) /\ Hides' = Cardinality(LiveRows(hides', posts))
    BY DEF Likes, Hides, LiveRows
  <2>3. QED
    BY <1>1, <2>1, <2>2, FitFacts DEF Blocks
<1>7. SpammyOf(f', g', Likes', Blocks', Hides')
  BY DEF Spammy, SpammyOf, Cred, CredOf, Points, Positive, PositiveOf
<1>8. Better(f, g, Likes, Blocks, Hides, f', g', Likes', Blocks', Hides')
  BY <1>2, <1>3, <1>4 DEF Better
<1> HIDE DEF f, g
<1>9. SpammyOf(f, g, Likes, Blocks, Hides)
  BY <1>5, <1>6, <1>7, <1>8, SpammyMonotone
<1>10. QED
  BY <1>9, SpammyIs DEF f, g

(* Of the steps that change signals, what the rest of the state sees.      *)
LEMMA HarmsFacts ==
    ASSUME TypeOK, OneAtATime, Harms
    PROVE  \E k, J :
              /\ k.op \in {"block", "hide"} /\ k.phase = "due"
              /\ k.loaded \in Scores \cup {-1}
              /\ J \subseteq jobs /\ jobs' = J \cup {k}
              /\ overlap' \in BOOLEAN
              /\ ~overlap' => J = {} /\ (k.op = "hide" \/ k.loaded = score)
              /\ drift' = {}
              /\ changes' = changes + 1 /\ changes < MaxChanges
              /\ UNCHANGED <<score, labels, visits, lost>>
<1>1. ASSUME NEW v \in Viewer, NEW p \in Post, Hide(v, p)
      PROVE  \E k, J :
              /\ k.op \in {"block", "hide"} /\ k.phase = "due"
              /\ k.loaded \in Scores \cup {-1}
              /\ J \subseteq jobs /\ jobs' = J \cup {k}
              /\ overlap' \in BOOLEAN
              /\ ~overlap' => J = {} /\ (k.op = "hide" \/ k.loaded = score)
              /\ drift' = {}
              /\ changes' = changes + 1 /\ changes < MaxChanges
              /\ UNCHANGED <<score, labels, visits, lost>>
  <2> DEFINE k == Due(FreeId, "hide", -1)
  <2>1. k.op = "hide" /\ k.phase = "due" /\ k.loaded = -1
    BY DEF Due
  <2>2. /\ jobs' = jobs \cup {k}
        /\ drift' = {}
        /\ changes' = changes + 1 /\ changes < MaxChanges
        /\ UNCHANGED <<score, labels, visits, lost>>
    BY <1>1 DEF Hide, Harm, Change, Enter, health
  <2>3. overlap' = (overlap \/ jobs # {})
    BY <1>1 DEF Hide, Enter
  <2> HIDE DEF k
  <2>4. overlap' \in BOOLEAN /\ (~overlap' => jobs = {})
    BY <2>3, Zenon
  <2>5. QED
    BY <2>1, <2>2, <2>4
<1>2. ASSUME NEW j \in jobs, Block(j)
      PROVE  \E k, J :
              /\ k.op \in {"block", "hide"} /\ k.phase = "due"
              /\ k.loaded \in Scores \cup {-1}
              /\ J \subseteq jobs /\ jobs' = J \cup {k}
              /\ overlap' \in BOOLEAN
              /\ ~overlap' => J = {} /\ (k.op = "hide" \/ k.loaded = score)
              /\ drift' = {}
              /\ changes' = changes + 1 /\ changes < MaxChanges
              /\ UNCHANGED <<score, labels, visits, lost>>
  <2> DEFINE k == Due(j.id, "block", j.loaded)
             J == jobs \ {j}
  <2>1. k.op = "block" /\ k.phase = "due" /\ k.loaded = j.loaded
    BY DEF Due
  <2>2. /\ jobs' = J \cup {k} /\ J \subseteq jobs
        /\ drift' = {} /\ j.phase = "asked"
        /\ changes' = changes + 1 /\ changes < MaxChanges
        /\ UNCHANGED <<score, labels, visits, lost>>
    BY <1>2 DEF Block, Harm, Change, health
  <2>3. UNCHANGED overlap
    BY <1>2 DEF Block
  <2>4. overlap' \in BOOLEAN
    BY <2>3, Zenon DEF TypeOK
  <2>5. j.loaded \in Scores \cup {-1}
    BY DEF TypeOK
  <2>6. ~overlap' => J = {} /\ j.loaded = score
    BY <2>2, <2>3 DEF OneAtATime
  <2> HIDE DEF k, J
  <2>7. QED
    BY <2>1, <2>2, <2>4, <2>5, <2>6
<1>3. QED
  BY <1>1, <1>2 DEF Harms

LEMMA EasesFacts ==
    ASSUME TypeOK, PressureSeen, Easings
    PROVE  /\ drift' \subseteq {"better", "worse"} /\ drift' # {} /\ drift \subseteq drift'
           /\ "worse" \notin drift' => (Spammy' => Spammy)
           /\ changes' = changes + 1 /\ changes < MaxChanges
           /\ UNCHANGED <<score, labels, jobs, visits, lost, overlap>>
<1>1. \E kinds \in SUBSET {"better", "worse"} : Quietly(kinds) /\ kinds # {}
  <2>1. /\ {"better"} \in SUBSET {"better", "worse"} /\ {"better"} # {}
        /\ {"worse"} \in SUBSET {"better", "worse"} /\ {"worse"} # {}
        /\ {"better", "worse"} \in SUBSET {"better", "worse"} /\ {"better", "worse"} # {}
    OBVIOUS
  <2>2. Quietly({"better"}) \/ Quietly({"worse"}) \/ Quietly({"better", "worse"})
    BY Zenon DEF Easings, Unblock, Follow, Unfollow, FollowBack, UnfollowBack, Like, Unhide,
                 Unlike, DeletePost
  <2>3. QED
    BY <2>1, <2>2, Zenon
<1>2. /\ drift' \subseteq {"better", "worse"} /\ drift' # {} /\ drift \subseteq drift'
      /\ changes' = changes + 1 /\ changes < MaxChanges
      /\ UNCHANGED <<score, labels, jobs, visits, lost, overlap>>
  BY <1>1 DEF Quietly, Change, health, TypeOK
<1>3. SignalsInRange'
  BY EasingSignals
<1>4. \/ "worse" \in drift'
      \/ /\ UNCHANGED posts
         /\ followers \subseteq followers' /\ following \subseteq following'
         /\ likes \subseteq likes'
         /\ blockers' \subseteq blockers /\ hides' \subseteq hides
  <2>1. ASSUME NEW v \in Viewer,
               Unblock(v) \/ Follow(v) \/ FollowBack(v) \/ (\E p \in Post : Like(v, p))
                 \/ (\E r \in hides : Unhide(r))
        PROVE  /\ UNCHANGED posts
               /\ followers \subseteq followers' /\ following \subseteq following'
               /\ likes \subseteq likes'
               /\ blockers' \subseteq blockers /\ hides' \subseteq hides
    BY <2>1 DEF Unblock, Follow, FollowBack, Like, Unhide
  <2>2. ASSUME NEW r \in hides, Unhide(r)
        PROVE  /\ UNCHANGED posts
               /\ followers \subseteq followers' /\ following \subseteq following'
               /\ likes \subseteq likes'
               /\ blockers' \subseteq blockers /\ hides' \subseteq hides
    BY <2>2 DEF Unhide
  <2>3. ASSUME \/ \E v \in Viewer : Unfollow(v) \/ UnfollowBack(v)
               \/ \E r \in likes : Unlike(r)
               \/ \E p \in Post : DeletePost(p)
        PROVE  "worse" \in drift'
    BY <2>3 DEF Unfollow, UnfollowBack, Unlike, DeletePost, Quietly
  <2>4. QED
    BY <2>1, <2>2, <2>3 DEF Easings
<1>5. "worse" \notin drift' => (Spammy' => Spammy)
  BY <1>3, <1>4, EasingEases
<1>6. QED
  BY <1>2, <1>5

(* While the signals stay the same, so does what is computed from them.    *)
LEMMA SameScore ==
    ASSUME UNCHANGED signals
    PROVE  Cred' = Cred /\ (Spammy' <=> Spammy)
<1>1. UNCHANGED <<followers, following, blockers, likes, hides, posts>>
  BY DEF signals
<1>2. /\ Likes' = Likes /\ Hides' = Hides /\ Blocks' = Blocks
      /\ Positive' = Positive
  BY <1>1 DEF Likes, Hides, Blocks, Positive
<1>3. Cred' = Cred
  BY <1>1, <1>2, SMT DEF Cred
<1>4. QED
  BY <1>1, <1>2, <1>3, SMT DEF Spammy

(* What Clip returns is a score.                                           *)
LEMMA ScoreRange ==
    ASSUME NEW x \in Int, 0 <= x, x <= MaxScore
    PROVE  x \in Scores
<1>1. MaxScore \in Int
  BY SMT DEF MaxScore
<1>2. QED
  BY <1>1, SMT DEF Scores

(* The score is in its range, and a low one makes the account spammy.      *)
LEMMA ScoreFacts ==
    ASSUME TypeOK
    PROVE  Cred \in Scores /\ (Cred < 25000 => Spammy)
<1>1. Fits(Cardinality(followers), Cardinality(following), Likes, Blocks, Hides)
  BY SignalFacts
<1>2. Cred \in Int /\ 0 <= Cred /\ Cred <= MaxScore
  BY <1>1, CredIs, CredRange
<1>3. Cred \in Scores
  BY <1>2, ScoreRange, Zenon
<1>4. Cred < 25000 => Spammy
  BY SMT DEF Spammy
<1>5. QED
  BY <1>3, <1>4

(* The job as it was, and as it has counted.                               *)
LEMMA CountFactsOfJob ==
    ASSUME TypeOK, NEW j \in jobs, Count(j)
    PROVE  \E k : /\ k.op = j.op /\ k.phase = "counted"
                  /\ k.loaded = (IF j.op = "hide" THEN score ELSE j.loaded)
                  /\ k.cred = Cred /\ k.spammy = Spammy
                  /\ j.phase = "due"
                  /\ jobs' = (jobs \ {j}) \cup {k}
                  /\ ~lost'
                  /\ UNCHANGED <<score, labels, changes, visits, drift, overlap, pressure>>
<1> DEFINE k == [id |-> j.id, op |-> j.op, phase |-> "counted",
                 loaded |-> IF j.op = "hide" THEN score ELSE j.loaded,
                 cred |-> Cred, spammy |-> Spammy, present |-> labels]
<1>1. /\ k.op = j.op /\ k.phase = "counted"
      /\ k.loaded = (IF j.op = "hide" THEN score ELSE j.loaded)
      /\ k.cred = Cred /\ k.spammy = Spammy
  OBVIOUS
<1>2. jobs' = (jobs \ {j}) \cup {k}
  BY DEF Count
<1>3. /\ j.phase = "due" /\ ~lost'
      /\ UNCHANGED <<score, labels, changes, visits, drift, overlap, pressure>>
  BY DEF Count, health
<1> HIDE DEF k
<1>4. QED
  BY <1>1, <1>2, <1>3

--------------------------------------------------------------------------------
(* The steps                                                               *)

JobOK(j) ==
    /\ j.op \in {"block", "hide", "look"}
    /\ j.phase \in {"asked", "due", "counted"}
    /\ j.loaded \in Scores \cup {-1}
    /\ j.phase = "asked" => j.by \in Viewer

LEMMA HarmsKeep ==
    ASSUME IInv, Harms
    PROVE  IInv'
<1> USE DEF IInv
<1>1. PICK k, J :
          /\ k.op \in {"block", "hide"} /\ k.phase = "due"
          /\ k.loaded \in Scores \cup {-1}
          /\ J \subseteq jobs /\ jobs' = J \cup {k}
          /\ overlap' \in BOOLEAN
          /\ ~overlap' => J = {} /\ (k.op = "hide" \/ k.loaded = score)
          /\ drift' = {}
          /\ changes' = changes + 1 /\ changes < MaxChanges
          /\ UNCHANGED <<score, labels, visits, lost>>
  BY HarmsFacts
<1>2. SignalsInRange' /\ PressureSeen' /\ pressure' \in BOOLEAN /\ (pressure => pressure')
  BY HarmSignals
<1>3. TypeOK'
  <2>1. \A j \in jobs' : JobOK(j)
    BY <1>1 DEF TypeOK, JobOK
  <2>2. score' \in Scores /\ labels' \subseteq HealthLabels /\ drift' \subseteq {"better", "worse"}
    BY <1>1 DEF TypeOK
  <2>3. changes' \in 0..MaxChanges /\ visits' \in 0..MaxRefreshes
    BY <1>1, HealthAssumption, SMT DEF TypeOK
  <2>4. lost' \in BOOLEAN
    BY <1>1, Zenon DEF TypeOK
  <2>5. QED
    BY <1>1, <1>2, <2>1, <2>2, <2>3, <2>4 DEF TypeOK, JobOK, SignalsInRange, Pairs
<1>4. CountedOK'
  BY <1>1, <1>2, SMT DEF CountedOK
<1>5. SpammerWatched'
  BY <1>1 DEF SpammerWatched
<1>6. OneAtATime'
  <2>1. SUFFICES ASSUME ~overlap' PROVE OneAtATime'
    BY DEF OneAtATime
  <2>2. jobs' = {k} /\ (k.op = "hide" \/ k.loaded = score') /\ k.phase = "due"
    BY <1>1, <2>1
  <2>3. QED
    BY <2>2 DEF OneAtATime, AtRest
<1>7. LowScoreLabelled' /\ LabelNeedsPressure'
  BY <1>1, <1>2 DEF LowScoreLabelled, LabelNeedsPressure, HealthLabels
<1>8. QED
  BY <1>2, <1>3, <1>4, <1>5, <1>6, <1>7

LEMMA EasesKeep ==
    ASSUME IInv, Easings
    PROVE  IInv'
<1> USE DEF IInv
<1>1. /\ drift' \subseteq {"better", "worse"} /\ drift' # {} /\ drift \subseteq drift'
      /\ "worse" \notin drift' => (Spammy' => Spammy)
      /\ changes' = changes + 1 /\ changes < MaxChanges
      /\ UNCHANGED <<score, labels, jobs, visits, lost, overlap>>
  BY EasesFacts
<1>2. SignalsInRange' /\ PressureSeen' /\ UNCHANGED pressure
  BY EasingSignals
<1>3. TypeOK'
  <2>1. \A k \in jobs' : JobOK(k)
    BY <1>1 DEF TypeOK, JobOK
  <2>2. score' \in Scores /\ labels' \subseteq HealthLabels
    BY <1>1 DEF TypeOK
  <2>3. changes' \in 0..MaxChanges /\ visits' \in 0..MaxRefreshes
    BY <1>1, HealthAssumption, SMT DEF TypeOK
  <2>4. lost' \in BOOLEAN /\ overlap' \in BOOLEAN /\ pressure' \in BOOLEAN
    BY <1>1, <1>2, Zenon DEF TypeOK
  <2>5. QED
    BY <1>1, <1>2, <2>1, <2>2, <2>3, <2>4 DEF TypeOK, JobOK, SignalsInRange, Pairs
<1>4. CountedOK'
  BY <1>1, <1>2, SMT DEF CountedOK
<1>5. SpammerWatched'
  BY <1>1 DEF SpammerWatched
<1>6. OneAtATime'
  BY <1>1 DEF OneAtATime, AtRest
<1>7. LowScoreLabelled' /\ LabelNeedsPressure'
  BY <1>1, <1>2 DEF LowScoreLabelled, LabelNeedsPressure, HealthLabels
<1>8. QED
  BY <1>2, <1>3, <1>4, <1>5, <1>6, <1>7

(* A request that reads the score before it blocks or recomputes.          *)
Entering ==
    \/ LookUnderTheHood
    \/ \E v \in Viewer : AskBlock(v)

LEMMA EnterFacts ==
    ASSUME TypeOK, Entering
    PROVE  \E k :
              /\ JobOK(k) /\ k.op # "hide" /\ k.phase \in {"asked", "due"} /\ k.loaded = score
              /\ jobs' = jobs \cup {k}
              /\ overlap' \in BOOLEAN /\ (~overlap' => ~overlap /\ jobs = {})
              /\ visits' \in 0..MaxRefreshes
              /\ UNCHANGED signals
              /\ UNCHANGED <<score, labels, changes, drift, lost, pressure>>
<1>1. score \in Scores \cup {-1}
  BY DEF TypeOK
<1>2. CASE LookUnderTheHood
  <2> DEFINE k == Due(FreeId, "look", score)
  <2>1. k.op = "look" /\ k.phase = "due" /\ k.loaded = score
    BY DEF Due
  <2>2. /\ jobs' = jobs \cup {k}
        /\ visits' = visits + 1 /\ visits < MaxRefreshes
        /\ UNCHANGED signals
        /\ UNCHANGED <<score, labels, changes, drift, lost, pressure>>
    BY <1>2 DEF LookUnderTheHood, Enter, Visit, health
  <2>3. overlap' = (overlap \/ jobs # {})
    BY <1>2 DEF LookUnderTheHood, Enter
  <2> HIDE DEF k
  <2>4. visits' \in 0..MaxRefreshes
    BY <2>2, HealthAssumption, SMT DEF TypeOK
  <2>5. overlap' \in BOOLEAN /\ (~overlap' => ~overlap /\ jobs = {})
    BY <2>3, Zenon
  <2>6. JobOK(k)
    BY <1>1, <2>1 DEF JobOK
  <2>7. QED
    BY <2>1, <2>2, <2>4, <2>5, <2>6
<1>3. ASSUME NEW v \in Viewer, AskBlock(v)
      PROVE  \E k :
              /\ JobOK(k) /\ k.op # "hide" /\ k.phase \in {"asked", "due"} /\ k.loaded = score
              /\ jobs' = jobs \cup {k}
              /\ overlap' \in BOOLEAN /\ (~overlap' => ~overlap /\ jobs = {})
              /\ visits' \in 0..MaxRefreshes
              /\ UNCHANGED signals
              /\ UNCHANGED <<score, labels, changes, drift, lost, pressure>>
  <2> DEFINE k == [id |-> FreeId, op |-> "block", phase |-> "asked", loaded |-> score, by |-> v]
  <2>1. k.op = "block" /\ k.phase = "asked" /\ k.loaded = score /\ k.by = v
    OBVIOUS
  <2>2. /\ jobs' = jobs \cup {k}
        /\ visits' = visits
        /\ UNCHANGED signals
        /\ UNCHANGED <<score, labels, changes, drift, lost, pressure>>
    BY <1>3 DEF AskBlock, Enter, health
  <2>3. overlap' = (overlap \/ jobs # {})
    BY <1>3 DEF AskBlock, Enter
  <2> HIDE DEF k
  <2>4. visits' \in 0..MaxRefreshes
    BY <2>2 DEF TypeOK
  <2>5. overlap' \in BOOLEAN /\ (~overlap' => ~overlap /\ jobs = {})
    BY <2>3, Zenon
  <2>6. JobOK(k)
    BY <1>1, <2>1 DEF JobOK
  <2>7. QED
    BY <2>1, <2>2, <2>4, <2>5, <2>6
<1>4. QED
  BY <1>2, <1>3 DEF Entering

LEMMA EnterKeeps ==
    ASSUME IInv, Entering
    PROVE  IInv'
<1> USE DEF IInv
<1>1. PICK k :
          /\ JobOK(k) /\ k.op # "hide" /\ k.phase \in {"asked", "due"} /\ k.loaded = score
          /\ jobs' = jobs \cup {k}
          /\ overlap' \in BOOLEAN /\ (~overlap' => ~overlap /\ jobs = {})
          /\ visits' \in 0..MaxRefreshes
          /\ UNCHANGED signals
          /\ UNCHANGED <<score, labels, changes, drift, lost, pressure>>
  BY EnterFacts
<1>2. UNCHANGED <<followers, following, blockers, likes, hides, posts>>
  BY <1>1 DEF signals
<1>3. Cred' = Cred /\ (Spammy' <=> Spammy)
  BY <1>1, SameScore
<1>4. TypeOK'
  <2>1. \A j \in jobs' : JobOK(j)
    BY <1>1 DEF TypeOK, JobOK
  <2>2. lost' \in BOOLEAN /\ pressure' \in BOOLEAN
    BY <1>1, Zenon DEF TypeOK
  <2>3. QED
    BY <1>1, <1>2, <2>1, <2>2 DEF TypeOK, JobOK
<1>5. PressureSeen'
  BY <1>1, <1>2 DEF PressureSeen
<1>6. CountedOK'
  BY <1>1, SMT DEF CountedOK
<1>7. SpammerWatched'
  BY <1>1, <1>3 DEF SpammerWatched
<1>8. OneAtATime'
  <2>1. SUFFICES ASSUME ~overlap' PROVE OneAtATime'
    BY DEF OneAtATime
  <2>2. jobs = {} /\ jobs' = {k} /\ k.loaded = score' /\ k.phase # "counted" /\ k.op # "hide"
    BY <1>1, <2>1
  <2>3. ~lost /\ drift = {} => score = Cred
    BY <1>1, <2>1, <2>2 DEF OneAtATime, AtRest
  <2>4. QED
    BY <1>1, <1>3, <2>2, <2>3 DEF OneAtATime
<1>9. LowScoreLabelled' /\ LabelNeedsPressure'
  BY <1>1 DEF LowScoreLabelled, LabelNeedsPressure, HealthLabels
<1>10. QED
  BY <1>4, <1>5, <1>6, <1>7, <1>8, <1>9

LEMMA ModeratorKeeps ==
    ASSUME IInv, NEW l \in HealthLabels, ModeratorLabels(l)
    PROVE  IInv'
<1> USE DEF IInv
<1>1. /\ labels' = labels \cup {l} /\ pressure' = TRUE
      /\ visits' = visits + 1 /\ visits < MaxRefreshes
      /\ UNCHANGED signals
      /\ UNCHANGED <<score, jobs, changes, drift, lost, overlap>>
  BY DEF ModeratorLabels, Visit
<1>2. UNCHANGED <<followers, following, blockers, likes, hides, posts>>
  BY <1>1 DEF signals
<1>3. Cred' = Cred /\ (Spammy' <=> Spammy)
  BY <1>1, SameScore
<1>4. labels' \subseteq HealthLabels /\ (labels = HealthLabels => labels' = HealthLabels)
  BY <1>1 DEF TypeOK
<1>5. TypeOK'
  <2>1. \A k \in jobs' : JobOK(k)
    BY <1>1 DEF TypeOK, JobOK
  <2>2. changes' \in 0..MaxChanges /\ visits' \in 0..MaxRefreshes
    BY <1>1, HealthAssumption, SMT DEF TypeOK
  <2>3. /\ lost' \in BOOLEAN /\ overlap' \in BOOLEAN
        /\ pressure' \in BOOLEAN
    BY <1>1, <1>2, Zenon DEF TypeOK
  <2>4. QED
    BY <1>1, <1>2, <1>4, <2>1, <2>2, <2>3 DEF TypeOK, JobOK
<1>6. PressureSeen' /\ LabelNeedsPressure'
  BY <1>1 DEF PressureSeen, LabelNeedsPressure
<1>7. CountedOK'
  BY <1>1, SMT DEF CountedOK
<1>8. SpammerWatched'
  BY <1>1, <1>3, <1>4 DEF SpammerWatched
<1>9. OneAtATime'
  BY <1>1, <1>3 DEF OneAtATime, AtRest
<1>10. LowScoreLabelled'
  BY <1>1, <1>4 DEF LowScoreLabelled
<1>11. QED
  BY <1>5, <1>6, <1>7, <1>8, <1>9, <1>10

LEMMA CountKeeps ==
    ASSUME IInv, NEW j \in jobs, Count(j)
    PROVE  IInv'
<1> USE DEF IInv
<1>1. PICK k : /\ k.op = j.op /\ k.phase = "counted"
               /\ k.loaded = (IF j.op = "hide" THEN score ELSE j.loaded)
               /\ k.cred = Cred /\ k.spammy = Spammy
               /\ j.phase = "due"
               /\ jobs' = (jobs \ {j}) \cup {k}
               /\ ~lost'
               /\ UNCHANGED <<score, labels, changes, visits, drift, overlap, pressure>>
  BY CountFactsOfJob
<1>2. UNCHANGED signals
  BY DEF Count
<1>3. UNCHANGED <<followers, following, blockers, likes, hides, posts>>
  BY <1>2 DEF signals
<1>4. Cred' = Cred /\ (Spammy' <=> Spammy)
  BY <1>2, SameScore
<1>5. lost' \in BOOLEAN
  BY DEF Count
<1>6. TypeOK'
  <2>1. JobOK(j)
    BY DEF TypeOK, JobOK
  <2>2. k.loaded \in Scores \cup {-1}
    BY <1>1, <2>1 DEF TypeOK, JobOK
  <2>3. \A i \in jobs' : JobOK(i)
    BY <1>1, <2>1, <2>2 DEF TypeOK, JobOK
  <2>4. /\ overlap' \in BOOLEAN /\ pressure' \in BOOLEAN
    BY <1>1, <1>3, Zenon DEF TypeOK
  <2>5. QED
    BY <1>1, <1>3, <1>5, <2>3, <2>4 DEF TypeOK, JobOK
<1>7. PressureSeen'
  BY <1>1, <1>3 DEF PressureSeen
<1>8. CountedOK'
  <2>1. Cred \in Scores /\ (Cred < 25000 => Spammy)
    BY ScoreFacts
  <2>2. Spammy => pressure
    BY SpammyNeedsPressure
  <2>3. Spammy \in BOOLEAN
    BY DEF Spammy
  <2>4. k.cred \in Scores /\ (k.cred < 25000 => k.spammy) /\ (k.spammy => pressure)
    BY <1>1, <2>1, <2>2
  <2>5. k.spammy \in BOOLEAN
    BY <1>1, <2>3
  <2>6. QED
    BY <1>1, <2>4, <2>5 DEF CountedOK
<1>9. SpammerWatched'
  BY <1>1, <1>4 DEF SpammerWatched
<1>10. OneAtATime'
  BY <1>1, <1>4 DEF OneAtATime, AtRest
<1>11. LowScoreLabelled' /\ LabelNeedsPressure'
  BY <1>1 DEF LowScoreLabelled, LabelNeedsPressure, HealthLabels
<1>12. QED
  BY <1>6, <1>7, <1>8, <1>9, <1>10, <1>11

LEMMA StoreKeeps ==
    ASSUME IInv, NEW j \in jobs, Store(j)
    PROVE  IInv'
<1> USE DEF IInv
<1>1. /\ j.phase = "counted"
      /\ jobs' = jobs \ {j}
      /\ score' = (IF j.loaded = j.cred THEN score ELSE j.cred)
      /\ labels' = (IF j.spammy THEN labels \cup HealthLabels ELSE labels)
      /\ UNCHANGED signals
      /\ UNCHANGED <<changes, visits, drift, lost, overlap, pressure>>
  BY DEF Store, history
<1>2. UNCHANGED <<followers, following, blockers, likes, hides, posts>>
  BY <1>1 DEF signals
<1>3. Cred' = Cred /\ (Spammy' <=> Spammy)
  BY <1>1, SameScore
<1>4. /\ j.cred \in Scores /\ j.spammy \in BOOLEAN
      /\ j.cred < 25000 => j.spammy
      /\ j.spammy => pressure
  BY <1>1 DEF CountedOK
<1>5. /\ labels' \subseteq HealthLabels
      /\ labels = HealthLabels \/ j.spammy => labels' = HealthLabels
      /\ ~j.spammy => labels' = labels
  BY <1>1, <1>4 DEF TypeOK
<1>6. TypeOK'
  <2>1. \A k \in jobs' : JobOK(k)
    BY <1>1 DEF TypeOK, JobOK
  <2>2. score' \in Scores
    BY <1>1, <1>4 DEF TypeOK
  <2>3. /\ lost' \in BOOLEAN /\ overlap' \in BOOLEAN
        /\ pressure' \in BOOLEAN
    BY <1>1, <1>2, Zenon DEF TypeOK
  <2>4. QED
    BY <1>1, <1>2, <1>5, <2>1, <2>2, <2>3 DEF TypeOK, JobOK
<1>7. PressureSeen'
  BY <1>1, <1>2 DEF PressureSeen
<1>8. CountedOK'
  BY <1>1, SMT DEF CountedOK
<1>9. SpammerWatched'
  BY <1>1, <1>3, <1>4, <1>5 DEF SpammerWatched
<1>10. OneAtATime'
  BY <1>1, <1>3 DEF OneAtATime, AtRest
<1>11. LowScoreLabelled'
  BY <1>1, <1>4, <1>5 DEF LowScoreLabelled
<1>12. LabelNeedsPressure'
  BY <1>1, <1>4, <1>5 DEF LabelNeedsPressure
<1>13. QED
  BY <1>6, <1>7, <1>8, <1>9, <1>10, <1>11, <1>12

LEMMA FailKeeps ==
    ASSUME IInv, NEW j \in jobs, Fail(j)
    PROVE  IInv'
<1> USE DEF IInv
<1>1. /\ jobs' = jobs \ {j} /\ (~lost' => ~lost /\ j.phase = "asked") /\ lost' \in BOOLEAN
      /\ UNCHANGED signals
      /\ UNCHANGED <<score, labels, changes, visits, drift, overlap, pressure>>
  BY DEF Fail, health
<1>2. UNCHANGED <<followers, following, blockers, likes, hides, posts>>
  BY <1>1 DEF signals
<1>3. Cred' = Cred /\ (Spammy' <=> Spammy)
  BY <1>1, SameScore
<1>4. TypeOK'
  <2>1. \A k \in jobs' : JobOK(k)
    BY <1>1 DEF TypeOK, JobOK
  <2>2. /\ lost' \in BOOLEAN /\ overlap' \in BOOLEAN
        /\ pressure' \in BOOLEAN
    BY <1>1, <1>2, Zenon DEF TypeOK
  <2>3. QED
    BY <1>1, <1>2, <2>1, <2>2 DEF TypeOK, JobOK
<1>5. PressureSeen'
  BY <1>1, <1>2 DEF PressureSeen
<1>6. CountedOK'
  BY <1>1, SMT DEF CountedOK
<1>7. SpammerWatched'
  BY <1>1, <1>3 DEF SpammerWatched
<1>8. OneAtATime'
  BY <1>1, <1>3 DEF OneAtATime, AtRest
<1>9. LowScoreLabelled' /\ LabelNeedsPressure'
  BY <1>1 DEF LowScoreLabelled, LabelNeedsPressure, HealthLabels
<1>10. QED
  BY <1>4, <1>5, <1>6, <1>7, <1>8, <1>9

--------------------------------------------------------------------------------
(* The invariant                                                           *)

LEMMA InitIInv == Init => IInv
<1> SUFFICES ASSUME Init PROVE IInv
  OBVIOUS
<1>1. /\ followers = {} /\ following = {} /\ blockers = {} /\ likes = {} /\ hides = {}
      /\ posts = Post
      /\ score = 50000 /\ labels = {} /\ jobs = {} /\ drift = {} /\ changes = 0 /\ visits = 0
  BY DEF Init
<1>2. lost \in BOOLEAN /\ overlap \in BOOLEAN /\ pressure \in BOOLEAN
  <2>1. lost = FALSE /\ overlap = FALSE /\ pressure = FALSE
    BY SMT DEF Init
  <2>2. QED
    BY <2>1, Zenon
<1>3. score \in Scores
  <2>1. score \in Int /\ 0 <= score /\ score <= MaxScore
    BY <1>1, SMT DEF MaxScore
  <2>2. QED
    BY <2>1, ScoreRange
<1>4. changes \in 0..MaxChanges /\ visits \in 0..MaxRefreshes
  BY <1>1, HealthAssumption, SMT
<1>5. TypeOK
  BY <1>1, <1>2, <1>3, <1>4 DEF TypeOK
<1>6. /\ Cardinality(followers) = 0 /\ Cardinality(following) = 0
      /\ Likes = 0 /\ Blocks = 0 /\ Hides = 0 /\ Cardinality(hides) = 0
  <2>1. Cardinality({}) = 0
    BY FS_EmptySet
  <2>2. {r \in likes : r[2] \in posts} = {} /\ {r \in hides : r[2] \in posts} = {}
    BY <1>1
  <2>3. QED
    BY <1>1, <2>1, <2>2 DEF Likes, Blocks, Hides
<1>7. Cred = 50000
  <2>1. Log1p[Blocks] = 0 /\ Log1p[Hides] = 0 /\ Log1p[Cardinality(following)] = 0
    BY <1>6, LogFacts
  <2>2. Log1p[Cardinality(followers) + Likes] = 0
    <3>1. Cardinality(followers) + Likes = 0
      BY <1>6, SMT
    <3>2. QED
      BY <3>1, LogFacts
  <2>3. Positive = 0
    BY <2>1, <2>2, SMT DEF Positive
  <2>4. QED
    BY <2>1, <2>3, SMT DEF Cred, Clip, MaxScore
<1>8. ~Spammy
  BY <1>6, <1>7, SMT DEF Spammy
<1>9. PressureSeen /\ CountedOK /\ SpammerWatched
  BY <1>1, <1>6, <1>8, SMT DEF PressureSeen, CountedOK, SpammerWatched
<1>10. OneAtATime
  BY <1>1, <1>7, SMT DEF OneAtATime
<1>11. LowScoreLabelled /\ LabelNeedsPressure
  BY <1>1, SMT DEF LowScoreLabelled, LabelNeedsPressure
<1>12. QED
  BY <1>5, <1>9, <1>10, <1>11 DEF IInv

LEMMA NextIInv == IInv /\ [Next]_vars => IInv'
<1> SUFFICES ASSUME IInv, [Next]_vars PROVE IInv'
  OBVIOUS
<1>1. CASE Harms \/ Easings
  BY <1>1, HarmsKeep, EasesKeep
<1>2. CASE Entering
  BY <1>2, EnterKeeps
<1>3. ASSUME NEW l \in HealthLabels, ModeratorLabels(l) PROVE IInv'
  BY <1>3, ModeratorKeeps
<1>4. ASSUME NEW j \in jobs, Count(j) PROVE IInv'
  BY <1>4, CountKeeps
<1>5. ASSUME NEW j \in jobs, Store(j) PROVE IInv'
  BY <1>5, StoreKeeps
<1>6. ASSUME NEW j \in jobs, Fail(j) PROVE IInv'
  BY <1>6, FailKeeps
<1>7. CASE UNCHANGED vars
  <2>1. /\ UNCHANGED signals
        /\ UNCHANGED <<followers, following, blockers, likes, hides, posts>>
        /\ UNCHANGED <<score, labels, jobs, changes, visits, drift, lost, overlap, pressure>>
    BY <1>7 DEF vars, signals, health, history
  <2>2. Cred' = Cred /\ (Spammy' <=> Spammy)
    BY <2>1, SameScore
  <2>3. TypeOK' /\ PressureSeen' /\ CountedOK'
    BY <2>1 DEF IInv, TypeOK, PressureSeen, CountedOK
  <2>4. SpammerWatched' /\ OneAtATime' /\ LowScoreLabelled' /\ LabelNeedsPressure'
    BY <2>1, <2>2 DEF IInv, SpammerWatched, OneAtATime, AtRest, LowScoreLabelled, LabelNeedsPressure
  <2>5. QED
    BY <2>3, <2>4 DEF IInv
<1>8. QED
  BY <1>1, <1>2, <1>3, <1>4, <1>5, <1>6, <1>7 DEF Next, Harms, Easings, Entering

(* The invariant holds in every state of every behaviour.                  *)
THEOREM HealthInvariance == Spec => []IInv
<1>1. QED
  BY InitIInv, NextIInv, PTL DEF Spec

(* Every variable stays in its range: the score between 0 and 100.         *)
THEOREM HealthTypeCorrect == Spec => []TypeOK
<1>1. IInv => TypeOK
  BY DEF IInv
<1>2. QED
  BY <1>1, HealthInvariance, PTL

(* However many recomputations interleave, the last one to count sees the  *)
(* spammer, and what it finds is stored or lost.                           *)
THEOREM SpammersAreSeen == Spec => []NoSpammerMissed
<1>1. IInv => NoSpammerMissed
  <2>1. SpammerWatched => NoSpammerMissed
    BY DEF SpammerWatched, NoSpammerMissed, AtRest
  <2>2. QED
    BY <2>1 DEF IInv
<1>2. QED
  BY <1>1, HealthInvariance, PTL

(* Score and labels are written together or not at all.                    *)
THEOREM LowScoresAreLabelled == Spec => []LowScoreLabelled
<1>1. IInv => LowScoreLabelled
  BY DEF IInv
<1>2. QED
  BY <1>1, HealthInvariance, PTL

(* No label without a block, three hides or a moderator.                   *)
THEOREM LabelsNeedPressure == Spec => []LabelNeedsPressure
<1>1. IInv => LabelNeedsPressure
  BY DEF IInv
<1>2. QED
  BY <1>1, HealthInvariance, PTL

(* One recomputation at a time leaves the score of the present signals.    *)
THEOREM ScoresAreCurrent == Spec => []ScoreCurrent
<1>1. IInv => ScoreCurrent
  <2>1. OneAtATime => ScoreCurrent
    BY DEF OneAtATime, ScoreCurrent, AtRest
  <2>2. QED
    BY <2>1 DEF IInv
<1>2. QED
  BY <1>1, HealthInvariance, PTL

================================================================================
