--------------------------- MODULE FeedPagesProofs ---------------------------
(***************************************************************************)
(* The promises of FeedPages for every number of posts and accounts, every *)
(* size of a page and every choice of the ranking.  Three facts carry      *)
(* them: a cut at the newest rows is closed upwards, so a cursor leaves    *)
(* nothing above it behind; a page of Following has a next cursor only if  *)
(* the policy has dropped none of its rows, however stale the lists that   *)
(* the request goes by; and the birthdate a request goes by is the         *)
(* viewer's.                                                               *)
(***************************************************************************)
EXTENDS FeedPages, FiniteSetTheorems, WellFoundedInduction, TLAPS

Source == {"in_network", "thunder", "oon"}

(* What others change.                                                     *)
WorldTypeOK ==
    /\ published \subseteq Post /\ deleted \subseteq Post /\ rows \subseteq Post
    /\ flagged \subseteq Post
    /\ follows \subseteq Others /\ blocked \subseteq Others /\ muted \subseteq Others
    /\ suspended \subseteq Others /\ private \subseteq Others /\ limited \subseteq Account /\ keywords \subseteq Keyword
    /\ feedback \in [Post -> {"none", "hide", "not_interested"}]
    /\ changes \in 0..MaxChanges

(* What the requests change.                                               *)
ScrollTypeOK ==
    /\ surface \in {"for_you", "following", "thread"}
    /\ adult \in BOOLEAN
    /\ phase \in {"idle", "asked", "done"}
    /\ cursor \in 1..(NPosts + 1)
    /\ found \subseteq Post /\ weighed \subseteq Post
    /\ shown \in Seq(Post)
    /\ \A i \in OnPage : i.id \in Post /\ i.source \in Source
    /\ dropped \in BOOLEAN /\ strayed \in BOOLEAN

(* Every variable stays in its range.                                      *)
PagesTypeOK == WorldTypeOK /\ ScrollTypeOK /\ steady \subseteq Post

(* A request goes by the viewer's birthdate.                               *)
AgeKnown == query.adult = adult

(* What was steady is still visible.                                       *)
SteadyVisible == steady \subseteq {p \in Post : Visible(p)}

(* Nothing on the pages of Following is below the cursor.                  *)
ShownAbove ==
    surface = "following" /\ phase # "done" => \A n \in DOMAIN shown : shown[n] >= cursor

IInv ==
    /\ PagesTypeOK /\ AgeKnown
    /\ SteadyVisible
    /\ FollowingDescends /\ ShownAbove /\ NoGaps /\ EndMeansEndUndropped
    /\ ForYouWeighs /\ SensitiveOnlyQuoted /\ ThreadIsConnected

-------------------------------------------------------------------------------
(* Listings and cuts                                                       *)

(* A listing of a set has every element once.                              *)
LEMMA ListingFacts ==
    ASSUME NEW S, IsFiniteSet(S), NEW s \in SetToSeqs(S)
    PROVE  /\ s \in Seq(S) /\ Len(s) \in Nat /\ DOMAIN s = 1..Len(s)
           /\ Len(s) = Cardinality(S) /\ ToSet(s) = S
<1> DEFINE N == Cardinality(S)
<1>1. N \in Nat
  BY FS_CardinalityType
<1>2. s \in [1..N -> S] /\ \A i, j \in 1..N : i # j => s[i] # s[j]
  BY DEF SetToSeqs
<1>3. s \in Seq(S) /\ Len(s) = N /\ DOMAIN s = 1..N
  BY <1>1, <1>2
<1>4. s \in Injection(1..N, S)
  BY <1>2 DEF Injection, IsInjective
<1>5. Cardinality(1..N) = N
  BY <1>1, FS_Interval
<1>6. s \in Surjection(1..N, S)
  BY <1>4, <1>5, FS_Injection
<1>7. ToSet(s) = S
  BY <1>2, <1>6 DEF ToSet, Surjection
<1>8. QED
  BY <1>1, <1>3, <1>7

(* Keys that tell the elements of a set apart.                             *)
IsKey(S, key) == key \in [S -> Nat] /\ \A r, s \in S : key[r] = key[s] => r = s

Above(S, key, r) == {s \in S : key[s] > key[r]}

(* A part of a finite set is smaller.                                      *)
LEMMA ProperSubset ==
    ASSUME NEW S, IsFiniteSet(S), NEW T, T \subseteq S
    PROVE  /\ IsFiniteSet(T) /\ Cardinality(T) \in Nat /\ Cardinality(S) \in Nat
           /\ T # S => Cardinality(T) < Cardinality(S)
<1>1. /\ IsFiniteSet(T) /\ Cardinality(T) <= Cardinality(S)
      /\ Cardinality(S) = Cardinality(T) => S = T
  BY FS_Subset
<1>2. Cardinality(T) \in Nat /\ Cardinality(S) \in Nat
  BY <1>1, FS_CardinalityType
<1>3. QED
  BY <1>1, <1>2

(* Each element has its rank, and each rank its element: a set whose       *)
(* elements have keys of their own can be listed in the order of the keys. *)
LEMMA ListingExists ==
    ASSUME NEW S, IsFiniteSet(S), NEW key, IsKey(S, key)
    PROVE  \E s \in SetToSeqs(S) : \A m, n \in DOMAIN s : m < n => key[s[m]] > key[s[n]]
<1> DEFINE A(r) == Above(S, key, r)
           rank == [r \in S |-> Cardinality(A(r))]
           N == Cardinality(S)
<1>1. N \in Nat
  BY FS_CardinalityType
<1>2. \A r \in S : A(r) \subseteq S /\ r \notin A(r)
  BY DEF Above, IsKey
<1>3. \A r \in S : Cardinality(A(r)) \in 0..(N - 1)
  <2> TAKE r \in S
  <2>1. A(r) \subseteq S /\ A(r) # S
    BY <1>2
  <2>2. Cardinality(A(r)) < N /\ IsFiniteSet(A(r))
    BY <2>1, ProperSubset
  <2>3. QED
    BY <2>2, <1>1, FS_CardinalityType
<1>4. \A r, s \in S : key[r] > key[s] => Cardinality(A(r)) < Cardinality(A(s))
  <2> SUFFICES ASSUME NEW r \in S, NEW s \in S, key[r] > key[s]
               PROVE  Cardinality(A(r)) < Cardinality(A(s))
    OBVIOUS
  <2>1. A(r) \subseteq A(s) /\ r \in A(s)
    BY DEF Above, IsKey
  <2>2. IsFiniteSet(A(s)) /\ A(r) # A(s)
    BY <1>2, <2>1, FS_Subset
  <2> HIDE DEF A
  <2>3. QED
    BY <2>1, <2>2, ProperSubset
<1>5. rank \in Injection(S, 0..(N - 1))
  <2>1. rank \in [S -> 0..(N - 1)]
    <3> HIDE DEF A, N
    <3>1. QED
      BY <1>3
  <2>2. \A r, s \in S : rank[r] = rank[s] => r = s
    <3> SUFFICES ASSUME NEW r \in S, NEW s \in S, rank[r] = rank[s], r # s
                 PROVE  FALSE
      OBVIOUS
    <3>1. key[r] \in Nat /\ key[s] \in Nat /\ key[r] # key[s]
      BY DEF IsKey
    <3>2. key[r] > key[s] \/ key[s] > key[r]
      BY <3>1
    <3>3. rank[r] < rank[s] \/ rank[s] < rank[r]
      BY <3>2, <1>4
    <3>4. rank[r] \in Nat /\ rank[s] \in Nat
      BY <1>3, <1>1
    <3>5. QED
      BY <3>3, <3>4
  <2> HIDE DEF rank
  <2>3. QED
    BY <2>1, <2>2 DEF Injection, IsInjective
<1>6. IsFiniteSet(0..(N - 1)) /\ Cardinality(0..(N - 1)) = N
  BY <1>1, FS_Interval
<1>7. rank \in Surjection(S, 0..(N - 1))
  BY <1>5, <1>6, FS_Injection
<1> DEFINE s == [n \in 1..N |-> CHOOSE r \in S : Cardinality(A(r)) = n - 1]
<1>8. \A n \in 1..N : s[n] \in S /\ Cardinality(A(s[n])) = n - 1
  <2> TAKE n \in 1..N
  <2>1. n - 1 \in 0..(N - 1)
    BY <1>1
  <2>2. PICK r \in S : rank[r] = n - 1
    BY <1>7, <2>1 DEF Surjection
  <2>3. \E t \in S : Cardinality(A(t)) = n - 1
    BY <2>2
  <2>4. QED
    BY <2>3
<1>9. DOMAIN s = 1..N /\ s \in [1..N -> S]
  BY <1>8
<1> HIDE DEF s
<1>10. \A m, n \in 1..N : m # n => s[m] # s[n]
  <2>1. \A m, n \in 1..N : m # n => m - 1 # n - 1
    BY <1>1
  <2>2. QED
    BY <1>8, <2>1
<1>11. s \in SetToSeqs(S)
  BY <1>9, <1>10 DEF SetToSeqs
<1>12. ASSUME NEW m \in 1..N, NEW n \in 1..N, m < n
       PROVE  key[s[m]] > key[s[n]]
  <2>1. /\ Cardinality(A(s[m])) = m - 1 /\ Cardinality(A(s[n])) = n - 1
        /\ s[m] \in S /\ s[n] \in S
    BY <1>8
  <2>2. s[m] # s[n] /\ ~(key[s[n]] > key[s[m]])
    BY <1>4, <1>10, <1>12, <2>1
  <2>3. QED
    BY <2>1, <2>2 DEF IsKey
<1>13. QED
  BY <1>9, <1>11, <1>12

(* What the numbers are.                                                   *)
LEMMA Numbers ==
    /\ NPosts \in Nat /\ MaxChanges \in Nat /\ PageLimit \in Nat /\ PageLimit > 0
    /\ Post \in SUBSET Nat /\ \A p \in Post : 1 <= p /\ p <= NPosts
BY PagesAssumption DEF Post

(* Induction: a set of numbers has a least one.                            *)
LEMMA LeastOf ==
    ASSUME NEW T \in SUBSET Nat, T # {}
    PROVE  \E x \in T : \A y \in T : x <= y
<1>1. IsWellFoundedOn(OpToRel(<, Nat), Nat)
  BY NatLessThanWellFounded
<1>2. PICK x \in T : \A y \in T : ~(<<y, x>> \in OpToRel(<, Nat))
  BY <1>1, WFMin
<1>3. \A y \in T : ~(y < x)
  BY <1>2 DEF OpToRel
<1>4. QED
  BY <1>3

(* There is only one such list: at the first place where two differ, each *)
(* would have the other's element further down.                            *)
LEMMA ListingUnique ==
    ASSUME NEW S, IsFiniteSet(S), NEW key, IsKey(S, key),
           NEW s \in SetToSeqs(S), \A m, n \in DOMAIN s : m < n => key[s[m]] > key[s[n]],
           NEW t \in SetToSeqs(S), \A m, n \in DOMAIN t : m < n => key[t[m]] > key[t[n]]
    PROVE  s = t
<1> DEFINE N == Cardinality(S)
<1>1. N \in Nat
  BY FS_CardinalityType
<1>2. /\ s \in [1..N -> S] /\ \A i, j \in 1..N : i # j => s[i] # s[j]
      /\ t \in [1..N -> S] /\ \A i, j \in 1..N : i # j => t[i] # t[j]
  BY DEF SetToSeqs
<1>3. /\ \A r \in S : \E j \in 1..N : s[j] = r
      /\ \A r \in S : \E j \in 1..N : t[j] = r
  <2>1. ToSet(s) = S /\ ToSet(t) = S /\ DOMAIN s = 1..N /\ DOMAIN t = 1..N
    BY <1>2, ListingFacts
  <2>2. QED
    BY <2>1 DEF ToSet
<1>4. \A i, j \in 1..N : i < j => key[s[i]] > key[s[j]] /\ key[t[i]] > key[t[j]]
  BY <1>2
<1>5. \A r \in S : key[r] \in Nat
  BY DEF IsKey
<1> DEFINE bad == {i \in 1..N : s[i] # t[i]}
<1>6. bad = {}
  <2> SUFFICES ASSUME bad # {} PROVE FALSE
    OBVIOUS
  <2>1. PICK i \in bad : \A j \in bad : i <= j
    <3>1. bad \in SUBSET Nat
      BY <1>1
    <3> HIDE DEF bad
    <3>2. QED
      BY <3>1, LeastOf
  <2>2. i \in 1..N /\ s[i] # t[i] /\ \A j \in 1..N : j < i => s[j] = t[j]
    BY <2>1
  <2>3. PICK j \in 1..N : t[j] = s[i]
    BY <1>2, <1>3, <2>2
  <2>4. PICK k \in 1..N : s[k] = t[i]
    BY <1>2, <1>3, <2>2
  <2>5. i < j
    <3>1. j # i /\ ~(j < i)
      <4>1. j # i
        BY <2>2, <2>3
      <4>2. j < i => s[j] = s[i] /\ j # i
        BY <2>2, <2>3, <4>1
      <4>3. QED
        BY <1>2, <2>2, <4>1, <4>2
    <3>2. QED
      BY <1>1, <2>2, <3>1
  <2>6. i < k
    <3>1. k # i /\ ~(k < i)
      <4>1. k # i
        BY <2>2, <2>4
      <4>2. k < i => t[k] = t[i] /\ k # i
        BY <2>2, <2>4, <4>1
      <4>3. QED
        BY <1>2, <2>2, <4>1, <4>2
    <3>2. QED
      BY <1>1, <2>2, <3>1
  <2>7. key[t[i]] > key[t[j]] /\ key[s[i]] > key[s[k]]
    BY <1>4, <2>2, <2>5, <2>6
  <2>8. key[s[i]] \in Nat /\ key[t[i]] \in Nat
    BY <1>2, <1>5, <2>2
  <2>9. QED
    BY <2>3, <2>4, <2>7, <2>8
<1>7. \A i \in 1..N : s[i] = t[i]
  BY <1>6
<1>8. s = [i \in 1..N |-> s[i]] /\ t = [i \in 1..N |-> t[i]]
  BY <1>2
<1>9. [i \in 1..N |-> s[i]] = [i \in 1..N |-> t[i]]
  BY <1>7, Zenon
<1>10. QED
  BY <1>8, <1>9, Zenon

(* Posts are finitely many.                                                *)
LEMMA FinitePosts ==
    ASSUME NEW posts \in SUBSET Post
    PROVE  IsFiniteSet(posts) /\ Cardinality(posts) \in Nat
<1>1. IsFiniteSet(Post)
  BY Numbers, FS_Interval DEF Post
<1>2. IsFiniteSet(posts)
  BY <1>1, FS_Subset
<1>3. QED
  BY <1>2, FS_CardinalityType

(* A cut at the newest posts is closed upwards.                            *)
LEMMA NewestClosed ==
    ASSUME NEW posts \in SUBSET Post, NEW n \in Nat,
           NEW t \in Newest(posts, n), NEW p \in posts, p >= t
    PROVE  p \in Newest(posts, n)
<1> DEFINE A(x) == {y \in posts : y > x}
<1>1. A(p) \subseteq A(t) /\ A(t) \in SUBSET Post /\ A(p) \in SUBSET Post
  <2>1. p \in Nat /\ t \in Nat /\ \A y \in posts : y \in Nat
    BY Numbers DEF Newest
  <2>2. \A y \in posts : y > p => y > t
    BY <2>1
  <2>3. QED
    BY <2>2
<1>2. Cardinality(A(t)) < n
  BY DEF Newest
<1>3. IsFiniteSet(A(t)) /\ Cardinality(A(t)) \in Nat /\ Cardinality(A(p)) \in Nat
  BY <1>1, FinitePosts
<1>4. Cardinality(A(p)) <= Cardinality(A(t))
  <2> HIDE DEF A
  <2>1. QED
    BY <1>1, <1>3, FS_Subset
<1>5. QED
  BY <1>2, <1>3, <1>4 DEF Newest

(* A cut that leaves something out is full.                                *)
LEMMA NewestFull ==
    ASSUME NEW posts \in SUBSET Post, NEW n \in Nat, posts # Newest(posts, n)
    PROVE  Cardinality(Newest(posts, n)) >= n
<1> DEFINE A(x) == {y \in posts : y > x}
           out  == posts \ Newest(posts, n)
           below == {NPosts - x : x \in out}
<1>1. out # {} /\ out \subseteq posts
  BY DEF Newest
<1>2. below \in SUBSET Nat /\ below # {}
  <2>1. \A x \in out : NPosts - x \in Nat
    BY <1>1, Numbers
  <2>2. QED
    BY <1>1, <2>1
<1>3. PICK k \in below : \A m \in below : k <= m
  <2> HIDE DEF below
  <2>1. QED
    BY <1>2, LeastOf
<1>4. PICK q \in out : k = NPosts - q
  OBVIOUS
<1>5. \A x \in out : x <= q
  <2> TAKE x \in out
  <2>1. k <= NPosts - x
    BY <1>3
  <2>2. QED
    BY <1>1, <1>4, <2>1, Numbers
<1>6. A(q) \subseteq Newest(posts, n)
  <2>1. \A x \in posts : x > q => x \notin out
    BY <1>1, <1>4, <1>5, Numbers
  <2>2. QED
    BY <2>1
<1>7. ~(Cardinality(A(q)) < n)
  BY <1>4 DEF Newest
<1>8. Newest(posts, n) \in SUBSET Post /\ A(q) \in SUBSET Post
  BY DEF Newest
<1>9. /\ Cardinality(A(q)) \in Nat /\ Cardinality(Newest(posts, n)) \in Nat
      /\ IsFiniteSet(Newest(posts, n))
  BY <1>8, FinitePosts
<1>10. Cardinality(A(q)) <= Cardinality(Newest(posts, n))
  <2> HIDE DEF A
  <2>1. QED
    BY <1>6, <1>9, FS_Subset
<1>11. QED
  BY <1>7, <1>9, <1>10

(* It is no larger than asked for: all but the oldest of it are newer than *)
(* the oldest.                                                             *)
LEMMA NewestSize ==
    ASSUME NEW posts \in SUBSET Post, NEW n \in Nat
    PROVE  Cardinality(Newest(posts, n)) <= n /\ Cardinality(Newest(posts, n)) \in Nat
<1> DEFINE cut == Newest(posts, n)
<1>1. cut \in SUBSET posts /\ cut \in SUBSET Post /\ cut \in SUBSET Nat
  BY Numbers DEF Newest
<1>2. IsFiniteSet(cut) /\ Cardinality(cut) \in Nat
  BY <1>1, FinitePosts
<1>3. CASE cut = {}
  <2> HIDE DEF cut
  <2>1. Cardinality(cut) = 0
    BY <1>3, FS_EmptySet
  <2>2. QED
    BY <2>1 DEF cut
<1>4. CASE cut # {}
  <2> DEFINE newer(q) == {x \in posts : x > q}
  <2>1. PICK q \in cut : \A m \in cut : q <= m
    <3> HIDE DEF cut
    <3>1. QED
      BY <1>1, <1>4, LeastOf
  <2>2. Cardinality(newer(q)) < n
    BY <2>1 DEF Newest
  <2>3. newer(q) \in SUBSET Post
    OBVIOUS
  <2>4. cut \ {q} \subseteq newer(q)
    <3>1. \A x \in cut \ {q} : x > q
      BY <1>1, <2>1
    <3>2. QED
      BY <1>1, <3>1
  <2> HIDE DEF cut, newer
  <2>5. IsFiniteSet(newer(q)) /\ Cardinality(newer(q)) \in Nat
    BY <2>3, FinitePosts
  <2>6. Cardinality(cut \ {q}) <= Cardinality(newer(q))
    BY <2>4, <2>5, FS_Subset
  <2>7. Cardinality(cut \ {q}) = Cardinality(cut) - 1
    BY <1>2, <2>1, FS_RemoveElement
  <2>8. QED
    BY <1>2, <2>2, <2>5, <2>6, <2>7 DEF cut
<1>5. QED
  BY <1>3, <1>4

-------------------------------------------------------------------------------
(* Items and verdicts                                                      *)

(* What an item says.                                                      *)
LEMMA ItemFields ==
    ASSUME NEW policy, NEW q, NEW p, NEW source
    PROVE  /\ Item(policy, q, p, source).id = p
           /\ Item(policy, q, p, source).source = source
           /\ Item(policy, q, p, source).labels = LabelsOf(p)
           /\ Item(policy, q, p, source).verdict = Verdict(policy, q, Candidate(p, source))
           /\ Item(policy, q, p, source).sensitive =
                 {b \in BodiesOf(p, Item(policy, q, p, source).verdict) : "nsfw" \in LabelsOf(b)}
BY DEF Item, Candidate

(* There is one item for each post.                                        *)
LEMMA ItemsCount ==
    ASSUME NEW posts \in SUBSET Post, NEW policy, NEW q, NEW source,
           NEW items, items = {Item(policy, q, p, source) : p \in posts}
    PROVE  /\ IsFiniteSet(items) /\ Cardinality(items) = Cardinality(posts)
           /\ IsFiniteSet(Kept(items))
<1> DEFINE f == [p \in posts |-> Item(policy, q, p, source)]
<1>1. f \in [posts -> items] /\ \A i \in items : \E p \in posts : f[p] = i
  OBVIOUS
<1>2. \A p, r \in posts : f[p] = f[r] => p = r
  BY ItemFields
<1>3. ExistsBijection(posts, items)
  <2> HIDE DEF f
  <2>1. f \in Bijection(posts, items)
    BY <1>1, <1>2 DEF Bijection, Injection, IsInjective, Surjection
  <2>2. QED
    BY <2>1 DEF ExistsBijection
<1>4. IsFiniteSet(items) /\ Cardinality(items) = Cardinality(posts)
  BY <1>3, FinitePosts, FS_Bijection
<1>5. Kept(items) \in SUBSET items
  BY DEF Kept
<1>6. QED
  BY <1>4, <1>5, FS_Subset

(* What a verdict is.                                                      *)
LEMMA VerdictDrops ==
    ASSUME NEW policy, NEW q, NEW c
    PROVE  /\ Verdict(policy, q, c) = "drop" <=> \E rule \in policy : Drops(rule, q, c)
           /\ Verdict(policy, q, c) # "drop" /\ "SensitiveInterstitial" \in policy
                /\ Sensitive(q, c) => Verdict(policy, q, c) = "interstitial"
BY DEF Verdict

-------------------------------------------------------------------------------
(* Threads                                                                 *)

Roots(kept) == {p \in kept : Content[p].parent = NoPost}

Below(kept, seen) == {p \in kept : Content[p].parent \in seen}

(* The loop of get_thread up to its n-th pass.                             *)
IsLoop(kept, f, k) ==
    f = [n \in 0..k |-> IF n = 0 THEN Roots(kept) ELSE f[n - 1] \cup Below(kept, f[n - 1])]

(* The recursion defines a function: a number of passes for which it does  *)
(* not would have a least one.                                             *)
LEMMA LoopExists ==
    ASSUME NEW kept
    PROVE  \A k \in Nat : \E f : IsLoop(kept, f, k)
<1> DEFINE bad == {k \in Nat : ~\E f : IsLoop(kept, f, k)}
<1>1. SUFFICES ASSUME bad # {} PROVE FALSE
  OBVIOUS
<1>2. PICK k \in bad : \A m \in bad : k <= m
  <2>1. bad \in SUBSET Nat
    OBVIOUS
  <2> HIDE DEF bad
  <2>2. QED
    BY <1>1, <2>1, LeastOf
<1>3. k \in Nat /\ ~\E f : IsLoop(kept, f, k)
  OBVIOUS
<1>4. CASE k = 0
  <2> DEFINE f == [n \in 0..0 |-> Roots(kept)]
  <2>1. IsLoop(kept, f, 0)
    BY DEF IsLoop
  <2>2. QED
    BY <1>3, <1>4, <2>1
<1>5. CASE k # 0
  <2>1. k - 1 \in Nat /\ k - 1 \notin bad
    <3>1. k - 1 \in Nat /\ ~(k <= k - 1)
      BY <1>3, <1>5
    <3> HIDE DEF bad
    <3>2. QED
      BY <1>2, <3>1
  <2>2. PICK f : IsLoop(kept, f, k - 1)
    BY <2>1
  <2> DEFINE g == [n \in 0..k |-> IF n = k THEN f[k - 1] \cup Below(kept, f[k - 1]) ELSE f[n]]
  <2>3. \A n \in 0..(k - 1) :
           f[n] = IF n = 0 THEN Roots(kept) ELSE f[n - 1] \cup Below(kept, f[n - 1])
    BY <2>2 DEF IsLoop
  <2>4. \A n \in 0..k :
           g[n] = IF n = 0 THEN Roots(kept) ELSE g[n - 1] \cup Below(kept, g[n - 1])
    <3> TAKE n \in 0..k
    <3>1. CASE n = k
      BY <1>3, <1>5, <3>1
    <3>2. CASE n # k
      <4>1. n \in 0..(k - 1) /\ g[n] = f[n]
        BY <1>3, <3>2
      <4>2. n # 0 => g[n - 1] = f[n - 1]
        BY <1>3, <3>2
      <4>3. QED
        BY <2>3, <4>1, <4>2
    <3>3. QED
      BY <3>1, <3>2
  <2>5. g = [n \in 0..k |-> g[n]]
    OBVIOUS
  <2> HIDE DEF g
  <2>6. IsLoop(kept, g, k)
    BY <2>4, <2>5 DEF IsLoop
  <2>7. QED
    BY <1>3, <2>6
<1>6. QED
  BY <1>4, <1>5

(* The thread is the last pass of a loop.                                  *)
LEMMA ThreadLoop ==
    ASSUME NEW kept
    PROVE  \E f : IsLoop(kept, f, NPosts) /\ ThreadOf(kept) = f[NPosts]
<1> DEFINE visible[n \in 0..NPosts] ==
              IF n = 0 THEN {p \in kept : Content[p].parent = NoPost}
              ELSE LET seen == visible[n - 1]
                   IN  seen \cup {p \in kept : Content[p].parent \in seen}
<1>1. visible = CHOOSE f : f = [n \in 0..NPosts |->
                   IF n = 0 THEN Roots(kept) ELSE f[n - 1] \cup Below(kept, f[n - 1])]
  BY DEF Roots, Below
<1>2. ThreadOf(kept) = visible[NPosts]
  BY DEF ThreadOf
<1> HIDE DEF visible
<1>3. \E f : f = [n \in 0..NPosts |->
                   IF n = 0 THEN Roots(kept) ELSE f[n - 1] \cup Below(kept, f[n - 1])]
  <2>1. PICK f : IsLoop(kept, f, NPosts)
    BY LoopExists, Numbers
  <2>2. QED
    BY <2>1 DEF IsLoop
<1>4. IsLoop(kept, visible, NPosts)
  BY <1>1, <1>3 DEF IsLoop
<1>5. QED
  BY <1>2, <1>4

(* The loop ends at a fixpoint: a reply is older than what it answers, so  *)
(* a post that any pass reaches is reached by the pass of its number.      *)
LEMMA ThreadFixpoint ==
    ASSUME NEW kept \in SUBSET Post
    PROVE  /\ ThreadOf(kept) \subseteq kept
           /\ \A p \in kept : p \in ThreadOf(kept) <=>
                 Content[p].parent = NoPost \/ Content[p].parent \in ThreadOf(kept)
<1>1. PICK f : IsLoop(kept, f, NPosts) /\ ThreadOf(kept) = f[NPosts]
  BY ThreadLoop
<1> DEFINE N == NPosts
<1>2. N \in Nat
  BY Numbers
<1>3. /\ f[0] = Roots(kept)
      /\ \A n \in 1..N : f[n] = f[n - 1] \cup Below(kept, f[n - 1])
  <2>1. \A n \in 0..N :
           f[n] = IF n = 0 THEN Roots(kept) ELSE f[n - 1] \cup Below(kept, f[n - 1])
    BY <1>1 DEF IsLoop
  <2>2. 0 \in 0..N /\ \A n \in 1..N : n \in 0..N /\ n # 0
    BY <1>2
  <2>3. QED
    BY <2>1, <2>2
<1>4. \A p \in kept : /\ p \in 1..N
                      /\ Content[p].parent = NoPost \/ Content[p].parent \in 1..(p - 1)
  BY PagesAssumption DEF Post
<1> DEFINE Early(n) == /\ f[n] \subseteq kept
                       /\ \A p \in f[n] : \A m \in p..N : p \in f[m]
           Grown(n) == Roots(kept) \subseteq f[n]
<1>5. \A n \in 0..N : Grown(n)
  <2> DEFINE bad == {n \in 0..N : ~Grown(n)}
  <2>1. SUFFICES ASSUME bad # {} PROVE FALSE
    OBVIOUS
  <2>2. PICK n \in bad : \A m \in bad : n <= m
    <3>1. bad \in SUBSET Nat
      BY <1>2
    <3> HIDE DEF bad
    <3>2. QED
      BY <2>1, <3>1, LeastOf
  <2>3. n # 0 /\ n \in 1..N
    BY <1>2, <1>3
  <2>4. n - 1 \notin bad /\ n - 1 \in 0..N
    <3>1. n - 1 \in 0..N /\ ~(n <= n - 1)
      BY <1>2, <2>3
    <3> HIDE DEF bad
    <3>2. QED
      BY <2>2, <3>1
  <2>5. Roots(kept) \subseteq f[n]
    BY <1>3, <2>3, <2>4
  <2>6. QED
    BY <2>5
<1>6. \A n \in 0..N : Early(n)
  <2> DEFINE bad == {n \in 0..N : ~Early(n)}
  <2>1. SUFFICES ASSUME bad # {} PROVE FALSE
    OBVIOUS
  <2>2. PICK n \in bad : \A m \in bad : n <= m
    <3>1. bad \in SUBSET Nat
      BY <1>2
    <3> HIDE DEF bad
    <3>2. QED
      BY <2>1, <3>1, LeastOf
  <2>3. CASE n = 0
    <3>1. \A p \in f[0] : p \in kept /\ \A m \in p..N : p \in f[m]
      BY <1>2, <1>3, <1>4, <1>5 DEF Roots
    <3>2. QED
      BY <2>3, <3>1
  <2>4. CASE n # 0
    <3>1. n \in 1..N /\ n - 1 \in 0..N
      BY <1>2, <2>4
    <3>2. Early(n - 1)
      <4>1. ~(n <= n - 1)
        BY <3>1
      <4>2. n - 1 \notin bad
        <5> HIDE DEF bad
        <5>1. QED
          BY <2>2, <4>1
      <4>3. QED
        BY <3>1, <4>2
    <3>3. ASSUME NEW p \in f[n]
          PROVE  p \in kept /\ \A m \in p..N : p \in f[m]
      <4>1. CASE p \in f[n - 1]
        BY <3>2, <4>1
      <4>2. CASE p \notin f[n - 1]
        <5>1. p \in kept /\ Content[p].parent \in f[n - 1]
          BY <1>3, <3>1, <3>3, <4>2 DEF Below
        <5> DEFINE parent == Content[p].parent
        <5>2. parent \in kept /\ \A m \in parent..N : parent \in f[m]
          BY <3>2, <5>1
        <5>3. p \in 1..N /\ parent \in 1..(p - 1)
          BY <1>2, <1>4, <5>1, <5>2 DEF NoPost
        <5> HIDE DEF parent
        <5>4. ASSUME NEW m \in p..N
              PROVE  p \in f[m]
          <6>1. m \in 1..N /\ m - 1 \in parent..N
            BY <1>2, <5>3
          <6>2. parent \in f[m - 1]
            BY <5>2, <6>1
          <6>3. QED
            BY <1>3, <5>1, <6>1, <6>2 DEF Below, parent
        <5>5. QED
          BY <5>1, <5>4
      <4>3. QED
        BY <4>1, <4>2
    <3>4. QED
      BY <3>3
  <2>5. QED
    BY <2>3, <2>4
<1>7. f[N] \subseteq kept /\ Roots(kept) \subseteq f[N]
  BY <1>2, <1>5, <1>6
<1>8. ASSUME NEW p \in kept, Content[p].parent \in f[N]
      PROVE  p \in f[N]
  <2> DEFINE parent == Content[p].parent
  <2>1. p \in 1..N /\ parent \in 1..(p - 1)
    BY <1>2, <1>4, <1>7, <1>8 DEF NoPost
  <2> HIDE DEF parent
  <2>2. N \in 1..N /\ N \in 0..N /\ N - 1 \in parent..N
    BY <1>2, <2>1
  <2>3. parent \in f[N - 1]
    BY <1>6, <1>8, <2>2 DEF parent
  <2>4. QED
    BY <1>3, <2>2, <2>3 DEF Below, parent
<1>9. ASSUME NEW p \in f[N], Content[p].parent # NoPost
      PROVE  Content[p].parent \in f[N]
  <2> DEFINE reached == {n \in 0..N : p \in f[n]}
  <2>1. PICK n \in reached : \A m \in reached : n <= m
    <3>1. reached \in SUBSET Nat /\ N \in reached
      BY <1>2, <1>9
    <3> HIDE DEF reached
    <3>2. QED
      BY <3>1, LeastOf
  <2>2. n # 0
    BY <1>3, <1>9 DEF Roots
  <2>3. n \in 1..N /\ n - 1 \in 0..N /\ p \notin f[n - 1]
    <3>1. n \in 1..N /\ n - 1 \in 0..N /\ ~(n <= n - 1)
      BY <1>2, <2>2
    <3>2. n - 1 \notin reached
      <4> HIDE DEF reached
      <4>1. QED
        BY <2>1, <3>1
    <3>3. QED
      BY <3>1, <3>2
  <2>4. Content[p].parent \in f[n - 1]
    BY <1>3, <2>3 DEF Below
  <2> DEFINE parent == Content[p].parent
  <2>5. parent \in kept /\ \A m \in parent..N : parent \in f[m]
    BY <1>6, <2>3, <2>4
  <2>6. parent \in 1..N
    BY <1>4, <2>5
  <2> HIDE DEF parent
  <2>7. N \in parent..N
    BY <1>2, <2>6
  <2>8. QED
    BY <2>5, <2>7 DEF parent
<1>10. QED
  BY <1>1, <1>7, <1>8, <1>9 DEF Roots

-------------------------------------------------------------------------------
(* What others commit                                                      *)

(* A commit of somebody else.                                              *)
Changed == WorldTypeOK' /\ Change /\ KeepSteady

(* Whom a handler labels is an account.                                    *)
LEMMA HealthTyped ==
    ASSUME limited \subseteq Account, NEW a \in Account, RefreshHealth(a)
    PROVE  limited' \subseteq Account
BY DEF RefreshHealth

(* Each step is a step of a request or a commit of somebody else.          *)
LEMMA Shapes ==
    ASSUME PagesTypeOK, Next
    PROVE  \/ Ask \/ AnswerFollowing \/ AnswerForYou \/ AnswerThread
           \/ \E p \in Post : AskThread(p)
           \/ Changed
<1> USE DEF PagesTypeOK, WorldTypeOK, labels, lists, standing
<1>1. Change => changes' \in 0..MaxChanges
  BY Numbers DEF Change
<1>2. \A p \in Post : Author(p) \in Account
  BY PagesAssumption DEF Author
<1>3. ASSUME NEW p \in Post, Arrive(p) \/ Delete(p) \/ LabelPost(p)
      PROVE  Changed
  BY <1>1, <1>3 DEF Changed, Arrive, Delete, LabelPost
<1>4. ASSUME NEW p \in Post, NEW kind \in {"none", "hide", "not_interested"},
             GiveFeedback(p, kind)
      PROVE  Changed
  <2>1. feedback' \in [Post -> {"none", "hide", "not_interested"}]
    BY <1>4 DEF GiveFeedback
  <2>2. limited' \subseteq Account
    <3>1. RefreshHealth(Author(p)) \/ UNCHANGED limited
      BY <1>4 DEF GiveFeedback
    <3>2. QED
      BY <1>2, <3>1, HealthTyped
  <2>3. QED
    BY <1>1, <1>4, <2>1, <2>2 DEF Changed, GiveFeedback
<1>5. ASSUME NEW a \in Others, Follow(a) \/ Unfollow(a) \/ Unblock(a) \/ Mute(a)
      PROVE  Changed
  <2>1. CASE Follow(a)
    BY <1>1, <2>1 DEF Changed, Follow
  <2>2. CASE Unfollow(a)
    BY <1>1, <2>2 DEF Changed, Unfollow, Forget
  <2>3. CASE Unblock(a)
    BY <1>1, <2>3 DEF Changed, Unblock
  <2>4. CASE Mute(a)
    BY <1>1, <2>4 DEF Changed, Mute, Toggle
  <2>5. QED
    BY <1>5, <2>1, <2>2, <2>3, <2>4
<1>6. ASSUME NEW a \in Others, Block(a)
      PROVE  Changed
  <2>1. limited' \subseteq Account
    BY <1>6, HealthTyped DEF Block, Account
  <2>2. QED
    BY <1>1, <1>6, <2>1 DEF Changed, Block, Forget
<1>7. ASSUME NEW a \in Others, Suspend(a) \/ LabelUser(a) \/ SetPrivate(a)
      PROVE  Changed
  <2>1. a \in Account
    BY DEF Account
  <2>2. CASE Suspend(a)
    BY <1>1, <2>2 DEF Changed, Suspend, Toggle
  <2>3. CASE LabelUser(a)
    BY <1>1, <2>1, <2>3 DEF Changed, LabelUser
  <2>4. CASE SetPrivate(a)
    BY <1>1, <2>4 DEF Changed, SetPrivate, Toggle
  <2>5. QED
    BY <1>7, <2>2, <2>3, <2>4
<1>8. ASSUME NEW k \in Keyword, MuteKeyword(k)
      PROVE  Changed
  BY <1>1, <1>8 DEF Changed, MuteKeyword, Toggle
<1>9. QED
  BY <1>3, <1>4, <1>5, <1>6, <1>7, <1>8 DEF Next

-------------------------------------------------------------------------------
(* Pages                                                                   *)

Fits(items) == IF Len(items) < PageLimit THEN Len(items) ELSE PageLimit

(* What CursorSelector makes of a list.                                    *)
LEMMA SelectFacts ==
    ASSUME shown \in Seq(Post), NEW S, \A i \in S : i.id \in Post,
           NEW items \in Seq(S), Select(items)
    PROVE  /\ Fits(items) \in Nat /\ Fits(items) <= Len(items)
           /\ page' \in Seq(S) /\ Len(page') = Fits(items)
           /\ \A n \in 1..Fits(items) : page'[n] = items[n]
           /\ shown' \in Seq(Post) /\ Len(shown') = Len(shown) + Fits(items)
           /\ \A n \in 1..Len(shown) : shown'[n] = shown[n]
           /\ \A n \in 1..Fits(items) : shown'[Len(shown) + n] = items[n].id
           /\ Len(items) > PageLimit =>
                 phase' = "idle" /\ Fits(items) = PageLimit /\ cursor' = items[PageLimit].id
           /\ ~(Len(items) > PageLimit) =>
                 phase' = "done" /\ cursor' = cursor /\ Fits(items) = Len(items)
<1> DEFINE chosen == SubSeq(items, 1, Fits(items))
           ids    == [n \in DOMAIN chosen |-> chosen[n].id]
<1>1. Len(items) \in Nat /\ DOMAIN items = 1..Len(items)
  OBVIOUS
<1>2. Fits(items) \in Nat /\ Fits(items) <= Len(items)
  BY <1>1, Numbers DEF Fits
<1>3. /\ chosen \in Seq(S) /\ Len(chosen) = Fits(items)
      /\ DOMAIN chosen = 1..Fits(items)
      /\ \A n \in 1..Fits(items) : chosen[n] = items[n]
  BY <1>1, <1>2
<1>4. page' = chosen /\ shown' = shown \o ids
  BY DEF Select, Fits
<1>5. /\ Len(items) > PageLimit => phase' = "idle" /\ cursor' = chosen[PageLimit].id
      /\ ~(Len(items) > PageLimit) => phase' = "done" /\ cursor' = cursor
  BY DEF Select, Fits
<1>6. /\ Len(items) > PageLimit => Fits(items) = PageLimit /\ PageLimit \in 1..Fits(items)
      /\ ~(Len(items) > PageLimit) => Fits(items) = Len(items)
  <2> DEFINE L == Len(items)
  <2>1. L \in Nat /\ PageLimit \in Nat /\ PageLimit > 0
    BY <1>1, Numbers
  <2>2. Fits(items) = IF L < PageLimit THEN L ELSE PageLimit
    BY DEF Fits
  <2> HIDE DEF L
  <2>3. /\ L > PageLimit => Fits(items) = PageLimit /\ PageLimit \in 1..Fits(items)
        /\ ~(L > PageLimit) => Fits(items) = L
    BY <2>1, <2>2
  <2>4. QED
    BY <2>3 DEF L
<1> HIDE DEF chosen
<1>7. /\ ids \in Seq(Post) /\ Len(ids) = Fits(items)
      /\ \A n \in 1..Fits(items) : ids[n] = items[n].id
  <2>1. \A n \in 1..Fits(items) : chosen[n] \in S
    BY <1>2, <1>3
  <2>2. /\ ids \in [1..Fits(items) -> Post]
        /\ \A n \in 1..Fits(items) : ids[n] = items[n].id
    BY <1>3, <2>1
  <2> HIDE DEF ids
  <2>3. ids \in Seq(Post) /\ Len(ids) = Fits(items)
    BY <1>2, <2>2
  <2>4. QED
    BY <2>2, <2>3
<1> HIDE DEF ids
<1>8. /\ shown' \in Seq(Post) /\ Len(shown') = Len(shown) + Fits(items)
      /\ \A n \in 1..Len(shown) : shown'[n] = shown[n]
      /\ \A n \in 1..Fits(items) : shown'[Len(shown) + n] = ids[n]
  <2>1. Len(shown) \in Nat
    OBVIOUS
  <2>2. shown' \in Seq(Post) /\ Len(shown') = Len(shown) + Fits(items)
    <3>1. shown \o ids \in Seq(Post) /\ Len(shown \o ids) = Len(shown) + Len(ids)
      BY <1>7
    <3>2. QED
      BY <1>4, <1>7, <3>1
  <2>3. \A n \in 1..(Len(shown) + Len(ids)) :
           (shown \o ids)[n] = IF n <= Len(shown) THEN shown[n] ELSE ids[n - Len(shown)]
    BY <1>7
  <2>4. ASSUME NEW n \in 1..Len(shown)
        PROVE  shown'[n] = shown[n]
    <3>1. n \in 1..(Len(shown) + Len(ids)) /\ n <= Len(shown)
      BY <1>2, <1>7, <2>1
    <3>2. QED
      BY <1>4, <2>3, <3>1
  <2>5. ASSUME NEW n \in 1..Fits(items)
        PROVE  shown'[Len(shown) + n] = ids[n]
    <3>1. /\ Len(shown) + n \in 1..(Len(shown) + Len(ids)) /\ ~(Len(shown) + n <= Len(shown))
          /\ (Len(shown) + n) - Len(shown) = n
      BY <1>2, <1>7, <2>1
    <3>2. QED
      BY <1>4, <2>3, <3>1
  <2>6. QED
    BY <2>2, <2>4, <2>5
<1>9. Len(items) > PageLimit =>
         phase' = "idle" /\ Fits(items) = PageLimit /\ cursor' = items[PageLimit].id
  BY <1>3, <1>5, <1>6
<1>10. /\ page' \in Seq(S) /\ Len(page') = Fits(items)
       /\ \A n \in 1..Fits(items) : page'[n] = items[n]
  BY <1>3, <1>4
<1>11. \A n \in 1..Fits(items) : shown'[Len(shown) + n] = items[n].id
  BY <1>7, <1>8
<1>12. QED
  BY <1>2, <1>5, <1>6, <1>8, <1>9, <1>10, <1>11

(* What ThunderSource reads.                                               *)
Pool(after) == {p \in rows : Public(p) /\ p < after}

LEMMA ThunderFacts ==
    ASSUME PagesTypeOK
    PROVE  /\ Thunder(cursor) = Newest(Pool(cursor), PageLimit + 1)
           /\ Pool(cursor) \in SUBSET Post /\ Thunder(cursor) \in SUBSET Post
           /\ Thunder(cursor) \subseteq Pool(cursor)
           /\ \A p \in Thunder(cursor) : p < cursor
BY DEF PagesTypeOK, WorldTypeOK, Thunder, Pool, Newest

(* What a list of items holds and where: it leaves no item out.            *)
LEMMA Listed ==
    ASSUME NEW S, IsFiniteSet(S), NEW s \in SetToSeqs(S), NEW i \in S
    PROVE  \E n \in 1..Len(s) : s[n] = i
BY ListingFacts DEF ToSet

FollowingItems == {Item(FollowingPolicy, query, p, "in_network") : p \in Thunder(cursor)}

(* The list a page of Following is cut from.                               *)
FollowingList(newest) ==
    /\ newest \in SetToSeqs(Kept(FollowingItems))
    /\ newest \in Seq(Kept(FollowingItems)) /\ Len(newest) \in Nat
    /\ Len(newest) = Cardinality(Kept(FollowingItems))
    /\ \A m, n \in 1..Len(newest) : m < n => newest[m].id > newest[n].id
    /\ \A n \in 1..Len(newest) : newest[n].id \in Thunder(cursor)
    /\ Select(newest)

LEMMA FollowingItemsFacts ==
    ASSUME PagesTypeOK
    PROVE  /\ IsFiniteSet(FollowingItems) /\ IsFiniteSet(Kept(FollowingItems))
           /\ Cardinality(FollowingItems) = Cardinality(Thunder(cursor))
           /\ \A i \in FollowingItems : i.id \in Thunder(cursor)
<1>1. Thunder(cursor) \in SUBSET Post
  BY ThunderFacts
<1>2. \A i \in FollowingItems : i.id \in Thunder(cursor)
  BY ItemFields DEF FollowingItems
<1>3. QED
  BY <1>1, <1>2, ItemsCount DEF FollowingItems

LEMMA FollowingFacts ==
    ASSUME PagesTypeOK, AnswerFollowing
    PROVE  \E newest : FollowingList(newest)
<1>1. PICK newest \in SetToSeqs(Kept(FollowingItems)) :
         /\ \A m, n \in DOMAIN newest : m < n => newest[m].id > newest[n].id
         /\ Select(newest)
  BY Zenon DEF AnswerFollowing, FollowingItems, Orderings
<1>2. /\ newest \in Seq(Kept(FollowingItems)) /\ Len(newest) \in Nat
      /\ DOMAIN newest = 1..Len(newest)
      /\ Len(newest) = Cardinality(Kept(FollowingItems))
  BY FollowingItemsFacts, ListingFacts
<1>3. \A n \in 1..Len(newest) : newest[n].id \in Thunder(cursor)
  BY <1>2, FollowingItemsFacts DEF Kept
<1>4. QED
  BY <1>1, <1>2, <1>3 DEF FollowingList

-------------------------------------------------------------------------------
(* A page of Following                                                     *)

(* What SelectFacts says about it.                                         *)
LEMMA FollowingPage ==
    ASSUME PagesTypeOK, NEW newest, FollowingList(newest)
    PROVE  /\ Len(shown) \in Nat /\ DOMAIN shown = 1..Len(shown)
           /\ Fits(newest) \in Nat /\ Fits(newest) <= Len(newest)
           /\ shown' \in Seq(Post) /\ DOMAIN shown' = 1..(Len(shown) + Fits(newest))
           /\ \A n \in 1..Len(shown) : shown'[n] = shown[n]
           /\ \A n \in 1..Fits(newest) : shown'[Len(shown) + n] = newest[n].id
           /\ \A n \in 1..Len(newest) : newest[n].id \in Nat /\ newest[n].id < cursor
           /\ OnPage' \subseteq Kept(FollowingItems)
           /\ Len(newest) > PageLimit =>
                 phase' = "idle" /\ Fits(newest) = PageLimit /\ cursor' = newest[PageLimit].id
           /\ ~(Len(newest) > PageLimit) =>
                 phase' = "done" /\ cursor' = cursor /\ Fits(newest) = Len(newest)
<1>1. shown \in Seq(Post) /\ newest \in Seq(Kept(FollowingItems)) /\ Select(newest)
  BY DEF PagesTypeOK, ScrollTypeOK, FollowingList
<1>2. \A i \in Kept(FollowingItems) : i.id \in Post
  BY FollowingItemsFacts, ThunderFacts DEF Kept
<1>3. /\ Fits(newest) \in Nat /\ Fits(newest) <= Len(newest)
      /\ page' \in Seq(Kept(FollowingItems))
      /\ shown' \in Seq(Post) /\ Len(shown') = Len(shown) + Fits(newest)
      /\ \A n \in 1..Len(shown) : shown'[n] = shown[n]
      /\ \A n \in 1..Fits(newest) : shown'[Len(shown) + n] = newest[n].id
  BY <1>1, <1>2, SelectFacts
<1>4. /\ Len(newest) > PageLimit =>
            phase' = "idle" /\ Fits(newest) = PageLimit /\ cursor' = newest[PageLimit].id
      /\ ~(Len(newest) > PageLimit) =>
            phase' = "done" /\ cursor' = cursor /\ Fits(newest) = Len(newest)
  BY <1>1, <1>2, SelectFacts
<1>5. Len(shown) \in Nat /\ DOMAIN shown = 1..Len(shown) /\ DOMAIN shown' = 1..Len(shown')
  BY <1>1, <1>3
<1>6. \A n \in 1..Len(newest) : newest[n].id \in Nat /\ newest[n].id < cursor
  BY ThunderFacts, Numbers DEF FollowingList
<1>7. OnPage' \subseteq Kept(FollowingItems)
  BY <1>3 DEF OnPage, ToSet
<1>8. QED
  BY <1>3, <1>4, <1>5, <1>6, <1>7

(* Nothing comes twice or out of order.                                    *)
LEMMA FollowingDescent ==
    ASSUME IInv, AnswerFollowing
    PROVE  FollowingDescends' /\ ShownAbove'
<1>1. PICK newest : FollowingList(newest)
  BY FollowingFacts DEF IInv
<1> DEFINE N == Len(shown)
           F == Fits(newest)
           ids == [n \in 1..Len(newest) |-> newest[n].id]
<1>2. /\ N \in Nat /\ F \in Nat /\ Len(newest) \in Nat /\ F <= Len(newest)
      /\ DOMAIN shown = 1..N /\ DOMAIN shown' = 1..(N + F)
      /\ \A n \in 1..N : shown'[n] = shown[n]
  BY <1>1, FollowingPage DEF IInv, FollowingList
<1>3. \A n \in 1..F : shown'[N + n] = ids[n]
  <2>1. \A n \in 1..F : n \in 1..Len(newest)
    BY <1>2
  <2>2. \A n \in 1..F : shown'[N + n] = newest[n].id
    BY <1>1, FollowingPage DEF IInv
  <2>3. QED
    BY <2>1, <2>2
<1>4. \A n \in 1..Len(newest) : ids[n] \in Nat /\ ids[n] < cursor
  BY <1>1, FollowingPage DEF IInv
<1>5. \A m, n \in 1..Len(newest) : m < n => ids[n] < ids[m]
  <2>1. \A m, n \in 1..Len(newest) : m < n => newest[m].id > newest[n].id
    BY <1>1 DEF FollowingList
  <2>2. \A n \in 1..Len(newest) : ids[n] = newest[n].id
    OBVIOUS
  <2> HIDE DEF ids
  <2>3. QED
    BY <1>4, <2>1, <2>2
<1>6. /\ cursor \in Nat
      /\ \A n \in 1..N : shown[n] \in Nat /\ shown[n] >= cursor
      /\ \A m, n \in 1..N : m < n => shown[n] < shown[m]
  <2>1. surface = "following" /\ phase # "done"
    BY DEF AnswerFollowing
  <2>2. \A n \in 1..N : shown[n] \in Nat
    <3>1. shown \in Seq(Post)
      BY DEF IInv, PagesTypeOK, ScrollTypeOK
    <3>2. \A n \in 1..Len(shown) : shown[n] \in Post
      BY <3>1
    <3>3. QED
      BY <3>2, Numbers
  <2>3. cursor \in Nat
    BY Numbers DEF IInv, PagesTypeOK, ScrollTypeOK
  <2>4. QED
    BY <1>2, <2>1, <2>2, <2>3 DEF IInv, FollowingDescends, ShownAbove
<1> HIDE DEF ids, N, F
<1>7. ASSUME NEW m \in 1..(N + F), NEW n \in 1..(N + F), m < n
      PROVE  shown'[n] < shown'[m]
  <2>1. CASE n <= N
    BY <1>2, <1>6, <1>7, <2>1
  <2>2. CASE ~(n <= N)
    <3>1. n - N \in 1..F /\ n - N \in 1..Len(newest) /\ n = N + (n - N)
      BY <1>2, <2>2
    <3>2. shown'[n] = ids[n - N]
      BY <1>3, <3>1
    <3>3. CASE m <= N
      <4>1. m \in 1..N /\ shown'[m] = shown[m]
        BY <1>2, <3>3
      <4>2. QED
        BY <1>4, <1>6, <3>1, <3>2, <4>1
    <3>4. CASE ~(m <= N)
      <4>1. m - N \in 1..F /\ m - N \in 1..Len(newest) /\ m = N + (m - N) /\ m - N < n - N
        BY <1>2, <1>7, <3>4
      <4>2. shown'[m] = ids[m - N]
        BY <1>3, <4>1
      <4>3. QED
        BY <1>5, <3>1, <3>2, <4>1, <4>2
    <3>5. QED
      BY <3>3, <3>4
  <2>3. QED
    BY <2>1, <2>2
<1>8. FollowingDescends'
  BY <1>2, <1>7 DEF FollowingDescends
<1>9. ASSUME phase' # "done", NEW n \in 1..(N + F)
      PROVE  shown'[n] >= cursor'
  <2>1. Len(newest) > PageLimit /\ F = PageLimit /\ cursor' = newest[PageLimit].id
    BY <1>1, <1>9, FollowingPage DEF IInv, F
  <2>2. PageLimit \in 1..F /\ PageLimit \in 1..Len(newest)
    BY <1>2, <2>1, Numbers
  <2>3. cursor' = ids[PageLimit]
    BY <2>1, <2>2 DEF ids
  <2>4. CASE n <= N
    <3>1. n \in 1..N /\ shown'[n] = shown[n]
      BY <1>2, <2>4
    <3>2. QED
      BY <1>4, <1>6, <2>2, <2>3, <3>1
  <2>5. CASE ~(n <= N)
    <3>1. n - N \in 1..F /\ n - N \in 1..Len(newest) /\ n = N + (n - N)
      BY <1>2, <2>5
    <3>2. shown'[n] = ids[n - N] /\ n - N <= PageLimit
      BY <1>3, <2>1, <3>1
    <3>3. CASE n - N = PageLimit
      BY <1>4, <2>2, <2>3, <3>2, <3>3
    <3>4. CASE n - N < PageLimit
      BY <1>4, <1>5, <2>2, <2>3, <3>1, <3>2, <3>4
    <3>5. QED
      BY <2>2, <3>1, <3>2, <3>3, <3>4
  <2>6. QED
    BY <2>4, <2>5
<1>10. ShownAbove'
  BY <1>2, <1>9 DEF ShownAbove
<1>11. QED
  BY <1>8, <1>10

(* If a list is longer than a page, nothing was dropped: there are no more *)
(* than limit + 1 rows to begin with.                                      *)
LEMMA NothingDropped ==
    ASSUME IInv, NEW newest, FollowingList(newest), Len(newest) > PageLimit
    PROVE  Kept(FollowingItems) = FollowingItems
<1>1. /\ Thunder(cursor) = Newest(Pool(cursor), PageLimit + 1)
      /\ Pool(cursor) \in SUBSET Post /\ PageLimit + 1 \in Nat /\ PageLimit \in Nat
  BY ThunderFacts, Numbers DEF IInv
<1>2. Cardinality(Thunder(cursor)) <= PageLimit + 1 /\ Cardinality(Thunder(cursor)) \in Nat
  BY <1>1, NewestSize
<1>3. /\ Len(newest) \in Nat /\ Len(newest) = Cardinality(Kept(FollowingItems))
      /\ Cardinality(FollowingItems) = Cardinality(Thunder(cursor))
      /\ IsFiniteSet(FollowingItems)
  BY FollowingItemsFacts DEF IInv, FollowingList
<1>4. Kept(FollowingItems) \subseteq FollowingItems
  BY DEF Kept
<1>5. Kept(FollowingItems) # FollowingItems =>
         Cardinality(Kept(FollowingItems)) < Cardinality(FollowingItems)
  BY <1>3, <1>4, ProperSubset
<1>6. QED
  BY <1>1, <1>2, <1>3, <1>5

(* What is fetched and not dropped is on the list.                         *)
LEMMA FetchedListed ==
    ASSUME IInv, NEW newest, FollowingList(newest),
           Kept(FollowingItems) = FollowingItems, NEW p \in Thunder(cursor)
    PROVE  \E n \in 1..Len(newest) : newest[n].id = p
<1> DEFINE i == Item(FollowingPolicy, query, p, "in_network")
<1>2. i.id = p
  BY ItemFields
<1>3. i \in Kept(FollowingItems)
  BY DEF FollowingItems
<1> HIDE DEF i
<1>4. IsFiniteSet(Kept(FollowingItems)) /\ newest \in SetToSeqs(Kept(FollowingItems))
  BY FollowingItemsFacts DEF IInv, FollowingList
<1>5. \E n \in 1..Len(newest) : newest[n] = i
  BY <1>3, <1>4, Listed
<1>6. QED
  BY <1>2, <1>5

(* A page jumps over nothing: what is above its cursor was fetched, as the *)
(* cut is closed upwards, and is on the page, as the list is in order.  On *)
(* the last page, if no row was dropped, the list is as long as the cut,   *)
(* and a cut that is not full has left nothing out.                        *)
LEMMA FollowingCovers ==
    ASSUME IInv, AnswerFollowing
    PROVE  NoGaps' /\ EndMeansEndUndropped'
<1>1. PICK newest : FollowingList(newest)
  BY FollowingFacts DEF IInv
<1>2. surface = "following" /\ phase = "asked" /\ surface' = surface /\ steady' = steady
  BY DEF AnswerFollowing
<1>3. /\ Len(shown) \in Nat /\ Fits(newest) \in Nat /\ Len(newest) \in Nat
      /\ Fits(newest) <= Len(newest)
      /\ DOMAIN shown = 1..Len(shown) /\ DOMAIN shown' = 1..(Len(shown) + Fits(newest))
      /\ \A n \in 1..Len(shown) : shown'[n] = shown[n]
      /\ \A n \in 1..Fits(newest) : shown'[Len(shown) + n] = newest[n].id
  BY <1>1, FollowingPage DEF IInv, FollowingList
<1>4. /\ ShownPosts \subseteq ShownPosts'
      /\ \A n \in 1..Fits(newest) : newest[n].id \in ShownPosts'
  <2>1. \A n \in 1..Len(shown) : n \in DOMAIN shown'
    BY <1>3
  <2>2. \A n \in 1..Fits(newest) : Len(shown) + n \in DOMAIN shown'
    BY <1>3
  <2>3. QED
    BY <1>3, <2>1, <2>2 DEF ShownPosts, ToSet
<1>5. \A p \in steady : p \in Post /\ p \in Nat /\ p <= NPosts
  BY Numbers DEF IInv, PagesTypeOK
<1>6. cursor \in Nat
  BY Numbers DEF IInv, PagesTypeOK, ScrollTypeOK
<1>7. ASSUME NEW p \in steady
      PROVE  p \in ShownPosts' \/ p \in Pool(cursor)
  <2>1. CASE p >= cursor
    <3>1. cursor <= NPosts
      BY <1>5, <1>6, <2>1, Numbers
    <3>2. p \in ShownPosts
      BY <1>2, <2>1, <3>1 DEF IInv, NoGaps
    <3>3. QED
      BY <1>4, <3>2
  <2>2. CASE ~(p >= cursor)
    <3>1. Visible(p)
      BY DEF IInv, SteadyVisible
    <3>2. p < cursor
      BY <1>5, <1>6, <2>2
    <3>3. QED
      BY <3>1, <3>2 DEF Visible, Pool
  <2>3. QED
    BY <2>1, <2>2
<1>8. /\ Thunder(cursor) = Newest(Pool(cursor), PageLimit + 1)
      /\ Pool(cursor) \in SUBSET Post /\ Thunder(cursor) \in SUBSET Post
      /\ PageLimit + 1 \in Nat
  BY ThunderFacts, Numbers DEF IInv
<1>9. NoGaps'
  <2> SUFFICES ASSUME phase' # "done", NEW p \in steady, p >= cursor'
               PROVE  p \in ShownPosts'
    BY <1>2 DEF NoGaps
  <2>1. Len(newest) > PageLimit /\ Fits(newest) = PageLimit /\ cursor' = newest[PageLimit].id
    BY <1>1, FollowingPage DEF IInv
  <2>2. PageLimit \in 1..Len(newest)
    BY <1>3, <2>1, Numbers
  <2>3. cursor' \in Thunder(cursor)
    BY <1>1, <2>1, <2>2 DEF FollowingList
  <2>4. CASE p \in Pool(cursor)
    <3>1. p \in Thunder(cursor)
      BY <1>8, <2>3, <2>4, NewestClosed
    <3>2. PICK n \in 1..Len(newest) : newest[n].id = p
      BY <1>1, <2>1, <3>1, NothingDropped, FetchedListed
    <3>3. ~(PageLimit < n)
      <4>1. ASSUME PageLimit < n PROVE FALSE
        <5>1. newest[PageLimit].id > newest[n].id
          BY <1>1, <2>2, <4>1 DEF FollowingList
        <5>2. cursor' > p /\ cursor' \in Nat
          BY <1>8, <2>1, <2>3, <3>2, <5>1, Numbers
        <5>3. QED
          BY <1>5, <5>2
      <4>2. QED
        BY <4>1
    <3>4. n \in 1..Fits(newest)
      BY <2>1, <3>3, Numbers
    <3>5. QED
      BY <1>4, <3>2, <3>4
  <2>5. QED
    BY <1>7, <2>4
<1>10. EndMeansEndUndropped'
  <2> SUFFICES ASSUME ~dropped', phase' = "done", NEW p \in steady
               PROVE  p \in ShownPosts'
    BY <1>2 DEF EndMeansEndUndropped, EndMeansEnd
  <2>1. ~(Len(newest) > PageLimit) /\ Fits(newest) = Len(newest)
    BY <1>1, FollowingPage DEF IInv
  <2>2. Kept(FollowingItems) = FollowingItems
    BY DEF AnswerFollowing, FollowingItems
  <2>3. Cardinality(Thunder(cursor)) = Len(newest)
    BY <1>1, <2>2, FollowingItemsFacts DEF IInv, FollowingList
  <2>4. ~(Cardinality(Thunder(cursor)) >= PageLimit + 1)
    BY <1>3, <2>1, <2>3, Numbers
  <2>5. Thunder(cursor) = Pool(cursor)
    BY <1>8, <2>4, NewestFull
  <2>6. CASE p \in Pool(cursor)
    <3>1. PICK n \in 1..Len(newest) : newest[n].id = p
      BY <1>1, <2>2, <2>5, <2>6, FetchedListed
    <3>2. QED
      BY <1>4, <2>1, <3>1
  <2>7. QED
    BY <1>7, <2>6
<1>11. QED
  BY <1>9, <1>10

-------------------------------------------------------------------------------
(* A page of For You                                                       *)

Different(s) == \A m, n \in 1..Len(s) : m # n => Conversation(s[m]) # Conversation(s[n])

(* dedupe_conversations picks from the ranked list, and one item for each  *)
(* conversation: the root, of which there is one, or else the first reply. *)
LEMMA DedupedFacts ==
    ASSUME NEW S, NEW ranked \in Seq(S), NEW best \in Deduped(ranked),
           \A m, n \in 1..Len(ranked) : m # n => ranked[m].id # ranked[n].id
    PROVE  best \in Seq(S) /\ Different(best)
<1> DEFINE roots == {Conversation(i) : i \in {j \in ToSet(ranked) : IsRoot(j)}}
           kept  == {n \in DOMAIN ranked :
                       \/ IsRoot(ranked[n])
                       \/ /\ Conversation(ranked[n]) \notin roots
                          /\ \A m \in 1..(n - 1) : Conversation(ranked[m]) # Conversation(ranked[n])}
<1>1. PICK order \in SetToSeqs(kept) : best = [k \in DOMAIN order |-> ranked[order[k]]]
  BY Zenon DEF Deduped, Orderings
<1>2. kept \subseteq 1..Len(ranked) /\ Len(ranked) \in Nat
  OBVIOUS
<1>3. ASSUME NEW a \in kept, NEW b \in kept, a < b
      PROVE  Conversation(ranked[a]) # Conversation(ranked[b])
  <2>1. a \in 1..Len(ranked) /\ b \in 1..Len(ranked) /\ a \in 1..(b - 1) /\ a # b
    BY <1>2, <1>3
  <2>2. CASE ~IsRoot(ranked[b])
    BY <2>1, <2>2
  <2>3. CASE IsRoot(ranked[b]) /\ IsRoot(ranked[a])
    <3>1. Conversation(ranked[a]) = ranked[a].id /\ Conversation(ranked[b]) = ranked[b].id
      BY <2>3 DEF Conversation, Root, IsRoot
    <3>2. QED
      BY <2>1, <3>1
  <2>4. CASE IsRoot(ranked[b]) /\ ~IsRoot(ranked[a])
    <3>1. Conversation(ranked[a]) \notin roots
      BY <2>4
    <3>2. Conversation(ranked[b]) \in roots
      BY <2>1, <2>4 DEF ToSet
    <3>3. QED
      BY <3>1, <3>2
  <2>5. QED
    BY <2>2, <2>3, <2>4
<1> HIDE DEF kept
<1>4. IsFiniteSet(kept)
  <2>1. IsFiniteSet(1..Len(ranked))
    BY <1>2, FS_Interval
  <2>2. QED
    BY <1>2, <2>1, FS_Subset
<1>5. /\ order \in Seq(kept) /\ DOMAIN order = 1..Len(order) /\ Len(order) \in Nat
      /\ \A j, k \in 1..Len(order) : j # k => order[j] # order[k]
  <2>1. order \in Seq(kept) /\ DOMAIN order = 1..Len(order) /\ Len(order) \in Nat
    BY <1>4, ListingFacts
  <2>2. \A j, k \in DOMAIN order : j # k => order[j] # order[k]
    BY DEF SetToSeqs
  <2>3. QED
    BY <2>1, <2>2
<1>6. \A k \in 1..Len(order) : order[k] \in kept /\ order[k] \in 1..Len(ranked)
  <2>1. \A k \in 1..Len(order) : order[k] \in kept
    BY <1>5
  <2>2. QED
    BY <1>2, <2>1
<1>7. \A k \in 1..Len(order) : ranked[order[k]] \in S
  BY <1>6
<1>8. best \in [1..Len(order) -> S] /\ \A k \in 1..Len(order) : best[k] = ranked[order[k]]
  BY <1>1, <1>5, <1>7
<1>9. best \in Seq(S) /\ Len(best) = Len(order)
  BY <1>5, <1>8
<1>10. ASSUME NEW m \in 1..Len(best), NEW n \in 1..Len(best), m # n
       PROVE  Conversation(best[m]) # Conversation(best[n])
  <2>1. /\ order[m] \in kept /\ order[n] \in kept /\ order[m] # order[n]
        /\ order[m] \in Nat /\ order[n] \in Nat
        /\ best[m] = ranked[order[m]] /\ best[n] = ranked[order[n]]
    BY <1>5, <1>6, <1>8, <1>9, <1>10
  <2>2. order[m] < order[n] \/ order[n] < order[m]
    BY <2>1
  <2>3. QED
    BY <1>3, <2>1, <2>2
<1>11. QED
  BY <1>9, <1>10 DEF Different

HomeItems(oon) ==
    {Item(HomePolicy, query, p, "thunder") : p \in Thunder(cursor)}
    \cup {Item(HomePolicy, query, p, "oon") : p \in oon}

(* The list a page of For You is cut from, and where its items come from.  *)
HomeList(oon, best) ==
    /\ oon \in SUBSET Post
    /\ best \in Seq(Kept(HomeItems(oon))) /\ Different(best)
    /\ Select(best)
    /\ weighed' = weighed \cup Thunder(cursor)
    /\ strayed' = (strayed \/ (phase' = "idle" /\ Last(page').source = "oon"))

(* What the items of the two sources are.                                  *)
LEMMA HomeItemsFacts ==
    ASSUME PagesTypeOK, NEW oon \in SUBSET Post
    PROVE  /\ IsFiniteSet(Kept(HomeItems(oon)))
           /\ oon \cap Thunder(cursor) = {} =>
                 \A i, j \in HomeItems(oon) : i.id = j.id => i = j
           /\ \A i \in HomeItems(oon) : \E p \in Post :
                 /\ i.source \in {"thunder", "oon"} /\ i = Item(HomePolicy, query, p, i.source)
                 /\ i.id = p
                 /\ i.source # "oon" => p \in Thunder(cursor)
<1> DEFINE A == {Item(HomePolicy, query, p, "thunder") : p \in Thunder(cursor)}
           B == {Item(HomePolicy, query, p, "oon") : p \in oon}
<1>1. Thunder(cursor) \in SUBSET Post
  BY ThunderFacts
<1>2. IsFiniteSet(A) /\ IsFiniteSet(B)
  <2>1. IsFiniteSet(A)
    BY <1>1, ItemsCount
  <2>2. IsFiniteSet(B)
    BY ItemsCount
  <2>3. QED
    BY <2>1, <2>2
<1>3. HomeItems(oon) = A \cup B
  BY DEF HomeItems
<1>4. ASSUME NEW i \in HomeItems(oon)
      PROVE  \E p \in Post :
                 /\ i.source \in {"thunder", "oon"} /\ i = Item(HomePolicy, query, p, i.source)
                 /\ i.id = p
                 /\ i.source # "oon" => p \in Thunder(cursor)
  <2>1. CASE \E p \in Thunder(cursor) : i = Item(HomePolicy, query, p, "thunder")
    <3>1. PICK p \in Thunder(cursor) : i = Item(HomePolicy, query, p, "thunder")
      BY <2>1
    <3>2. i.source = "thunder" /\ i.id = p
      BY <3>1, ItemFields
    <3>3. QED
      BY <1>1, <3>1, <3>2
  <2>2. CASE \E p \in oon : i = Item(HomePolicy, query, p, "oon")
    <3>1. PICK p \in oon : i = Item(HomePolicy, query, p, "oon")
      BY <2>2
    <3>2. i.source = "oon" /\ i.id = p
      BY <3>1, ItemFields
    <3>3. QED
      BY <3>1, <3>2
  <2>3. QED
    BY <2>1, <2>2 DEF HomeItems
<1>5. ASSUME oon \cap Thunder(cursor) = {}, NEW i \in HomeItems(oon), NEW j \in HomeItems(oon),
             i.id = j.id
      PROVE  i = j
  <2>1. \A k \in HomeItems(oon) :
           \/ k.id \in Thunder(cursor) /\ k = Item(HomePolicy, query, k.id, "thunder")
           \/ k.id \in oon /\ k = Item(HomePolicy, query, k.id, "oon")
    BY <1>3, ItemFields
  <2>2. QED
    BY <1>5, <2>1
<1> HIDE DEF A, B
<1>6. IsFiniteSet(HomeItems(oon))
  BY <1>2, <1>3, FS_Union
<1>7. Kept(HomeItems(oon)) \in SUBSET HomeItems(oon)
  BY DEF Kept
<1>8. QED
  BY <1>4, <1>5, <1>6, <1>7, FS_Subset

(* What SourceBlender puts together.                                       *)
LEMMA BlendFacts ==
    ASSUME NEW blend \in Blends(query, cursor)
    PROVE  /\ blend.thunder = Thunder(cursor) /\ blend.oon \in SUBSET Post
           /\ blend.oon \cap Thunder(cursor) = {}
<1>1. PICK s \in SimilarPosts(query) :
         blend = [thunder |-> Thunder(cursor), oon |-> s \ Thunder(cursor)]
  BY Zenon DEF Blends
<1>2. s \in SUBSET Post
  BY DEF SimilarPosts
<1>3. QED
  BY <1>1, <1>2

(* A page of For You is cut from such a list.                              *)
LEMMA ForYouFacts ==
    ASSUME PagesTypeOK, AnswerForYou
    PROVE  \E oon, best : HomeList(oon, best)
<1>1. PICK blend \in Blends(query, cursor) :
         /\ \E ranked \in Rankings(Kept(HomeItems(blend.oon))) :
               \E best \in Deduped(ranked) : Select(best)
         /\ weighed' = weighed \cup blend.thunder
         /\ strayed' = (strayed \/ (phase' = "idle" /\ Last(page').source = "oon"))
         /\ blend.thunder = Thunder(cursor)
  BY BlendFacts, Zenon DEF AnswerForYou, HomeItems
<1>2. blend.oon \in SUBSET Post
  BY BlendFacts
<1>3. PICK ranked \in Rankings(Kept(HomeItems(blend.oon))) : \E best \in Deduped(ranked) : Select(best)
  BY <1>1
<1>4. /\ ranked \in Seq(Kept(HomeItems(blend.oon)))
      /\ \A m, n \in 1..Len(ranked) : m # n => ranked[m].id # ranked[n].id
  <2>1. /\ ranked \in Seq(Kept(HomeItems(blend.oon)))
        /\ DOMAIN ranked = 1..Len(ranked)
    BY <1>2, HomeItemsFacts, ListingFacts DEF Rankings
  <2>2. \A m, n \in DOMAIN ranked : m # n => ranked[m] # ranked[n]
    BY DEF Rankings, SetToSeqs
  <2>3. \A m \in 1..Len(ranked) : ranked[m] \in HomeItems(blend.oon)
    BY <2>1 DEF Kept
  <2>4. \A i, j \in HomeItems(blend.oon) : i.id = j.id => i = j
    BY <1>2, BlendFacts, HomeItemsFacts
  <2>5. QED
    BY <2>1, <2>2, <2>3, <2>4
<1>5. PICK best \in Deduped(ranked) : Select(best)
  BY <1>3
<1>6. best \in Seq(Kept(HomeItems(blend.oon))) /\ Different(best)
  BY <1>4, DedupedFacts
<1>7. HomeList(blend.oon, best)
  BY <1>1, <1>2, <1>5, <1>6 DEF HomeList
<1>8. QED
  BY <1>7

(* What SelectFacts says about it.                                         *)
LEMMA ForYouPage ==
    ASSUME PagesTypeOK, NEW oon, NEW best, HomeList(oon, best)
    PROVE  /\ shown' \in Seq(Post)
           /\ OnPage' \subseteq Kept(HomeItems(oon))
           /\ DOMAIN page' = 1..Len(page') /\ Different(page')
           /\ \/ /\ phase' = "idle" /\ Last(page') \in HomeItems(oon)
                 /\ cursor' = Last(page').id
              \/ phase' = "done" /\ cursor' = cursor
<1>1. shown \in Seq(Post) /\ best \in Seq(Kept(HomeItems(oon))) /\ Select(best)
  BY DEF PagesTypeOK, ScrollTypeOK, HomeList
<1>2. \A i \in Kept(HomeItems(oon)) : i.id \in Post
  BY HomeItemsFacts DEF Kept, HomeList
<1>3. /\ Fits(best) \in Nat /\ Fits(best) <= Len(best)
      /\ page' \in Seq(Kept(HomeItems(oon))) /\ Len(page') = Fits(best)
      /\ \A n \in 1..Fits(best) : page'[n] = best[n]
      /\ shown' \in Seq(Post)
      /\ Len(best) > PageLimit =>
            phase' = "idle" /\ Fits(best) = PageLimit /\ cursor' = best[PageLimit].id
      /\ ~(Len(best) > PageLimit) => phase' = "done" /\ cursor' = cursor
  BY <1>1, <1>2, SelectFacts
<1>4. OnPage' \subseteq Kept(HomeItems(oon))
  BY <1>3 DEF OnPage, ToSet
<1>5. Different(page')
  <2>1. \A n \in 1..Len(page') : n \in 1..Len(best) /\ page'[n] = best[n]
    BY <1>1, <1>3
  <2>2. Different(best)
    BY DEF HomeList
  <2>3. QED
    BY <2>1, <2>2 DEF Different
<1>6. CASE Len(best) > PageLimit
  <2>1. PageLimit \in 1..Fits(best) /\ Len(page') = PageLimit
    BY <1>3, <1>6, Numbers
  <2>2. Last(page') = page'[PageLimit] /\ page'[PageLimit] = best[PageLimit]
    BY <1>3, <2>1 DEF Last
  <2>3. page'[PageLimit] \in Kept(HomeItems(oon))
    BY <1>3, <2>1
  <2>4. Last(page') \in HomeItems(oon) /\ cursor' = Last(page').id
    <3>1. Kept(HomeItems(oon)) \subseteq HomeItems(oon)
      BY DEF Kept
    <3>2. QED
      BY <1>3, <1>6, <2>2, <2>3, <3>1
  <2>5. QED
    BY <1>3, <1>4, <1>5, <1>6, <2>4
<1>7. DOMAIN page' = 1..Len(page')
  BY <1>3
<1>8. QED
  BY <1>3, <1>4, <1>5, <1>6, <1>7

(* A cursor that For You takes from the network lies in what was weighed,  *)
(* which is closed upwards.                                                *)
LEMMA ForYouCovers ==
    ASSUME IInv, AnswerForYou
    PROVE  ForYouWeighs'
<1>1. PICK oon, best : HomeList(oon, best)
  BY ForYouFacts DEF IInv
<1>2. surface = "for_you" /\ phase = "asked" /\ surface' = surface /\ steady' = steady
  BY DEF AnswerForYou
<1> SUFFICES ASSUME phase' # "done", ~strayed', NEW p \in steady, p >= cursor'
             PROVE  p \in weighed'
  BY <1>2 DEF ForYouWeighs
<1>3. oon \in SUBSET Post /\ Last(page') \in HomeItems(oon) /\ cursor' = Last(page').id /\ phase' = "idle"
  BY <1>1, ForYouPage DEF IInv, HomeList
<1>4. ~strayed /\ Last(page').source # "oon" /\ weighed' = weighed \cup Thunder(cursor)
  BY <1>1, <1>3 DEF HomeList
<1>5. cursor' \in Thunder(cursor)
  BY <1>3, <1>4, HomeItemsFacts DEF IInv
<1>6. p \in Nat /\ p <= NPosts /\ cursor \in Nat
  BY Numbers DEF IInv, PagesTypeOK, ScrollTypeOK
<1>7. CASE p >= cursor
  <2>1. cursor <= NPosts
    BY <1>6, <1>7, Numbers
  <2>2. p \in weighed
    BY <1>2, <1>4, <1>7, <2>1 DEF IInv, ForYouWeighs
  <2>3. QED
    BY <1>4, <2>2
<1>8. CASE ~(p >= cursor)
  <2>1. Visible(p) /\ p < cursor
    BY <1>6, <1>8 DEF IInv, SteadyVisible
  <2>2. p \in Pool(cursor)
    BY <2>1 DEF Visible, Pool
  <2>3. /\ Thunder(cursor) = Newest(Pool(cursor), PageLimit + 1)
        /\ Pool(cursor) \in SUBSET Post /\ PageLimit + 1 \in Nat
    BY ThunderFacts, Numbers DEF IInv
  <2>4. p \in Thunder(cursor)
    BY <1>5, <2>2, <2>3, NewestClosed
  <2>5. QED
    BY <1>4, <2>4
<1>9. QED
  BY <1>7, <1>8

-------------------------------------------------------------------------------
(* What is on a page                                                       *)

(* A step that commits nothing changes nothing that a request could read.  *)
LEMMA NothingCommitted ==
    ASSUME UNCHANGED <<world, lists, adult>>
    PROVE  /\ CurrentQuery' = CurrentQuery
           /\ \A p, s : Candidate(p, s)' = Candidate(p, s)
           /\ \A p : Visible(p)' <=> Visible(p)
           /\ \A p : LabelsOf(p)' = LabelsOf(p)
           /\ deleted' = deleted
<1>1. UNCHANGED <<published, deleted, rows, suspended, private, flagged, limited, follows, blocked, muted,
                  keywords, feedback, adult>>
  BY DEF world, lists, labels, standing
<1>2. CurrentQuery' = CurrentQuery
  BY <1>1 DEF CurrentQuery
<1>3. \A p : Public(p)' <=> Public(p)
  BY <1>1 DEF Public
<1>7. \A p : LabelsOf(p)' = LabelsOf(p)
  BY <1>1 DEF LabelsOf
<1>4. \A p, s : Candidate(p, s)' = Candidate(p, s)
  <2>2. \A p : Hydrated(p)' = Hydrated(p)
    BY <1>1, <1>3 DEF Hydrated
  <2>3. QED
    BY <1>1, <1>7, <2>2 DEF Candidate
<1>5. \A p : Visible(p)' <=> Visible(p)
  BY <1>1, <1>2, <1>3, <1>4 DEF Visible
<1>6. QED
  BY <1>1, <1>2, <1>4, <1>5, <1>7

Judged(i, policy, q, p, source) ==
    i = Item(policy, q, p, source) /\ i.verdict # "drop"

(* Between them, ViewerAgeGate, SensitiveInterstitial and, for what comes  *)
(* from outside the network, OonAmplification leave no NSFW post plain; of *)
(* a plain item, only the reference may be one.                            *)
LEMMA NeverPlain ==
    ASSUME NEW policy, {"ViewerAgeGate", "SensitiveInterstitial"} \subseteq policy,
           NEW source, source = "oon" => "OonAmplification" \in policy,
           NEW q, q.adult \in BOOLEAN, NEW p, NEW i, Judged(i, policy, q, p, source)
    PROVE  /\ "nsfw" \in i.labels => q.adult /\ i.verdict = "interstitial" /\ i.sensitive = {}
           /\ i.sensitive \subseteq {Content[i.id].refersTo}
<1>0. SUFFICES ASSUME "nsfw" \in i.labels PROVE q.adult /\ i.verdict = "interstitial"
  <2>1. /\ i.id = p /\ i.labels = LabelsOf(p)
        /\ i.sensitive = {b \in BodiesOf(p, i.verdict) : "nsfw" \in LabelsOf(b)}
    BY ItemFields DEF Judged
  <2>2. i.verdict = "interstitial" => i.sensitive = {}
    BY <2>1 DEF BodiesOf
  <2>3. "nsfw" \notin LabelsOf(p) => i.sensitive \subseteq {Content[p].refersTo}
    BY <2>1 DEF BodiesOf
  <2>4. QED
    BY <2>1, <2>2, <2>3
<1> DEFINE c == Candidate(p, source)
<1>1. /\ c.labels = i.labels /\ c.source = source /\ i.verdict = Verdict(policy, q, c)
      /\ "nsfw" \in i.labels
  BY <1>0, ItemFields DEF Judged, Candidate
<1> HIDE DEF c
<1>2. \A rule \in policy : ~Drops(rule, q, c)
  BY <1>1, VerdictDrops DEF Judged
<1>3. q.adult
  <2>1. ~Drops("ViewerAgeGate", q, c)
    BY <1>2
  <2>2. QED
    BY <1>1, <2>1 DEF Drops, Nsfw
<1>4. source # "oon"
  <2>1. ASSUME source = "oon" PROVE FALSE
    <3>1. ~Drops("OonAmplification", q, c)
      BY <1>2, <2>1
    <3>2. QED
      BY <1>1, <2>1, <3>1 DEF Drops, AmplificationLabels
  <2>2. QED
    BY <2>1
<1>5. Sensitive(q, c)
  BY <1>1, <1>3, <1>4 DEF Sensitive, Nsfw
<1>6. QED
  BY <1>1, <1>3, <1>5, VerdictDrops DEF Judged

(* The rules a surface has.                                                *)
LEMMA Policies ==
    /\ {"ViewerAgeGate", "SensitiveInterstitial"} \subseteq ThreadPolicy
    /\ {"ViewerAgeGate", "SensitiveInterstitial"} \subseteq FollowingPolicy
    /\ {"ViewerAgeGate", "SensitiveInterstitial", "OonAmplification"} \subseteq HomePolicy
BY DEF ThreadPolicy, FollowingPolicy, HomePolicy

(* No answer puts an NSFW post on a page in plain.                         *)
LEMMA AnswersNeverPlain ==
    ASSUME IInv, AnswerFollowing \/ AnswerForYou \/ AnswerThread
    PROVE  SensitiveOnlyQuoted' /\ \A i \in OnPage' : i.id \in Post /\ i.source \in Source
<1>1. adult' = adult /\ adult \in BOOLEAN /\ query.adult = adult /\ CurrentQuery.adult = adult
  BY DEF IInv, PagesTypeOK, ScrollTypeOK, AgeKnown, CurrentQuery, AnswerFollowing, AnswerForYou,
         AnswerThread
<1>2. CASE AnswerFollowing
  <2>1. OnPage' \subseteq Kept(FollowingItems)
    BY <1>2, FollowingFacts, FollowingPage DEF IInv
  <2>2. ASSUME NEW i \in OnPage'
        PROVE  \E p \in Post : Judged(i, FollowingPolicy, query, p, "in_network")
    BY <2>1, ThunderFacts DEF IInv, Kept, FollowingItems, Judged
  <2>3. SensitiveOnlyQuoted'
    <3>1. \A i \in OnPage' :
            /\ "nsfw" \in i.labels => query.adult /\ i.verdict = "interstitial" /\ i.sensitive = {}
            /\ i.sensitive \subseteq {Content[i.id].refersTo}
      <4> TAKE i \in OnPage'
      <4>1. PICK p \in Post : Judged(i, FollowingPolicy, query, p, "in_network")
        BY <2>2
      <4>2. query.adult \in BOOLEAN
        BY <1>1
      <4>3. QED
        BY <4>1, <4>2, NeverPlain, Policies
    <3>2. QED
      BY <1>1, <3>1 DEF SensitiveOnlyQuoted
  <2>4. \A i \in OnPage' : i.id \in Post /\ i.source \in Source
    BY <2>2, ItemFields DEF Judged, Source
  <2>5. QED
    BY <2>3, <2>4
<1>3. CASE AnswerForYou
  <2>1. PICK oon, best : HomeList(oon, best)
    BY <1>3, ForYouFacts DEF IInv
  <2>2. OnPage' \subseteq Kept(HomeItems(oon)) /\ oon \in SUBSET Post
    BY <2>1, ForYouPage DEF IInv, HomeList
  <2>3. ASSUME NEW i \in OnPage'
        PROVE  \E p \in Post, source \in {"thunder", "oon"} :
                  Judged(i, HomePolicy, query, p, source)
    BY <2>2, HomeItemsFacts DEF IInv, Kept, Judged
  <2>4. SensitiveOnlyQuoted'
    <3>1. \A i \in OnPage' :
            /\ "nsfw" \in i.labels => query.adult /\ i.verdict = "interstitial" /\ i.sensitive = {}
            /\ i.sensitive \subseteq {Content[i.id].refersTo}
      <4> TAKE i \in OnPage'
      <4>1. PICK p \in Post, source \in {"thunder", "oon"} :
                Judged(i, HomePolicy, query, p, source)
        BY <2>3
      <4>2. query.adult \in BOOLEAN
        BY <1>1
      <4>3. QED
        BY <4>1, <4>2, NeverPlain, Policies
    <3>2. QED
      BY <1>1, <3>1 DEF SensitiveOnlyQuoted
  <2>5. \A i \in OnPage' : i.id \in Post /\ i.source \in Source
    BY <2>3, ItemFields DEF Judged, Source
  <2>6. QED
    BY <2>4, <2>5
<1>4. CASE AnswerThread
  <2>1. OnPage' \subseteq Kept(ThreadItems)
    <3> DEFINE listed == {i \in Kept(ThreadItems) : i.id \in ThreadOf({j.id : j \in Kept(ThreadItems)})}
    <3>1. page' \in SetToSeqs(listed)
      BY <1>4, Zenon DEF AnswerThread, Orderings
    <3>2. \A i \in OnPage' : i \in listed
      <4> HIDE DEF listed
      <4>1. QED
        BY <3>1 DEF SetToSeqs, OnPage, ToSet
    <3>3. QED
      BY <3>2
  <2>2. ASSUME NEW i \in OnPage'
        PROVE  \E p \in Post : Judged(i, ThreadPolicy, CurrentQuery, p, "in_network")
    BY <2>1 DEF IInv, PagesTypeOK, ScrollTypeOK, Kept, ThreadItems, Judged
  <2>3. SensitiveOnlyQuoted'
    <3>1. \A i \in OnPage' :
            /\ "nsfw" \in i.labels =>
                  CurrentQuery.adult /\ i.verdict = "interstitial" /\ i.sensitive = {}
            /\ i.sensitive \subseteq {Content[i.id].refersTo}
      <4> TAKE i \in OnPage'
      <4>1. PICK p \in Post : Judged(i, ThreadPolicy, CurrentQuery, p, "in_network")
        BY <2>2
      <4>2. CurrentQuery.adult \in BOOLEAN
        BY <1>1
      <4>3. QED
        BY <4>1, <4>2, NeverPlain, Policies
    <3>2. QED
      BY <1>1, <3>1 DEF SensitiveOnlyQuoted
  <2>4. \A i \in OnPage' : i.id \in Post /\ i.source \in Source
    BY <2>2, ItemFields DEF Judged, Source
  <2>5. QED
    BY <2>3, <2>4
<1>5. QED
  BY <1>2, <1>3, <1>4

(* A thread holds what can be read from its root downwards.                *)
LEMMA ThreadConnects ==
    ASSUME IInv, AnswerThread
    PROVE  ThreadIsConnected'
<1> DEFINE kept == Kept(ThreadItems)
           ids == {i.id : i \in kept}
           listed == {i \in kept : i.id \in ThreadOf(ids)}
<1>1. ids \in SUBSET Post
  BY ItemFields DEF IInv, PagesTypeOK, ScrollTypeOK, Kept, ThreadItems
<1>2. IsFiniteSet(listed)
  <2>1. found \in SUBSET Post
    BY DEF IInv, PagesTypeOK, ScrollTypeOK
  <2>2. IsFiniteSet(kept)
    BY <2>1, ItemsCount DEF ThreadItems
  <2>3. listed \in SUBSET kept
    OBVIOUS
  <2> HIDE DEF listed, kept
  <2>4. QED
    BY <2>2, <2>3, FS_Subset
<1>3. OnPage' = listed
  <2>1. page' \in SetToSeqs(listed)
    BY Zenon DEF AnswerThread, Orderings
  <2> HIDE DEF listed
  <2>2. ToSet(page') = listed
    BY <1>2, <2>1, ListingFacts
  <2>3. QED
    BY <2>2 DEF OnPage
<1>4. ThreadItems' = ThreadItems
  <2>1. UNCHANGED <<world, lists, adult, found>>
    BY DEF AnswerThread
  <2>2. \A p, s : Candidate(p, s)' = Candidate(p, s)
    BY <2>1, NothingCommitted
  <2>3. CurrentQuery' = CurrentQuery
    BY <2>1, NothingCommitted
  <2>5. deleted' = deleted /\ \A p : LabelsOf(p)' = LabelsOf(p)
    BY <2>1, NothingCommitted
  <2>4. QED
    BY <2>1, <2>2, <2>3, <2>5 DEF ThreadItems, Item, BodiesOf
<1>5. Kept(ThreadItems)' = kept
  BY <1>4 DEF Kept
<1>6. {i.id : i \in OnPage'} = ThreadOf(ids)
  <2>1. ThreadOf(ids) \subseteq ids
    BY <1>1, ThreadFixpoint
  <2>2. QED
    BY <1>3, <2>1
<1>7. \A i \in kept : i.id \in ThreadOf(ids) <=> IsRoot(i) \/ Content[i.id].parent \in ThreadOf(ids)
  <2>1. \A i \in kept : i.id \in ids
    OBVIOUS
  <2> HIDE DEF ids, kept
  <2>2. QED
    BY <1>1, <2>1, ThreadFixpoint DEF IsRoot
<1> HIDE DEF kept, ids, listed
<1>8. QED
  BY <1>5, <1>6, <1>7 DEF ThreadIsConnected, IsRoot

-------------------------------------------------------------------------------
(* The invariant                                                           *)

(* Most of the invariant speaks of what a step leaves alone.               *)
LEMMA WorldTypeSame ==
    ASSUME WorldTypeOK, UNCHANGED <<world, lists>>
    PROVE  WorldTypeOK'
BY DEF WorldTypeOK, world, lists, labels, standing

(* Whoever was visible still is, if nothing was committed.                 *)
LEMMA SteadySame ==
    ASSUME SteadyVisible, UNCHANGED <<world, lists, adult, steady>>
    PROVE  SteadyVisible'
BY NothingCommitted DEF SteadyVisible

(* A request of a feed begins.                                             *)
LEMMA AskKeeps ==
    ASSUME IInv, Ask
    PROVE  IInv'
<1> USE DEF IInv
<1>1. /\ UNCHANGED <<world, lists, surface, adult, found, cursor, page, shown, dropped, weighed, strayed>>
      /\ phase = "idle" /\ phase' = "asked" /\ query' = CurrentQuery /\ surface # "thread"
      /\ steady' = IF First THEN {p \in Post : Visible(p)} ELSE steady
  BY DEF Ask
<1>2. PagesTypeOK'
  BY <1>1, WorldTypeSame DEF PagesTypeOK, ScrollTypeOK, OnPage
<1>3. AgeKnown'
  BY <1>1 DEF AgeKnown, CurrentQuery
<1>4. steady' \subseteq {p \in Post : Visible(p)}
  BY <1>1 DEF SteadyVisible
<1>5. SteadyVisible'
  BY <1>1, <1>4, NothingCommitted DEF SteadyVisible
<1>7. FollowingDescends' /\ ShownAbove' /\ SensitiveOnlyQuoted'
  BY <1>1 DEF FollowingDescends, ShownAbove, SensitiveOnlyQuoted, OnPage
<1>8. NoGaps' /\ ForYouWeighs'
  <2>1. CASE First
    <3>1. ~(cursor' <= NPosts)
      BY <1>1, <2>1, Numbers DEF First
    <3>2. QED
      BY <3>1 DEF NoGaps, ForYouWeighs
  <2>2. CASE ~First
    BY <1>1, <2>2 DEF NoGaps, ForYouWeighs, ShownPosts
  <2>3. QED
    BY <2>1, <2>2
<1>9. EndMeansEndUndropped' /\ ThreadIsConnected'
  BY <1>1 DEF EndMeansEndUndropped, EndMeansEnd, ThreadIsConnected
<1>10. QED
  BY <1>2, <1>3, <1>5, <1>7, <1>8, <1>9

(* A page of Following is out.                                             *)
LEMMA FollowingKeeps ==
    ASSUME IInv, AnswerFollowing
    PROVE  IInv'
<1> USE DEF IInv
<1>1. /\ UNCHANGED <<world, lists, surface, adult, query, found, steady, weighed, strayed>>
      /\ surface = "following" /\ dropped' = (dropped \/ Kept(FollowingItems) # FollowingItems)
  BY DEF AnswerFollowing, FollowingItems
<1>2. PICK newest : FollowingList(newest)
  BY FollowingFacts
<1>3. shown' \in Seq(Post) /\ phase' \in {"idle", "done"}
  BY <1>2, FollowingPage
<1>4. cursor' \in 1..(NPosts + 1)
  <2>1. CASE Len(newest) > PageLimit
    <3>1. PageLimit \in 1..Len(newest)
      BY <1>2, <2>1, Numbers DEF FollowingList
    <3>2. cursor' \in Post
      BY <1>2, <2>1, <3>1, FollowingPage, ThunderFacts DEF FollowingList
    <3>3. QED
      BY <3>2, Numbers
  <2>2. CASE ~(Len(newest) > PageLimit)
    BY <1>2, <2>2, FollowingPage DEF PagesTypeOK, ScrollTypeOK
  <2>3. QED
    BY <2>1, <2>2
<1>5. SensitiveOnlyQuoted' /\ \A i \in OnPage' : i.id \in Post /\ i.source \in Source
  BY AnswersNeverPlain
<1>6. dropped' \in BOOLEAN
  BY <1>1 DEF PagesTypeOK, ScrollTypeOK
<1>7. PagesTypeOK'
  BY <1>1, <1>3, <1>4, <1>5, <1>6, WorldTypeSame DEF PagesTypeOK, ScrollTypeOK
<1>8. AgeKnown' /\ SteadyVisible'
  BY <1>1, SteadySame DEF AgeKnown
<1>10. FollowingDescends' /\ ShownAbove' /\ NoGaps' /\ EndMeansEndUndropped'
  BY FollowingDescent, FollowingCovers
<1>11. ForYouWeighs' /\ ThreadIsConnected'
  BY <1>1 DEF ForYouWeighs, ThreadIsConnected
<1>12. QED
  BY <1>5, <1>7, <1>8, <1>10, <1>11

(* A page of For You is out.                                               *)
LEMMA ForYouKeeps ==
    ASSUME IInv, AnswerForYou
    PROVE  IInv'
<1> USE DEF IInv
<1>1. /\ UNCHANGED <<world, lists, surface, adult, query, found, steady>>
      /\ surface = "for_you" /\ dropped' \in BOOLEAN
  <2>1. UNCHANGED <<world, lists, surface, adult, query, found, steady>> /\ surface = "for_you"
    BY DEF AnswerForYou
  <2>2. \E x : dropped' = (dropped \/ x)
    BY Zenon DEF AnswerForYou
  <2>3. dropped' \in BOOLEAN
    BY <2>2
  <2>4. QED
    BY <2>1, <2>3
<1>2. PICK oon, best : HomeList(oon, best)
  BY ForYouFacts
<1>3. oon \in SUBSET Post /\ shown' \in Seq(Post) /\ phase' \in {"idle", "done"}
  BY <1>2, ForYouPage DEF HomeList
<1>4. cursor' \in 1..(NPosts + 1)
  <2>1. CASE cursor' = cursor
    BY <2>1 DEF PagesTypeOK, ScrollTypeOK
  <2>2. CASE cursor' # cursor
    <3>1. Last(page') \in HomeItems(oon) /\ cursor' = Last(page').id
      BY <1>2, <2>2, ForYouPage
    <3>2. cursor' \in Post
      BY <1>3, <3>1, HomeItemsFacts
    <3>3. QED
      BY <3>2, Numbers
  <2>3. QED
    BY <2>1, <2>2
<1>5. SensitiveOnlyQuoted' /\ \A i \in OnPage' : i.id \in Post /\ i.source \in Source
  BY AnswersNeverPlain
<1>6. strayed' \in BOOLEAN /\ weighed' \subseteq Post
  <2>1. strayed' \in BOOLEAN
    BY <1>2 DEF HomeList, PagesTypeOK, ScrollTypeOK
  <2>2. weighed' \subseteq Post
    BY <1>2, ThunderFacts DEF HomeList, PagesTypeOK, ScrollTypeOK
  <2>3. QED
    BY <2>1, <2>2
<1>7. PagesTypeOK'
  BY <1>1, <1>3, <1>4, <1>5, <1>6, WorldTypeSame DEF PagesTypeOK, ScrollTypeOK
<1>8. AgeKnown' /\ SteadyVisible'
  BY <1>1, SteadySame DEF AgeKnown
<1>10. ForYouWeighs'
  BY ForYouCovers
<1>11. /\ FollowingDescends' /\ ShownAbove' /\ NoGaps' /\ EndMeansEndUndropped'
       /\ ThreadIsConnected'
  BY <1>1 DEF FollowingDescends, ShownAbove, NoGaps, EndMeansEndUndropped, EndMeansEnd,
              ThreadIsConnected
<1>12. QED
  BY <1>5, <1>7, <1>8, <1>10, <1>11

(* A thread is asked for,                                                  *)
LEMMA AskThreadKeeps ==
    ASSUME IInv, NEW p \in Post, AskThread(p)
    PROVE  IInv'
<1> USE DEF IInv
<1>1. /\ UNCHANGED <<world, lists, surface, adult, query, cursor, page, shown, steady, dropped, weighed, strayed>>
      /\ surface = "thread" /\ phase' = "asked" /\ found' \subseteq Post
  BY DEF AskThread
<1>2. PagesTypeOK'
  BY <1>1, WorldTypeSame DEF PagesTypeOK, ScrollTypeOK, OnPage
<1>3. AgeKnown' /\ SteadyVisible' /\ SensitiveOnlyQuoted'
  BY <1>1, SteadySame DEF AgeKnown, SensitiveOnlyQuoted, OnPage
<1>4. /\ FollowingDescends' /\ ShownAbove' /\ NoGaps' /\ EndMeansEndUndropped'
      /\ ForYouWeighs' /\ ThreadIsConnected'
  BY <1>1 DEF FollowingDescends, ShownAbove, NoGaps, EndMeansEndUndropped, EndMeansEnd,
              ForYouWeighs, ThreadIsConnected
<1>5. QED
  BY <1>2, <1>3, <1>4

(* and answered.                                                           *)
LEMMA ThreadKeeps ==
    ASSUME IInv, AnswerThread
    PROVE  IInv'
<1> USE DEF IInv
<1>1. /\ UNCHANGED <<world, lists, surface, adult, found, cursor, shown, steady, dropped, weighed, strayed>>
      /\ surface = "thread" /\ phase' = "done" /\ query' = CurrentQuery
  BY DEF AnswerThread
<1>2. SensitiveOnlyQuoted' /\ \A i \in OnPage' : i.id \in Post /\ i.source \in Source
  BY AnswersNeverPlain
<1>3. PagesTypeOK'
  BY <1>1, <1>2, WorldTypeSame DEF PagesTypeOK, ScrollTypeOK
<1>4. AgeKnown' /\ SteadyVisible'
  BY <1>1, SteadySame DEF AgeKnown, CurrentQuery
<1>5. /\ FollowingDescends' /\ ShownAbove' /\ NoGaps' /\ EndMeansEndUndropped' /\ ForYouWeighs'
  BY <1>1 DEF FollowingDescends, ShownAbove, NoGaps, EndMeansEndUndropped, EndMeansEnd, ForYouWeighs
<1>6. ThreadIsConnected'
  BY ThreadConnects
<1>7. QED
  BY <1>2, <1>3, <1>4, <1>5, <1>6

(* Somebody else commits.                                                  *)
LEMMA ChangedKeeps ==
    ASSUME IInv, Changed
    PROVE  IInv'
<1> USE DEF IInv
<1>1. /\ UNCHANGED <<surface, adult, phase, query, found, cursor, page, shown, dropped, weighed, strayed>>
      /\ phase # "done" /\ WorldTypeOK'
      /\ steady' = {p \in steady : Visible(p)'}
  BY DEF Changed, Change, KeepSteady, scroll
<1>2. PagesTypeOK'
  BY <1>1 DEF PagesTypeOK, ScrollTypeOK, OnPage
<1>3. AgeKnown'
  BY <1>1 DEF AgeKnown
<1>4. SteadyVisible'
  BY <1>1 DEF SteadyVisible, PagesTypeOK
<1>6. FollowingDescends' /\ ShownAbove' /\ NoGaps' /\ ForYouWeighs' /\ SensitiveOnlyQuoted'
  BY <1>1 DEF FollowingDescends, ShownAbove, NoGaps, ForYouWeighs, SensitiveOnlyQuoted, OnPage, ShownPosts
<1>7. EndMeansEndUndropped' /\ ThreadIsConnected'
  BY <1>1 DEF EndMeansEndUndropped, EndMeansEnd, ThreadIsConnected
<1>8. QED
  BY <1>2, <1>3, <1>4, <1>6, <1>7

(* Before the first request nothing is shown and nothing is promised.      *)
LEMMA InitIInv == Init => IInv
<1> SUFFICES ASSUME Init PROVE IInv
  OBVIOUS
<1>1. /\ phase = "idle" /\ query = CurrentQuery /\ found = {} /\ cursor = NPosts + 1
      /\ page = <<>> /\ shown = <<>> /\ steady = {} /\ weighed = {}
      /\ surface \in {"for_you", "following", "thread"}
      /\ adult \in BOOLEAN
  BY DEF Init
<1>2. dropped \in BOOLEAN /\ strayed \in BOOLEAN
  BY DEF Init
<1>3. OnPage = {} /\ DOMAIN shown = {}
  BY <1>1 DEF OnPage, ToSet
<1>4. WorldTypeOK
  <2>1. published \subseteq Post
    BY Numbers, PagesAssumption DEF Init, Post
  <2>2. /\ rows \subseteq published /\ deleted = {} /\ blocked = {} /\ muted = {} /\ keywords = {}
        /\ suspended = {} /\ private = Private /\ flagged = {} /\ limited = {} /\ follows \subseteq Others
        /\ feedback = [p \in Post |-> "none"] /\ changes = 0
    BY DEF Init
  <2>3. QED
    BY <2>1, <2>2, PagesAssumption, Numbers DEF WorldTypeOK
<1>5. PagesTypeOK
  BY <1>1, <1>2, <1>3, <1>4, Numbers DEF PagesTypeOK, ScrollTypeOK
<1>6. AgeKnown /\ SteadyVisible
  BY <1>1 DEF AgeKnown, CurrentQuery, SteadyVisible
<1>7. FollowingDescends /\ ShownAbove /\ NoGaps /\ EndMeansEndUndropped
  BY <1>1, <1>3 DEF FollowingDescends, ShownAbove, NoGaps, EndMeansEndUndropped, EndMeansEnd
<1>8. ForYouWeighs /\ SensitiveOnlyQuoted /\ ThreadIsConnected
  BY <1>1, <1>3 DEF ForYouWeighs, SensitiveOnlyQuoted, ThreadIsConnected
<1>9. QED
  BY <1>5, <1>6, <1>7, <1>8 DEF IInv

(* Each step keeps the invariant.                                          *)
LEMMA NextIInv == IInv /\ [Next]_vars => IInv'
<1> SUFFICES ASSUME IInv, [Next]_vars PROVE IInv'
  OBVIOUS
<1>1. CASE Next
  BY <1>1, Shapes, AskKeeps, FollowingKeeps, ForYouKeeps, AskThreadKeeps, ThreadKeeps,
     ChangedKeeps DEF IInv
<1>2. CASE UNCHANGED vars
  <2> USE DEF IInv
  <2>1. UNCHANGED <<world, lists, surface, adult, phase, query, found, cursor, page, shown, steady,
                    dropped, weighed, strayed>>
    BY <1>2 DEF vars, scroll
  <2>2. /\ CurrentQuery' = CurrentQuery
        /\ \A p, s : Candidate(p, s)' = Candidate(p, s)
        /\ \A p : LabelsOf(p)' = LabelsOf(p)
        /\ deleted' = deleted
    BY <2>1, NothingCommitted
  <2>3. PagesTypeOK'
    BY <2>1, WorldTypeSame DEF PagesTypeOK, ScrollTypeOK, OnPage
  <2>4. AgeKnown' /\ SteadyVisible'
    BY <2>1, SteadySame DEF AgeKnown
  <2>6. /\ FollowingDescends' /\ ShownAbove' /\ NoGaps' /\ EndMeansEndUndropped'
        /\ ForYouWeighs' /\ SensitiveOnlyQuoted'
    BY <2>1 DEF FollowingDescends, ShownAbove, NoGaps, EndMeansEndUndropped, EndMeansEnd,
                ForYouWeighs, SensitiveOnlyQuoted, OnPage, ShownPosts
  <2>7. ThreadIsConnected'
    <3>1. ThreadItems' = ThreadItems
      BY <2>1, <2>2 DEF ThreadItems, Item, BodiesOf
    <3>2. Kept(ThreadItems)' = Kept(ThreadItems) /\ OnPage' = OnPage
      BY <2>1, <3>1 DEF Kept, OnPage
    <3>3. QED
      BY <2>1, <3>2 DEF ThreadIsConnected
  <2>8. QED
    BY <2>3, <2>4, <2>6, <2>7
<1>3. QED
  BY <1>1, <1>2

-------------------------------------------------------------------------------
(* The theorems                                                            *)

(* The invariant holds in every state of every behaviour.                  *)
THEOREM PagesInvariance == Spec => []IInv
<1>1. QED
  BY InitIInv, NextIInv, PTL DEF Spec

(* Every variable stays in its range.                                      *)
THEOREM PagesTypeCorrect == Spec => []PagesTypeOK
<1>1. IInv => PagesTypeOK
  BY DEF IInv
<1>2. QED
  BY <1>1, PagesInvariance, PTL

(* Following is strictly newest first across pages, whatever is committed  *)
(* between and within the requests (the compound cursor).                  *)
THEOREM FollowingNeverRepeats == Spec => []FollowingDescends
<1>1. IInv => FollowingDescends
  BY DEF IInv
<1>2. QED
  BY <1>1, PagesInvariance, PTL

(* No page of Following jumps over a post that was visible all along,      *)
(* although accounts go private, and lists change, while a request is      *)
(* under way.                                                              *)
THEOREM FollowingLeavesNoGaps == Spec => []NoGaps
<1>1. IInv => NoGaps
  BY DEF IInv
<1>2. QED
  BY <1>1, PagesInvariance, PTL

(* When next_cursor is null, Following has shown all that was visible all  *)
(* along, provided that the policy dropped no row of any page.             *)
THEOREM FollowingEndIsTheEnd == Spec => []EndMeansEndUndropped
<1>1. IInv => EndMeansEndUndropped
  BY DEF IInv
<1>2. QED
  BY <1>1, PagesInvariance, PTL

(* For You has weighed all that was visible all along and is newer than    *)
(* its cursor, if no cursor came from outside the network.                 *)
THEOREM ForYouHasWeighed == Spec => []ForYouWeighs
<1>1. IInv => ForYouWeighs
  BY DEF IInv
<1>2. QED
  BY <1>1, PagesInvariance, PTL

(* NSFW posts come behind an interstitial, to adults only, on each of the  *)
(* three surfaces; an NSFW body comes in plain only as what another post   *)
(* quotes or reposts.                                                      *)
THEOREM NsfwOnlyQuoted == Spec => []SensitiveOnlyQuoted
<1>1. IInv => SensitiveOnlyQuoted
  BY DEF IInv
<1>2. QED
  BY <1>1, PagesInvariance, PTL

(* A thread holds exactly the replies that pass the policy and hang below  *)
(* others that do, for threads of any depth.                               *)
THEOREM ThreadsAreConnected == Spec => []ThreadIsConnected
<1>1. IInv => ThreadIsConnected
  BY DEF IInv
<1>2. QED
  BY <1>1, PagesInvariance, PTL

(* What ReplyAncillaryRule lets through hangs below a parent that is       *)
(* published and passes all but the four rules which it does not look      *)
(* into.                                                                   *)
LEMMA ReplyHasContext ==
    ASSUME NEW p, NEW q, Content[p].parent # NoPost,
           Verdict(FollowingPolicy, q, Candidate(p, "in_network")) # "drop"
    PROVE  LET parent == Content[p].parent
           IN  /\ Public(parent)
               /\ Verdict(FollowingPolicy \ BeyondTheParent, q,
                          Candidate(parent, "in_network")) # "drop"
<1> DEFINE parent == Content[p].parent
           rules  == FollowingPolicy \ BeyondTheParent
           c == Candidate(p, "in_network")
           d == Candidate(parent, "in_network")
<1>1. "ReplyAncillary" \in FollowingPolicy
  BY DEF FollowingPolicy
<1>2. ~Drops("ReplyAncillary", q, c)
  <2> HIDE DEF c
  <2>1. \A rule \in FollowingPolicy : ~Drops(rule, q, c)
    BY VerdictDrops DEF c
  <2>2. QED
    BY <1>1, <2>1
<1>3. ~ParentInvisible(q, c)
  BY <1>2 DEF Drops
<1>4. c.reply /\ c.parent = Hydrated(parent)
  BY DEF Candidate
<1>5. /\ Public(parent)
      /\ Author(parent) \notin q.blocked \cup q.muted
      /\ Author(parent) \notin suspended
      /\ Author(parent) \in q.following \/ ~(Author(parent) \in private \/ Content[parent].followersOnly)
  <2> HIDE DEF c, parent
  <2>1. /\ ~Hydrated(parent).missing
        /\ Hydrated(parent).author \notin q.blocked \cup q.muted
        /\ ~Hydrated(parent).suspended
        /\ ~Outside(q, Hydrated(parent))
    BY <1>3, <1>4 DEF ParentInvisible
  <2>2. QED
    BY <2>1 DEF Hydrated, Outside
<1>6. Verdict(rules, q, d) # "drop"
  <2>1. /\ d.author = Author(parent)
        /\ d.suspended <=> Author(parent) \in suspended
        /\ d.private <=> Author(parent) \in private
        /\ d.followersOnly = Content[parent].followersOnly
    BY DEF Candidate
  <2> HIDE DEF d, c, parent
  <2>2. ASSUME NEW rule \in rules
        PROVE  ~Drops(rule, q, d)
    <3>1. rule \in {"BlockedAuthor", "MutedAuthor", "SuspendedAuthor", "PrivateAccount",
                    "FollowersOnly", "SensitiveInterstitial"}
      BY DEF FollowingPolicy, ThreadPolicy, BeyondTheParent
    <3>2. QED
      BY <1>5, <2>1, <3>1 DEF Drops
  <2> HIDE DEF rules
  <2>3. QED
    BY <2>2, VerdictDrops
<1>7. QED
  BY <1>5, <1>6

(* A reply on a page of Following comes with its context, under the lists  *)
(* the request has read and the posts as they are when the page is made.   *)
THEOREM RepliesComeInContext == Spec => RepliesInContext
<1> DEFINE Context ==
              AnswerFollowing =>
                \A i \in ToSet(page') : Content[i.id].parent # NoPost =>
                    LET parent == Content[i.id].parent
                    IN  /\ Public(parent)
                        /\ Verdict(FollowingPolicy \ BeyondTheParent, query,
                                   Candidate(parent, "in_network")) # "drop"
<1>1. IInv /\ [Next]_vars => [Context]_vars
  <2> SUFFICES ASSUME IInv, AnswerFollowing, NEW i \in ToSet(page'), Content[i.id].parent # NoPost
               PROVE  LET parent == Content[i.id].parent
                      IN  /\ Public(parent)
                          /\ Verdict(FollowingPolicy \ BeyondTheParent, query,
                                     Candidate(parent, "in_network")) # "drop"
    OBVIOUS
  <2>1. OnPage' \subseteq Kept(FollowingItems)
    BY FollowingFacts, FollowingPage DEF IInv
  <2>2. i \in Kept(FollowingItems)
    BY <2>1 DEF OnPage
  <2>3. PICK p \in Thunder(cursor) : i = Item(FollowingPolicy, query, p, "in_network")
    BY <2>2 DEF Kept, FollowingItems
  <2>4. i.id = p /\ Verdict(FollowingPolicy, query, Candidate(p, "in_network")) # "drop"
    BY <2>2, <2>3, ItemFields DEF Kept
  <2>5. QED
    BY <2>4, ReplyHasContext
<1>2. Spec => [][Context]_vars
  <2> HIDE DEF Context
  <2>1. QED
    BY <1>1, PagesInvariance, PTL DEF Spec
<1>3. QED
  BY <1>2 DEF RepliesInContext

(* A page of For You has one item of each conversation.                    *)
ConversationsOnce ==
    surface = "for_you" =>
        \A m, n \in DOMAIN page : m # n => Conversation(page[m]) # Conversation(page[n])

(* For You shows a conversation once in a page, by its root if the root    *)
(* was a candidate (dedupe_conversations).                                 *)
THEOREM ConversationsComeOnce == Spec => []ConversationsOnce
<1>1. Init => ConversationsOnce
  BY DEF Init, ConversationsOnce
<1>2. IInv /\ ConversationsOnce /\ [Next]_vars => ConversationsOnce'
  <2> SUFFICES ASSUME IInv, ConversationsOnce, [Next]_vars
               PROVE  ConversationsOnce'
    OBVIOUS
  <2>1. CASE AnswerForYou
    <3>1. PICK oon, best : HomeList(oon, best)
      BY <2>1, ForYouFacts DEF IInv
    <3>2. Different(page') /\ DOMAIN page' = 1..Len(page')
      BY <3>1, ForYouPage DEF IInv
    <3>3. QED
      BY <3>2 DEF ConversationsOnce, Different
  <2>2. CASE AnswerFollowing \/ AnswerThread
    BY <2>2 DEF AnswerFollowing, AnswerThread, ConversationsOnce
  <2>3. CASE UNCHANGED <<surface, page>>
    BY <2>3 DEF ConversationsOnce
  <2>4. Ask \/ (\E p \in Post : AskThread(p)) \/ Changed \/ UNCHANGED vars =>
           UNCHANGED <<surface, page>>
    BY DEF Ask, AskThread, Changed, Change, vars, scroll
  <2>5. QED
    BY <2>1, <2>2, <2>3, <2>4, Shapes DEF IInv
<1>3. QED
  BY <1>1, <1>2, PagesInvariance, PTL DEF Spec

(* The rows of a page of Following, and those of a thread, can be put in   *)
(* order in one way (ORDER BY): no two are of one post.                    *)
PagesDetermined ==
    /\ surface = "following" =>
          \E s : Orderings(Kept(FollowingItems), LAMBDA i, j : i.id > j.id) = {s}
    /\ surface = "thread" =>
          \E s : Orderings({i \in Kept(ThreadItems) :
                               i.id \in ThreadOf({j.id : j \in Kept(ThreadItems)})},
                           LAMBDA i, j : i.id < j.id) = {s}

(* A request that has read the lists can be answered, and in one way: what *)
(* the other theorems say of pages is never said of nothing, and the order *)
(* leaves nothing to the database.                                         *)
THEOREM PagesAreDetermined == Spec => []PagesDetermined
<1>1. IInv => PagesDetermined
  <2> SUFFICES ASSUME IInv PROVE PagesDetermined
    OBVIOUS
  <2>1. \E s : Orderings(Kept(FollowingItems), LAMBDA i, j : i.id > j.id) = {s}
    <3> DEFINE S == Kept(FollowingItems)
               key == [i \in S |-> i.id]
    <3>1. IsFiniteSet(S)
      BY FollowingItemsFacts DEF IInv
    <3>2. \A i \in S : i.id \in Nat /\ i = Item(FollowingPolicy, query, i.id, "in_network")
      BY ItemFields, ThunderFacts, Numbers DEF IInv, Kept, FollowingItems
    <3>3. IsKey(S, key)
      <4> HIDE DEF S
      <4>1. QED
        BY <3>2 DEF IsKey
    <3>4. PICK s \in SetToSeqs(S) : \A m, n \in DOMAIN s : m < n => key[s[m]] > key[s[n]]
      <4> HIDE DEF S, key
      <4>1. QED
        BY <3>1, <3>3, ListingExists
    <3>5. \A m \in DOMAIN s : s[m] \in S
      <4> HIDE DEF S
      <4>1. QED
        BY DEF SetToSeqs
    <3>6. \A m, n \in DOMAIN s : m < n => s[m].id > s[n].id
      <4> HIDE DEF S
      <4>1. QED
        BY <3>4, <3>5
    <3>7. ASSUME NEW t \in SetToSeqs(S), \A m, n \in DOMAIN t : m < n => t[m].id > t[n].id
          PROVE  t = s
      <4> HIDE DEF S
      <4>1. \A m \in DOMAIN t : t[m] \in S
        BY DEF SetToSeqs
      <4>2. \A m, n \in DOMAIN t : m < n => key[t[m]] > key[t[n]]
        BY <3>7, <4>1
      <4> HIDE DEF key
      <4>3. QED
        BY <3>1, <3>3, <3>4, <4>2, ListingUnique
    <3>8. QED
      BY <3>6, <3>7, Zenon DEF Orderings
  <2>2. \E s : Orderings({i \in Kept(ThreadItems) :
                            i.id \in ThreadOf({j.id : j \in Kept(ThreadItems)})},
                        LAMBDA i, j : i.id < j.id) = {s}
    <3> DEFINE S == {i \in Kept(ThreadItems) : i.id \in ThreadOf({j.id : j \in Kept(ThreadItems)})}
               key == [i \in S |-> NPosts - i.id]
    <3>1. found \in SUBSET Post
      BY DEF IInv, PagesTypeOK, ScrollTypeOK
    <3>2. IsFiniteSet(S)
      <4>1. IsFiniteSet(Kept(ThreadItems))
        BY <3>1, ItemsCount DEF ThreadItems
      <4>2. S \in SUBSET Kept(ThreadItems)
        OBVIOUS
      <4> HIDE DEF S
      <4>3. QED
        BY <4>1, <4>2, FS_Subset
    <3>3. \A i \in S : /\ i.id \in Nat /\ NPosts - i.id \in Nat /\ NPosts \in Nat
                       /\ i = Item(ThreadPolicy, CurrentQuery, i.id, "in_network")
      <4>1. \A i \in Kept(ThreadItems) :
               i.id \in Post /\ i = Item(ThreadPolicy, CurrentQuery, i.id, "in_network")
        BY <3>1, ItemFields DEF Kept, ThreadItems
      <4>2. \A i \in S : i \in Kept(ThreadItems)
        OBVIOUS
      <4> HIDE DEF S
      <4>3. \A p \in Post : p \in Nat /\ NPosts - p \in Nat
        BY Numbers
      <4>4. QED
        BY <4>1, <4>2, <4>3, Numbers
    <3>4. IsKey(S, key)
      <4> HIDE DEF S
      <4>1. key \in [S -> Nat]
        BY <3>3
      <4>2. \A i, j \in S : key[i] = key[j] => i.id = j.id
        <5>1. \A i \in S : key[i] = NPosts - i.id
          OBVIOUS
        <5> HIDE DEF key
        <5>2. QED
          BY <3>3, <5>1
      <4>3. \A i, j \in S : i.id = j.id => i = j
        BY <3>3
      <4>4. QED
        BY <4>1, <4>2, <4>3 DEF IsKey
    <3>5. PICK s \in SetToSeqs(S) : \A m, n \in DOMAIN s : m < n => key[s[m]] > key[s[n]]
      <4> HIDE DEF S, key
      <4>1. QED
        BY <3>2, <3>4, ListingExists
    <3>6. \A m \in DOMAIN s : s[m] \in S
      <4> HIDE DEF S
      <4>1. QED
        BY DEF SetToSeqs
    <3>7. \A m, n \in DOMAIN s : m < n => s[m].id < s[n].id
      <4> HIDE DEF S
      <4>1. \A i \in S : key[i] = NPosts - i.id
        OBVIOUS
      <4> HIDE DEF key
      <4>2. \A i, j \in S : key[i] > key[j] => i.id < j.id
        BY <3>3, <4>1
      <4>3. QED
        BY <3>5, <3>6, <4>2
    <3>8. ASSUME NEW t \in SetToSeqs(S), \A m, n \in DOMAIN t : m < n => t[m].id < t[n].id
          PROVE  t = s
      <4> HIDE DEF S
      <4>1. \A m \in DOMAIN t : t[m] \in S
        BY DEF SetToSeqs
      <4>2. \A i, j \in S : i.id < j.id => key[i] > key[j]
        <5>1. \A i \in S : key[i] = NPosts - i.id
          OBVIOUS
        <5> HIDE DEF key
        <5>2. QED
          BY <3>3, <5>1
      <4> HIDE DEF key
      <4>3. \A m, n \in DOMAIN t : m < n => key[t[m]] > key[t[n]]
        BY <3>8, <4>1, <4>2
      <4>4. QED
        BY <3>2, <3>4, <3>5, <4>3, ListingUnique
    <3>9. QED
      BY <3>7, <3>8, Zenon DEF Orderings
  <2>3. QED
    BY <2>1, <2>2, Zenon DEF PagesDetermined
<1>2. QED
  BY <1>1, PagesInvariance, PTL

(* The positions that are kept of a ranking can be taken in their order.   *)
LEMMA DedupedExists ==
    ASSUME NEW S, NEW ranked \in Seq(S)
    PROVE  Deduped(ranked) # {}
<1> DEFINE roots == {Conversation(i) : i \in {j \in ToSet(ranked) : IsRoot(j)}}
           kept  == {n \in DOMAIN ranked :
                       \/ IsRoot(ranked[n])
                       \/ /\ Conversation(ranked[n]) \notin roots
                          /\ \A m \in 1..(n - 1) : Conversation(ranked[m]) # Conversation(ranked[n])}
           key == [n \in kept |-> Len(ranked) - n]
<1>1. kept \subseteq 1..Len(ranked) /\ Len(ranked) \in Nat
  OBVIOUS
<1> SUFFICES \E order \in SetToSeqs(kept) : \A m, n \in DOMAIN order : m < n => order[m] < order[n]
  BY Zenon DEF Deduped, Orderings
<1> HIDE DEF kept
<1>2. IsFiniteSet(kept)
  <2>1. IsFiniteSet(1..Len(ranked))
    BY <1>1, FS_Interval
  <2>2. QED
    BY <1>1, <2>1, FS_Subset
<1>3. \A n \in kept : key[n] = Len(ranked) - n /\ n \in Nat /\ Len(ranked) - n \in Nat
  BY <1>1
<1>4. key \in [kept -> Nat]
  BY <1>3
<1> HIDE DEF key
<1>5. IsKey(kept, key)
  BY <1>1, <1>3, <1>4 DEF IsKey
<1>6. PICK order \in SetToSeqs(kept) :
         \A m, n \in DOMAIN order : m < n => key[order[m]] > key[order[n]]
  BY <1>2, <1>5, ListingExists
<1>7. \A m \in DOMAIN order : order[m] \in kept
  BY DEF SetToSeqs
<1>8. \A m, n \in kept : key[m] > key[n] => m < n
  BY <1>1, <1>3
<1>9. QED
  BY <1>6, <1>7, <1>8

(* There is something to blend, to rank and to choose for every answer of  *)
(* For You: no choice of the search or of the scores leads nowhere.        *)
ForYouPossible ==
    surface = "for_you" =>
        /\ Blends(query, cursor) # {}
        /\ \A blend \in Blends(query, cursor) :
              LET ranking == Rankings(Kept(HomeItems(blend.oon)))
              IN  ranking # {} /\ \A ranked \in ranking : Deduped(ranked) # {}

(* No page of For You is impossible, whatever SourceBlender was given and  *)
(* however rank_candidates scored it.                                      *)
THEOREM ForYouIsPossible == Spec => []ForYouPossible
<1>1. IInv => ForYouPossible
  <2> SUFFICES ASSUME IInv PROVE ForYouPossible
    OBVIOUS
  <2>1. Blends(query, cursor) # {}
    <3>1. {} \in SimilarPosts(query)
      <4>1. \A a \in Account : {p \in {} : Author(p) = a} = {}
        OBVIOUS
      <4>2. \A a \in Account : Cardinality({p \in {} : Author(p) = a}) <= 2
        BY <4>1, FS_EmptySet
      <4>3. Diverse({})
        BY <4>2, Zenon DEF Diverse
      <4>4. QED
        BY <4>3 DEF SimilarPosts
    <3>2. {} \ Thunder(cursor) = {} /\ OonCap \in Nat /\ OonCap >= 1
      BY Numbers DEF OonCap
    <3>3. Cardinality({} \ Thunder(cursor)) <= OonCap
      BY <3>2, FS_EmptySet
    <3>4. QED
      BY <3>1, <3>3, Zenon DEF Blends
  <2>2. ASSUME NEW blend \in Blends(query, cursor)
        PROVE  /\ Rankings(Kept(HomeItems(blend.oon))) # {}
               /\ \A ranked \in Rankings(Kept(HomeItems(blend.oon))) : Deduped(ranked) # {}
    <3> DEFINE S == Kept(HomeItems(blend.oon))
               key == [i \in S |-> i.id]
    <3>1. blend.oon \in SUBSET Post /\ blend.oon \cap Thunder(cursor) = {}
      BY BlendFacts
    <3>2. /\ IsFiniteSet(S)
          /\ \A i \in S : i.id \in Nat
          /\ \A i, j \in S : i.id = j.id => i = j
      <4>1. IsFiniteSet(S)
        BY <3>1, HomeItemsFacts DEF IInv
      <4>2. \A i \in S : i \in HomeItems(blend.oon)
        BY DEF Kept
      <4> HIDE DEF S
      <4>3. \A i \in S : i.id \in Post
        BY <3>1, <4>2, HomeItemsFacts DEF IInv
      <4>4. \A i, j \in S : i.id = j.id => i = j
        BY <3>1, <4>2, HomeItemsFacts DEF IInv
      <4>5. QED
        BY <4>1, <4>3, <4>4, Numbers
    <3> HIDE DEF S
    <3>3. IsKey(S, key)
      BY <3>2 DEF IsKey
    <3> HIDE DEF key
    <3>4. SetToSeqs(S) # {}
      BY <3>2, <3>3, ListingExists
    <3>5. \A ranked \in SetToSeqs(S) : Deduped(ranked) # {}
      <4> TAKE ranked \in SetToSeqs(S)
      <4>1. ranked \in Seq(S)
        BY <3>2, ListingFacts
      <4>2. QED
        BY <4>1, DedupedExists
    <3>6. QED
      BY <3>4, <3>5 DEF S, Rankings
  <2>3. QED
    BY <2>1, <2>2, Zenon DEF ForYouPossible
<1>2. QED
  BY <1>1, PagesInvariance, PTL

==============================================================================
