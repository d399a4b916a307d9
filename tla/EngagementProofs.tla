--------------------------- MODULE EngagementProofs ---------------------------
(***************************************************************************)
(* What Engagement guarantees for any users, replies and reposts and any   *)
(* number of open transactions.  The counts of likes and reposts are       *)
(* exact, or bounded, as long as transactions do not overlap; the count of *)
(* replies is exact whatever overlaps, with one worker.                    *)
(***************************************************************************)
EXTENDS Engagement, FiniteSetTheorems, TLAPS

(* The row, once there, stays.                                             *)
RowStays == \A t \in open : t.saw # NoRow => row # NoRow

(* A child has at most one counting task.                                  *)
CountsOnce ==
    /\ \A t \in open : t.op = "count" => stage[t.who] = "counting"
    /\ \A s, t \in open : s.op = "count" /\ t.op = "count" /\ s.who = t.who => s = t

(* The reposts that may be counted: hidden ones may, deleted ones not.     *)
Kept == {c \in Child : kind[c] = "repost" /\ Published(c) /\ gone[c] # "author"}

(* As long as transactions do not overlap, what the open one has read is   *)
(* what is there, and the counters say what they should.                   *)
SerialReads ==
    ~overlapped =>
        /\ \A s, t \in open : s = t
        /\ \A t \in open :
              /\ t.saw = row
              /\ t.op = "like" => t.who \notin likes /\ t.value = Seen("like") + 1
              /\ t.op = "unlike" => t.who \in likes /\ t.value = Decremented("like")
              /\ t.op = "delete" => t.value = Decremented(kind[t.who])
              /\ t.op = "count" /\ kind[t.who] = "repost" => t.value <= Cardinality(Kept)

SerialCounts ==
    ~overlapped =>
        /\ Seen("like") = Cardinality(likes)
        /\ Seen("repost") <= Cardinality(Kept)

IInv == TypeOK /\ RowStays /\ CountsOnce /\ SerialReads /\ SerialCounts

-------------------------------------------------------------------------------
(* The shapes of the steps                                                 *)

(* A transaction that has read.                                            *)
Reads(t, op, who, value) ==
    /\ t.op = op /\ t.who = who /\ t.saw = row /\ t.value = value
    /\ open' = open \cup {t}
    /\ overlapped' = (overlapped \/ open # {} \/ Checked # {})

LEMMA BeginReads ==
    ASSUME NEW op, NEW who, NEW value, Begin(Txn(op, who, value))
    PROVE  \E t : Reads(t, op, who, value)
<1> DEFINE t == Txn(op, who, value)
<1>1. t.op = op /\ t.who = who /\ t.saw = row /\ t.value = value
  BY DEF Txn
<1>2. open' = open \cup {t} /\ overlapped' = (overlapped \/ open # {} \/ Checked # {})
  BY DEF Begin, Opening
<1> HIDE DEF t
<1>3. Reads(t, op, who, value)
  BY <1>1, <1>2 DEF Reads
<1>4. QED
  BY <1>3

(* What a counter shows is a natural number.                               *)
LEMMA SeenFacts ==
    ASSUME row \in Counters \cup {NoRow}
    PROVE  /\ \A c \in Columns : Seen(c) \in Nat /\ Decremented(c) \in Nat
           /\ \A c \in Columns : Decremented(c) = IF Seen(c) > 0 THEN Seen(c) - 1 ELSE 0
<1>1. \A c \in Columns : Seen(c) \in Nat
  BY DEF Seen, Counters
<1>2. QED
  BY <1>1 DEF Decremented

(* Storing a column leaves the others alone.                               *)
LEMMA StoreFacts ==
    ASSUME row \in Counters \cup {NoRow},
           NEW t, t.saw \in Counters \cup {NoRow}, t.value \in Nat,
           t.saw # NoRow => row # NoRow,
           t.saw = NoRow => row = NoRow,
           NEW c \in Columns, Store(t, c)
    PROVE  /\ row' \in Counters /\ row' # NoRow
           /\ \A d \in Columns : d # c => Seen(d)' = Seen(d)
           /\ t.saw = row \/ t.saw = NoRow \/ t.saw[c] = row[c] => Seen(c)' = t.value
<1>1. CASE t.saw = NoRow
  <2>1. row' = [Fresh EXCEPT ![c] = t.value] /\ row = NoRow
    BY <1>1 DEF Store
  <2>2. row' \in Counters /\ row'[c] = t.value /\ \A d \in Columns : d # c => row'[d] = 0
    BY <2>1 DEF Fresh, Counters
  <2>3. row' # NoRow
    BY <2>2, EngagementAssumption
  <2>4. QED
    BY <2>1, <2>2, <2>3 DEF Seen
<1>2. CASE t.saw # NoRow
  <2>1. row \in Counters /\ t.saw \in Counters /\ row # NoRow
    BY <1>2
  <2>2. row' = (IF t.saw[c] = t.value THEN row ELSE [row EXCEPT ![c] = t.value])
    BY <1>2 DEF Store
  <2>3. /\ row' \in Counters
        /\ \A d \in Columns : d # c => row'[d] = row[d]
        /\ t.saw[c] = row[c] => row'[c] = t.value
    BY <2>1, <2>2 DEF Counters
  <2>4. row' # NoRow
    BY <2>3, EngagementAssumption
  <2>5. t.saw = row => t.saw[c] = row[c]
    OBVIOUS
  <2>6. QED
    BY <1>2, <2>1, <2>3, <2>4, <2>5 DEF Seen
<1>3. QED
  BY <1>1, <1>2

(* A reading step changes no table; counting marks its child.              *)
Opens ==
    /\ \E t, op, who, value :
          /\ Reads(t, op, who, value) /\ value \in Nat
          /\ \/ op = "like" /\ who \in User \ likes /\ value = Seen("like") + 1
             \/ op = "unlike" /\ who \in likes /\ value = Decremented("like")
             \/ op = "delete" /\ who \in Child /\ value = Decremented(kind[who])
             \/ op = "init"
             \/ /\ op = "count" /\ who \in Child
                /\ stage[who] = "published"
                /\ value = Cardinality(Shown(kind[who]))
                /\ stage' = [stage EXCEPT ![who] = "counting"]
          /\ op # "count" => UNCHANGED stage
    /\ init' \in BOOLEAN
    /\ UNCHANGED <<kind, gone, likes, row>>

(* A step outside any transaction, or the opening of one by its checks.    *)
Moves ==
    /\ \/ \E c \in Child :
          \/ /\ stage[c] = "absent" /\ stage' = [stage EXCEPT ![c] = "checked"]
             /\ overlapped' = (overlapped \/ open # {} \/ Checked # {})
             /\ UNCHANGED gone
          \/ /\ stage[c] = "checked" /\ stage' = [stage EXCEPT ![c] = "processing"]
             /\ UNCHANGED <<gone, overlapped>>
          \/ /\ stage[c] = "processing" /\ stage' = [stage EXCEPT ![c] = "published"]
             /\ Cardinality({d \in Child : stage[d] \in {"published", "counting"}}) < Workers
             /\ UNCHANGED <<gone, overlapped>>
          \/ /\ stage[c] = "published" /\ gone[c] # "live"
             /\ stage' = [stage EXCEPT ![c] = "done"]
             /\ UNCHANGED <<gone, overlapped>>
          \/ /\ gone[c] = "live" /\ Committed(c)
             /\ gone' = [gone EXCEPT ![c] = "moderator"]
             /\ UNCHANGED <<stage, overlapped>>
       \/ UNCHANGED <<stage, gone, overlapped>>
    /\ init' \in BOOLEAN
    /\ UNCHANGED <<kind, likes, row, open>>

Commits(t) ==
    \/ LikeCommit(t) \/ UnlikeCommit(t) \/ CountCommit(t) \/ DeleteCommit(t) \/ InitCommit(t)

LEMMA FiniteSets ==
    ASSUME TypeOK
    PROVE  /\ IsFiniteSet(likes) /\ Cardinality(likes) \in Nat
           /\ IsFiniteSet(Kept) /\ Cardinality(Kept) \in Nat
           /\ \A k : IsFiniteSet(Shown(k)) /\ Cardinality(Shown(k)) \in Nat
<1>1. likes \in SUBSET User /\ Kept \in SUBSET Child /\ \A k : Shown(k) \in SUBSET Child
  BY DEF TypeOK, Kept, Shown
<1>2. IsFiniteSet(User) /\ IsFiniteSet(Child)
  BY EngagementAssumption
<1>3. \A S \in SUBSET User : IsFiniteSet(S)
  BY <1>2, FS_Subset
<1>4. \A S \in SUBSET Child : IsFiniteSet(S)
  BY <1>2, FS_Subset
<1>5. QED
  BY <1>1, <1>3, <1>4, FS_CardinalityType

LEMMA Shapes ==
    ASSUME TypeOK, Next
    PROVE  Opens \/ Moves \/ \E t \in open : Commits(t)
<1> USE DEF TypeOK
<1>1. /\ \A c \in Columns : Seen(c) \in Nat /\ Decremented(c) \in Nat
      /\ "like" \in Columns /\ \A c \in Child : kind[c] \in Columns
  BY SeenFacts DEF Columns
<1>2. ASSUME NEW u \in User, LikeBegin(u) PROVE Opens
  <2>1. PICK t : Reads(t, "like", u, Seen("like") + 1)
    BY <1>2, BeginReads DEF LikeBegin
  <2>2. QED
    BY <1>1, <1>2, <2>1 DEF Opens, LikeBegin
<1>3. ASSUME NEW u \in User, UnlikeBegin(u) PROVE Opens
  <2>1. PICK t : Reads(t, "unlike", u, Decremented("like"))
    BY <1>3, BeginReads DEF UnlikeBegin
  <2>2. QED
    BY <1>1, <1>3, <2>1 DEF Opens, UnlikeBegin
<1>4. ASSUME NEW c \in Child, DeleteBegin(c) PROVE Opens
  <2>1. PICK t : Reads(t, "delete", c, Decremented(kind[c]))
    BY <1>4, BeginReads DEF DeleteBegin
  <2>2. QED
    BY <1>1, <1>4, <2>1 DEF Opens, DeleteBegin
<1>5. ASSUME NEW c \in Child, CountBegin(c) PROVE Opens \/ Moves
  <2>1. CASE gone[c] = "live"
    <3>1. PICK t : Reads(t, "count", c, Cardinality(Shown(kind[c])))
      BY <1>5, <2>1, BeginReads DEF CountBegin
    <3>2. Cardinality(Shown(kind[c])) \in Nat
      BY FiniteSets
    <3>3. QED
      BY <1>5, <2>1, <3>1, <3>2 DEF Opens, CountBegin
  <2>2. CASE gone[c] # "live"
    BY <1>5, <2>2 DEF CountBegin, Moves
  <2>3. QED
    BY <2>1, <2>2
<1>6. CASE InitBegin
  <2>1. CASE row = NoRow
    <3>1. PICK t : Reads(t, "init", NoRow, 0)
      BY <1>6, <2>1, BeginReads DEF InitBegin
    <3>2. QED
      BY <1>6, <3>1 DEF Opens, InitBegin
  <2>2. CASE row # NoRow
    BY <1>6, <2>2 DEF InitBegin, Moves
  <2>3. QED
    BY <2>1, <2>2
<1>7. ASSUME NEW c \in Child, CreateBegin(c) \/ CreateCommit(c) \/ Publish(c) \/ Hide(c)
      PROVE  Moves
  BY <1>7 DEF CreateBegin, CreateCommit, Publish, Hide, Opening, Moves
<1>8. QED
  BY <1>2, <1>3, <1>4, <1>5, <1>6, <1>7 DEF Next, Commits

-------------------------------------------------------------------------------
(* Types                                                                   *)

LEMMA TypeOpens ==
    ASSUME TypeOK, Opens
    PROVE  TypeOK'
<1>1. PICK t, op, who, value :
          /\ Reads(t, op, who, value) /\ value \in Nat
          /\ \/ op = "like" /\ who \in User \ likes /\ value = Seen("like") + 1
             \/ op = "unlike" /\ who \in likes /\ value = Decremented("like")
             \/ op = "delete" /\ who \in Child /\ value = Decremented(kind[who])
             \/ op = "init"
             \/ /\ op = "count" /\ who \in Child
                /\ stage[who] = "published"
                /\ value = Cardinality(Shown(kind[who]))
                /\ stage' = [stage EXCEPT ![who] = "counting"]
          /\ op # "count" => UNCHANGED stage
  BY DEF Opens
<1>2. stage' \in [Child -> Stages]
  BY <1>1 DEF TypeOK, Stages
<1>3. overlapped' \in BOOLEAN /\ init' \in BOOLEAN
  BY <1>1 DEF Opens, Reads, TypeOK
<1>4. UNCHANGED <<kind, gone, likes, row>>
  BY DEF Opens
<1>5. /\ open' = open \cup {t} /\ t.saw = row /\ t.value \in Nat
      /\ \/ t.op \in {"like", "unlike"} /\ t.who \in User
         \/ t.op \in {"count", "delete"} /\ t.who \in Child
         \/ t.op = "init"
  BY <1>1 DEF Reads, TypeOK
<1>6. QED
  BY <1>2, <1>3, <1>4, <1>5 DEF TypeOK

LEMMA TypeMoves ==
    ASSUME TypeOK, Moves
    PROVE  TypeOK'
<1>1. stage' \in [Child -> Stages] /\ gone' \in [Child -> {"live", "author", "moderator"}]
  BY DEF TypeOK, Moves, Stages
<1>2. overlapped' \in BOOLEAN /\ init' \in BOOLEAN
  BY DEF Moves, TypeOK
<1>3. UNCHANGED <<kind, likes, row, open>>
  BY DEF Moves
<1>4. QED
  BY <1>1, <1>2, <1>3 DEF TypeOK

(* What a commit does to the row: a column is stored in the row it read,   *)
(* or nothing is.                                                          *)
LEMMA CommitFacts ==
    ASSUME TypeOK, RowStays, NEW t \in open, Commits(t)
    PROVE  /\ open' = open \ {t} /\ UNCHANGED <<kind, overlapped, init>>
           /\ \/ UNCHANGED row
              \/ /\ t.op = "init" /\ row = NoRow /\ row' = Fresh
              \/ /\ (t.saw = NoRow => row = NoRow) /\ row' \in Counters /\ row' # NoRow
                 /\ \/ t.op \in {"like", "unlike"} /\ Store(t, "like")
                    \/ t.op = "count" /\ Store(t, kind[t.who])
                    \/ t.op = "delete" /\ kind[t.who] = "repost" /\ Store(t, "repost")
<1>1. open' = open \ {t} /\ UNCHANGED <<kind, overlapped, init>>
  BY DEF Commits, LikeCommit, UnlikeCommit, CountCommit, DeleteCommit, InitCommit, End
<1>2. /\ row \in Counters \cup {NoRow}
      /\ t.saw \in Counters \cup {NoRow} /\ t.value \in Nat
      /\ t.saw # NoRow => row # NoRow
      /\ t.op \in {"count", "delete"} => t.who \in Child /\ kind[t.who] \in {"reply", "repost"}
  BY DEF TypeOK, RowStays
<1>3. \A c \in Columns : (t.saw = NoRow => row = NoRow) /\ Store(t, c) => row' \in Counters /\ row' # NoRow
  BY <1>2, StoreFacts
<1>4. "like" \in Columns /\ "reply" \in Columns /\ "repost" \in Columns
  BY DEF Columns
<1>5. CASE LikeCommit(t)
  BY <1>1, <1>3, <1>4, <1>5 DEF LikeCommit, Conflict
<1>6. CASE UnlikeCommit(t)
  BY <1>1, <1>3, <1>4, <1>6 DEF UnlikeCommit
<1>7. CASE CountCommit(t)
  BY <1>1, <1>2, <1>3, <1>4, <1>7 DEF CountCommit, Conflict
<1>8. CASE DeleteCommit(t)
  BY <1>1, <1>2, <1>3, <1>4, <1>8 DEF DeleteCommit
<1>9. CASE InitCommit(t)
  BY <1>1, <1>9 DEF InitCommit
<1>10. QED
  BY <1>5, <1>6, <1>7, <1>8, <1>9 DEF Commits

LEMMA TypeCommits ==
    ASSUME TypeOK, RowStays, NEW t \in open, Commits(t)
    PROVE  TypeOK'
<1>1. open' = open \ {t} /\ UNCHANGED <<kind, overlapped, init>>
  BY CommitFacts
<1>2. row' \in Counters \cup {NoRow}
  BY CommitFacts DEF TypeOK, Fresh, Counters
<1>3. stage' \in [Child -> Stages]
  BY DEF TypeOK, Stages, Commits, LikeCommit, UnlikeCommit, CountCommit, DeleteCommit, InitCommit
<1>4. gone' \in [Child -> {"live", "author", "moderator"}]
  BY DEF TypeOK, Commits, LikeCommit, UnlikeCommit, CountCommit, DeleteCommit, InitCommit
<1>5. likes' \subseteq User
  BY DEF TypeOK, Commits, LikeCommit, UnlikeCommit, CountCommit, DeleteCommit, InitCommit
<1>6. QED
  BY <1>1, <1>2, <1>3, <1>4, <1>5 DEF TypeOK

-------------------------------------------------------------------------------
(* The row and the counting tasks                                          *)

LEMMA RowOpens ==
    ASSUME RowStays, Opens
    PROVE  RowStays'
BY DEF RowStays, Opens, Reads

LEMMA RowCommits ==
    ASSUME TypeOK, RowStays, NEW t \in open, Commits(t)
    PROVE  RowStays'
<1>1. open' = open \ {t}
  BY CommitFacts
<1>2. row # NoRow => row' # NoRow
  BY CommitFacts
<1>3. QED
  BY <1>1, <1>2 DEF RowStays

LEMMA CountsOpens ==
    ASSUME TypeOK, CountsOnce, Opens
    PROVE  CountsOnce'
<1>1. PICK t, op, who, value :
          /\ Reads(t, op, who, value)
          /\ op = "count" => /\ who \in Child /\ stage[who] = "published"
                             /\ stage' = [stage EXCEPT ![who] = "counting"]
          /\ op # "count" => UNCHANGED stage
  BY DEF Opens
<1>2. open' = open \cup {t} /\ t.op = op /\ t.who = who
  BY <1>1 DEF Reads
<1>3. op = "count" => \A s \in open : s.op = "count" => s.who # who
  BY <1>1 DEF CountsOnce
<1>4. \A s \in open : s.op = "count" => s.who \in Child /\ stage[s.who] = "counting"
  BY DEF CountsOnce, TypeOK
<1>5. \A s \in open' : s.op = "count" => stage'[s.who] = "counting"
  BY <1>1, <1>2, <1>3, <1>4 DEF TypeOK
<1>6. QED
  BY <1>2, <1>3, <1>5 DEF CountsOnce

LEMMA CountsMoves ==
    ASSUME TypeOK, CountsOnce, Moves
    PROVE  CountsOnce'
<1>1. \A s \in open : s.op = "count" => s.who \in Child /\ stage[s.who] = "counting"
  BY DEF CountsOnce, TypeOK
<1>2. \A c \in Child : stage[c] = "counting" => stage'[c] = "counting"
  BY DEF Moves, TypeOK
<1>3. open' = open
  BY DEF Moves
<1>4. QED
  BY <1>1, <1>2, <1>3 DEF CountsOnce

LEMMA CountsCommits ==
    ASSUME TypeOK, RowStays, CountsOnce, NEW t \in open, Commits(t)
    PROVE  CountsOnce'
<1>1. open' = open \ {t}
  BY CommitFacts
<1>2. \A s \in open : s.op = "count" => s.who \in Child /\ stage[s.who] = "counting"
  BY DEF CountsOnce, TypeOK
<1>3. CASE CountCommit(t)
  <2>1. \A s \in open' : s.op = "count" => s.who # t.who
    BY <1>1, <1>3 DEF CountsOnce, CountCommit
  <2>2. \A c \in Child : c # t.who => stage'[c] = stage[c]
    BY <1>3 DEF CountCommit, TypeOK
  <2>3. QED
    BY <1>1, <1>2, <2>1, <2>2 DEF CountsOnce
<1>4. CASE UNCHANGED stage
  BY <1>1, <1>4 DEF CountsOnce
<1>5. QED
  BY <1>3, <1>4 DEF Commits, LikeCommit, UnlikeCommit, DeleteCommit, InitCommit

-------------------------------------------------------------------------------
(* One transaction after the other                                         *)

(* The sets that are counted, as the steps change them.                    *)
LEMMA KeptGrows ==
    ASSUME TypeOK, Opens \/ Moves
    PROVE  Kept \subseteq Kept' /\ Kept' \subseteq Child
BY DEF Opens, Moves, TypeOK, Kept, Published

LEMMA KeptCardinality ==
    ASSUME TypeOK, TypeOK', Kept \subseteq Kept'
    PROVE  /\ Cardinality(Kept) \in Nat /\ Cardinality(Kept') \in Nat
           /\ Cardinality(Kept) <= Cardinality(Kept')
<1>1. Kept \in SUBSET Kept' /\ Kept' \in SUBSET Child /\ IsFiniteSet(Child)
  BY EngagementAssumption DEF Kept
<1>2. IsFiniteSet(Kept')
  BY <1>1, FS_Subset
<1>3. IsFiniteSet(Kept) /\ Cardinality(Kept) <= Cardinality(Kept')
  BY <1>1, <1>2, FS_Subset
<1>4. QED
  BY <1>2, <1>3, FS_CardinalityType

LEMMA ShownKept ==
    ASSUME TypeOK
    PROVE  /\ Cardinality(Shown("repost")) \in Nat
           /\ Cardinality(Shown("repost")) <= Cardinality(Kept)
<1>1. Shown("repost") \in SUBSET Kept
  BY DEF Shown, Kept
<1>2. QED
  BY <1>1, FiniteSets, FS_Subset

LEMMA SerialOpens ==
    ASSUME TypeOK, TypeOK', SerialReads, SerialCounts, Opens
    PROVE  SerialReads' /\ SerialCounts'
<1> SUFFICES ASSUME ~overlapped'
             PROVE  SerialReads' /\ SerialCounts'
  BY DEF SerialReads, SerialCounts
<1>1. PICK t, op, who, value :
          /\ Reads(t, op, who, value) /\ value \in Nat
          /\ \/ op = "like" /\ who \in User \ likes /\ value = Seen("like") + 1
             \/ op = "unlike" /\ who \in likes /\ value = Decremented("like")
             \/ op = "delete" /\ who \in Child /\ value = Decremented(kind[who])
             \/ op = "init"
             \/ /\ op = "count" /\ who \in Child
                /\ stage[who] = "published"
                /\ value = Cardinality(Shown(kind[who]))
          /\ UNCHANGED <<kind, gone, likes, row>>
  BY DEF Opens
<1>2. ~overlapped /\ open = {}
  BY <1>1 DEF Reads
<1>3. /\ open' = {t} /\ t.op = op /\ t.who = who /\ t.saw = row /\ t.value = value
  BY <1>1, <1>2 DEF Reads
<1>4. /\ \A c : Seen(c)' = Seen(c) /\ Decremented(c)' = Decremented(c)
  BY <1>1 DEF Seen, Decremented
<1>5. /\ Cardinality(Kept) \in Nat /\ Cardinality(Kept') \in Nat
      /\ Cardinality(Kept) <= Cardinality(Kept')
  BY KeptGrows, KeptCardinality
<1>6. t.op = "count" /\ kind'[t.who] = "repost" => t.value <= Cardinality(Kept')
  BY <1>1, <1>3, <1>5, ShownKept
<1>7. SerialReads'
  BY <1>1, <1>3, <1>4, <1>6 DEF SerialReads
<1>8. Seen("repost") \in Nat
  BY SeenFacts DEF TypeOK, Columns
<1>9. SerialCounts'
  BY <1>1, <1>2, <1>4, <1>5, <1>8 DEF SerialCounts
<1>10. QED
  BY <1>7, <1>9

LEMMA SerialMoves ==
    ASSUME TypeOK, TypeOK', SerialReads, SerialCounts, Moves
    PROVE  SerialReads' /\ SerialCounts'
<1> SUFFICES ASSUME ~overlapped'
             PROVE  SerialReads' /\ SerialCounts'
  BY DEF SerialReads, SerialCounts
<1>1. ~overlapped /\ UNCHANGED <<kind, likes, row, open>>
  <2>1. overlapped => overlapped'
    BY DEF Moves
  <2>2. QED
    BY <2>1 DEF Moves
<1>2. /\ \A c : Seen(c)' = Seen(c) /\ Decremented(c)' = Decremented(c)
  BY <1>1 DEF Seen, Decremented
<1>3. /\ Cardinality(Kept) \in Nat /\ Cardinality(Kept') \in Nat
      /\ Cardinality(Kept) <= Cardinality(Kept')
  BY KeptGrows, KeptCardinality
<1>4. \A t \in open : t.value \in Nat
  BY DEF TypeOK
<1>5. SerialReads'
  BY <1>1, <1>2, <1>3, <1>4 DEF SerialReads
<1>6. Seen("repost") \in Nat
  BY SeenFacts DEF TypeOK, Columns
<1>7. SerialCounts'
  BY <1>1, <1>2, <1>3, <1>6 DEF SerialCounts
<1>8. QED
  BY <1>5, <1>7

(* After the only open transaction has committed, none is open.            *)
LEMMA SerialCommits ==
    ASSUME TypeOK, TypeOK', RowStays, SerialReads, SerialCounts, NEW t \in open, Commits(t)
    PROVE  SerialReads' /\ SerialCounts'
<1> SUFFICES ASSUME ~overlapped'
             PROVE  SerialReads' /\ SerialCounts'
  BY DEF SerialReads, SerialCounts
<1>1. /\ ~overlapped /\ open' = open \ {t} /\ UNCHANGED kind
  BY CommitFacts
<1>2. open' = {}
  BY <1>1 DEF SerialReads
<1>3. SerialReads'
  BY <1>2 DEF SerialReads
<1>4. /\ row \in Counters \cup {NoRow} /\ t.saw \in Counters \cup {NoRow} /\ t.value \in Nat
      /\ t.saw = row
  BY <1>1 DEF TypeOK, SerialReads
<1>5. /\ "like" \in Columns /\ "reply" \in Columns /\ "repost" \in Columns
      /\ Seen("like") \in Nat /\ Seen("repost") \in Nat
      /\ \A c \in Columns : Decremented(c) = IF Seen(c) > 0 THEN Seen(c) - 1 ELSE 0
      /\ Seen("like") = Cardinality(likes)
      /\ Seen("repost") <= Cardinality(Kept)
  BY <1>1, <1>4, SeenFacts DEF Columns, SerialCounts
<1>6. \A c \in Columns : Store(t, c) =>
          Seen(c)' = t.value /\ \A d \in Columns : d # c => Seen(d)' = Seen(d)
  BY <1>4, StoreFacts
<1>7. /\ IsFiniteSet(likes) /\ Cardinality(likes) \in Nat
      /\ IsFiniteSet(Kept) /\ Cardinality(Kept) \in Nat
  BY FiniteSets
<1>8. CASE LikeCommit(t)
  <2>1. /\ t.who \notin likes /\ t.value = Seen("like") + 1
        /\ ~Conflict(t) /\ UNCHANGED <<stage, gone>>
    BY <1>1, <1>4, <1>8 DEF SerialReads, LikeCommit, Conflict
  <2>2. Store(t, "like") /\ likes' = likes \cup {t.who}
    BY <1>8, <2>1 DEF LikeCommit
  <2>3. Cardinality(likes') = Cardinality(likes) + 1
    BY <1>7, <2>1, <2>2, FS_AddElement
  <2>4. Kept' = Kept
    BY <1>1, <2>1 DEF Kept, Published
  <2>5. QED
    BY <1>3, <1>5, <1>6, <2>1, <2>2, <2>3, <2>4 DEF SerialCounts
<1>9. CASE UnlikeCommit(t)
  <2>1. /\ t.who \in likes /\ t.value = Decremented("like")
        /\ likes' = likes \ {t.who} /\ UNCHANGED <<stage, gone>>
    BY <1>1, <1>9 DEF SerialReads, UnlikeCommit
  <2>2. Cardinality(likes') = Cardinality(likes) - 1 /\ Cardinality(likes) # 0
    BY <1>7, <2>1, FS_RemoveElement, FS_EmptySet
  <2>3. row # NoRow
    BY <1>5, <2>2 DEF Seen
  <2>4. Store(t, "like")
    BY <1>4, <1>9, <2>3 DEF UnlikeCommit
  <2>5. Kept' = Kept
    BY <1>1, <2>1 DEF Kept, Published
  <2>6. QED
    BY <1>3, <1>5, <1>6, <1>7, <2>1, <2>2, <2>4, <2>5 DEF SerialCounts
<1>10. CASE CountCommit(t)
  <2>1. /\ ~Conflict(t) /\ Store(t, kind[t.who]) /\ UNCHANGED <<gone, likes>>
        /\ kind[t.who] \in {"reply", "repost"}
    BY <1>4, <1>10 DEF CountCommit, Conflict, TypeOK
  <2>2. kind[t.who] = "repost" => t.value <= Cardinality(Kept)
    BY <1>1, <1>10 DEF SerialReads, CountCommit
  <2>3. Kept \subseteq Kept'
    BY <1>1, <1>10, <2>1 DEF CountCommit, Kept, Published, TypeOK
  <2>4. Cardinality(Kept') \in Nat /\ Cardinality(Kept) <= Cardinality(Kept')
    BY <2>3, KeptCardinality
  <2>5. Seen("like")' = Seen("like")
    BY <1>5, <1>6, <2>1
  <2>6. Seen("repost")' <= Cardinality(Kept')
    BY <1>4, <1>5, <1>6, <1>7, <2>1, <2>2, <2>4
  <2>7. QED
    BY <1>3, <1>5, <2>1, <2>5, <2>6 DEF SerialCounts
<1>11. CASE DeleteCommit(t)
  <2>1. /\ gone' = [gone EXCEPT ![t.who] = "author"] /\ UNCHANGED <<stage, likes>>
        /\ t.who \in Child /\ t.value = Decremented(kind[t.who])
    BY <1>1, <1>11 DEF DeleteCommit, SerialReads, TypeOK
  <2>2. CASE kind[t.who] = "reply"
    <3>1. UNCHANGED row
      BY <1>11, <2>2 DEF DeleteCommit
    <3>2. Kept' = Kept
      BY <1>1, <2>1, <2>2 DEF Kept, Published, TypeOK
    <3>3. QED
      BY <1>3, <1>5, <2>1, <3>1, <3>2 DEF SerialCounts, Seen
  <2>3. CASE kind[t.who] = "repost"
    <3>1. Kept' = Kept \ {t.who}
      BY <1>1, <2>1 DEF Kept, Published, TypeOK
    <3>2. Cardinality(Kept') \in Nat /\ Cardinality(Kept') >= Cardinality(Kept) - 1
      <4>1. /\ IsFiniteSet(Kept')
            /\ Cardinality(Kept') = IF t.who \in Kept THEN Cardinality(Kept) - 1
                                                     ELSE Cardinality(Kept)
        BY <1>7, <3>1, FS_RemoveElement
      <4>2. Cardinality(Kept') \in Nat
        BY <4>1, FS_CardinalityType
      <4>3. QED
        BY <1>7, <4>1, <4>2
    <3>3. CASE row = NoRow
      <4>1. UNCHANGED row /\ Seen("repost") = 0
        BY <1>4, <1>11, <3>3 DEF DeleteCommit, Seen
      <4>2. QED
        BY <1>3, <1>5, <2>1, <3>2, <4>1 DEF SerialCounts, Seen
    <3>4. CASE row # NoRow
      <4>1. Store(t, "repost")
        BY <1>4, <1>11, <2>3, <3>4 DEF DeleteCommit
      <4>2. Seen("repost")' = t.value /\ Seen("like")' = Seen("like")
        BY <1>5, <1>6, <4>1
      <4>3. t.value = IF Seen("repost") > 0 THEN Seen("repost") - 1 ELSE 0
        BY <1>5, <2>1, <2>3
      <4>4. Seen("repost")' <= Cardinality(Kept')
        BY <1>5, <1>7, <3>2, <4>2, <4>3
      <4>5. QED
        BY <1>3, <1>5, <2>1, <4>2, <4>4 DEF SerialCounts
    <3>5. QED
      BY <3>3, <3>4
  <2>4. QED
    BY <2>1, <2>2, <2>3 DEF TypeOK
<1>12. CASE InitCommit(t)
  <2>1. UNCHANGED <<stage, gone, likes>> /\ row' = (IF row = NoRow THEN Fresh ELSE row)
    BY <1>12 DEF InitCommit
  <2>2. Kept' = Kept
    BY <1>1, <2>1 DEF Kept, Published
  <2>3. Seen("like")' = Seen("like") /\ Seen("repost")' = Seen("repost")
    BY <2>1 DEF Seen, Fresh, Columns
  <2>4. QED
    BY <1>3, <1>5, <2>1, <2>2, <2>3 DEF SerialCounts
<1>13. QED
  BY <1>8, <1>9, <1>10, <1>11, <1>12 DEF Commits

-------------------------------------------------------------------------------
(* The invariant                                                           *)

LEMMA InitIInv == Init => IInv
<1> SUFFICES ASSUME Init PROVE IInv
  OBVIOUS
<1>1. /\ likes = {} /\ row = NoRow /\ open = {}
      /\ \A c \in Child : stage[c] = "absent"
  BY DEF Init
<1>2. init \in BOOLEAN /\ overlapped \in BOOLEAN
  BY DEF Init
<1>3. stage \in [Child -> Stages] /\ gone \in [Child -> {"live", "author", "moderator"}]
  BY DEF Init, Stages
<1>4. TypeOK
  BY <1>1, <1>2, <1>3 DEF Init, TypeOK
<1>5. Kept = {}
  BY <1>1 DEF Kept, Published
<1>6. Seen("like") = 0 /\ Seen("repost") = 0 /\ Cardinality(likes) = 0 /\ Cardinality(Kept) = 0
  BY <1>1, <1>5, FS_EmptySet DEF Seen
<1>7. QED
  BY <1>1, <1>4, <1>6 DEF IInv, RowStays, CountsOnce, SerialReads, SerialCounts

LEMMA StutterIInv == IInv /\ UNCHANGED vars => IInv'
<1> SUFFICES ASSUME IInv, UNCHANGED vars PROVE IInv'
  OBVIOUS
<1>1. UNCHANGED <<kind, stage, gone, likes, row, init, open, overlapped>>
  BY DEF vars
<1>2. /\ Kept' = Kept /\ \A c : Seen(c)' = Seen(c) /\ Decremented(c)' = Decremented(c)
  BY <1>1 DEF Kept, Published, Seen, Decremented
<1>3. TypeOK' /\ RowStays' /\ CountsOnce'
  BY <1>1 DEF IInv, TypeOK, RowStays, CountsOnce
<1>4. SerialReads' /\ SerialCounts'
  BY <1>1, <1>2 DEF IInv, SerialReads, SerialCounts
<1>5. QED
  BY <1>3, <1>4 DEF IInv

LEMMA NextIInv == IInv /\ [Next]_vars => IInv'
<1> SUFFICES ASSUME IInv, [Next]_vars PROVE IInv'
  OBVIOUS
<1> USE DEF IInv
<1>1. CASE Opens
  <2>1. TypeOK'
    BY <1>1, TypeOpens
  <2>2. RowStays' /\ CountsOnce'
    BY <1>1, RowOpens, CountsOpens
  <2>3. SerialReads' /\ SerialCounts'
    BY <1>1, <2>1, SerialOpens
  <2>4. QED
    BY <2>1, <2>2, <2>3
<1>2. CASE Moves
  <2>1. TypeOK'
    BY <1>2, TypeMoves
  <2>2. RowStays'
    BY <1>2 DEF Moves, RowStays
  <2>3. CountsOnce'
    BY <1>2, CountsMoves
  <2>4. SerialReads' /\ SerialCounts'
    BY <1>2, <2>1, SerialMoves
  <2>5. QED
    BY <2>1, <2>2, <2>3, <2>4
<1>3. ASSUME NEW t \in open, Commits(t) PROVE IInv'
  <2>1. TypeOK'
    BY <1>3, TypeCommits
  <2>2. RowStays' /\ CountsOnce'
    BY <1>3, RowCommits, CountsCommits
  <2>3. SerialReads' /\ SerialCounts'
    BY <1>3, <2>1, SerialCommits
  <2>4. QED
    BY <2>1, <2>2, <2>3
<1>4. CASE UNCHANGED vars
  BY <1>4, StutterIInv
<1>5. QED
  BY <1>1, <1>2, <1>3, <1>4, Shapes

(* The invariant holds in every state of every behaviour.                  *)
THEOREM EngagementInvariance == Spec => []IInv
<1>1. QED
  BY InitIInv, NextIInv, PTL DEF Spec

(* No counter is ever negative, whatever is decremented twice or never     *)
(* counted, and every other variable stays in its range too.               *)
THEOREM CountersTypeCorrect == Spec => []TypeOK
<1>1. IInv => TypeOK
  BY DEF IInv
<1>2. QED
  BY <1>1, EngagementInvariance, PTL

(* One request after the other, like_count is the number of likes.         *)
THEOREM LikesAreCounted == Spec => []SerialLikeCountExact
<1>1. IInv => SerialLikeCountExact
  BY DEF IInv, SerialCounts, SerialLikeCountExact, LikeCountExact
<1>2. QED
  BY <1>1, EngagementInvariance, PTL

(* One transaction after the other, a repost that its owner took back is   *)
(* not counted.                                                            *)
THEOREM RepostsAreTakenBack == Spec => []SerialRepostsTakenBack
<1>1. IInv => SerialRepostsTakenBack
  BY DEF IInv, SerialCounts, SerialRepostsTakenBack, Kept
<1>2. QED
  BY <1>1, EngagementInvariance, PTL

-------------------------------------------------------------------------------
(* Counting again                                                          *)

InFlight(c) == stage[c] \in {"published", "counting"}

(* With one worker, one child at a time is published and counted.          *)
OneInFlight == \A c, d \in Child : InFlight(c) /\ InFlight(d) => c = d

(* No reply was ever deleted or hidden, and no count of one was lost.      *)
Undisturbed ==
    \A c \in Child : kind[c] = "reply" /\ Committed(c) => gone[c] = "live" /\ stage[c] # "lost"

(* A count under way has the number of replies shown, and nobody else      *)
(* writes reply_count; between the counts, it is that number.              *)
Recounted ==
    Undisturbed =>
        /\ \A t \in open : t.op = "count" /\ kind[t.who] = "reply" =>
              /\ t.value = Cardinality(Shown("reply"))
              /\ t.saw # NoRow => t.saw["reply"] = row["reply"]
        /\ (\A c \in Child : kind[c] = "reply" => ~InFlight(c)) =>
              Seen("reply") = Cardinality(Shown("reply"))

RInv == IInv /\ OneInFlight /\ Recounted

(* What disturbs a reply is never undone.                                  *)
LEMMA StaysDisturbed ==
    ASSUME IInv, Opens \/ Moves \/ \E t \in open : Commits(t), Undisturbed'
    PROVE  Undisturbed
<1> USE DEF IInv
<1>1. kind' = kind
  BY DEF Opens, Moves, Commits, LikeCommit, UnlikeCommit, CountCommit, DeleteCommit, InitCommit
<1>2. \A c \in Child : /\ Committed(c) => Committed(c)'
                       /\ stage[c] = "lost" => stage'[c] = "lost"
                       /\ gone[c] # "live" => gone'[c] # "live"
  <2>1. CASE Opens
    BY <2>1 DEF Opens, TypeOK, Committed
  <2>2. CASE Moves
    BY <2>2 DEF Moves, TypeOK, Committed
  <2>3. ASSUME NEW t \in open, CountCommit(t)
        PROVE  \A c \in Child : /\ Committed(c) => Committed(c)'
                                /\ stage[c] = "lost" => stage'[c] = "lost"
                                /\ gone[c] # "live" => gone'[c] # "live"
    BY <2>3 DEF CountCommit, TypeOK, CountsOnce, Committed
  <2>4. ASSUME NEW t \in open, LikeCommit(t) \/ UnlikeCommit(t) \/ DeleteCommit(t) \/ InitCommit(t)
        PROVE  \A c \in Child : /\ Committed(c) => Committed(c)'
                                /\ stage[c] = "lost" => stage'[c] = "lost"
                                /\ gone[c] # "live" => gone'[c] # "live"
    BY <2>4 DEF LikeCommit, UnlikeCommit, DeleteCommit, InitCommit, TypeOK, Committed
  <2>5. QED
    BY <2>1, <2>2, <2>3, <2>4 DEF Commits
<1>3. QED
  BY <1>1, <1>2 DEF Undisturbed

LEMMA OneAtATime ==
    ASSUME Workers = 1, IInv, OneInFlight, Opens \/ Moves \/ \E t \in open : Commits(t)
    PROVE  OneInFlight'
<1> USE DEF IInv
<1>1. CASE Opens
  BY <1>1 DEF Opens, OneInFlight, InFlight, TypeOK
<1>2. CASE Moves
  <2> DEFINE F == {d \in Child : stage[d] \in {"published", "counting"}}
  <2>1. Cardinality(F) < Workers => F = {}
    <3>1. F \in SUBSET Child /\ IsFiniteSet(Child)
      BY EngagementAssumption
    <3>2. IsFiniteSet(F) /\ Cardinality(F) \in Nat
      BY <3>1, FS_Subset, FS_CardinalityType
    <3>3. QED
      BY <3>2, FS_EmptySet
  <2>2. ASSUME NEW c \in Child, stage' = [stage EXCEPT ![c] = "published"], F = {}
        PROVE  OneInFlight'
    BY <2>2 DEF OneInFlight, InFlight, TypeOK
  <2>3. ASSUME \A c \in Child : InFlight(c)' => InFlight(c)
        PROVE  OneInFlight'
    BY <2>3 DEF OneInFlight
  <2> HIDE DEF F
  <2>4. \/ \E c \in Child : stage' = [stage EXCEPT ![c] = "published"] /\ F = {}
        \/ \A c \in Child : InFlight(c)' => InFlight(c)
    BY <1>2, <2>1 DEF Moves, InFlight, TypeOK, F
  <2>5. QED
    BY <2>2, <2>3, <2>4
<1>3. ASSUME NEW t \in open, Commits(t) PROVE OneInFlight'
  BY <1>3 DEF Commits, LikeCommit, UnlikeCommit, CountCommit, DeleteCommit, InitCommit, OneInFlight,
              InFlight, TypeOK
<1>4. QED
  BY <1>1, <1>2, <1>3

LEMMA RecountOpens ==
    ASSUME IInv, OneInFlight, Recounted, Opens
    PROVE  Recounted'
<1> USE DEF IInv
<1> SUFFICES ASSUME Undisturbed' PROVE Recounted'
  BY DEF Recounted
<1>1. PICK t, op, who, value :
          /\ Reads(t, op, who, value)
          /\ op = "count" => /\ who \in Child /\ stage[who] = "published"
                             /\ value = Cardinality(Shown(kind[who]))
                             /\ stage' = [stage EXCEPT ![who] = "counting"]
          /\ op # "count" => UNCHANGED stage
          /\ UNCHANGED <<kind, gone, row>>
  BY DEF Opens
<1>2. Undisturbed
  BY StaysDisturbed
<1>3. /\ open' = open \cup {t} /\ t.op = op /\ t.who = who /\ t.saw = row /\ t.value = value
  BY <1>1 DEF Reads
<1>4. Shown("reply")' = Shown("reply") /\ Seen("reply")' = Seen("reply")
  BY <1>1 DEF Shown, Published, Seen, TypeOK
<1>5. \A c \in Child : InFlight(c)' <=> InFlight(c)
  BY <1>1 DEF InFlight, TypeOK
<1>6. \A s \in open' : s.op = "count" /\ kind'[s.who] = "reply" =>
          /\ s.value = Cardinality(Shown("reply"))
          /\ s.saw # NoRow => s.saw["reply"] = row["reply"]
  BY <1>1, <1>2, <1>3 DEF Recounted
<1>7. QED
  BY <1>1, <1>2, <1>4, <1>5, <1>6 DEF Recounted

LEMMA RecountMoves ==
    ASSUME IInv, OneInFlight, OneInFlight', Recounted, Moves
    PROVE  Recounted'
<1> USE DEF IInv
<1> SUFFICES ASSUME Undisturbed' PROVE Recounted'
  BY DEF Recounted
<1>1. Undisturbed /\ UNCHANGED <<kind, row, open>>
  BY StaysDisturbed DEF Moves
<1>2. Seen("reply")' = Seen("reply")
  BY <1>1 DEF Seen
<1>3. ASSUME NEW c \in Child,
             \/ c \in Child /\ stage[c] = "absent" /\ stage' = [stage EXCEPT ![c] = "checked"]
             \/ stage[c] = "checked" /\ stage' = [stage EXCEPT ![c] = "processing"],
             UNCHANGED gone
      PROVE  Recounted'
  <2>1. Shown("reply")' = Shown("reply")
    BY <1>1, <1>3 DEF Shown, Published, TypeOK
  <2>2. \A d \in Child : InFlight(d)' <=> InFlight(d)
    BY <1>3 DEF InFlight, TypeOK
  <2>3. QED
    BY <1>1, <1>2, <2>1, <2>2 DEF Recounted
<1>4. ASSUME NEW c \in Child, stage[c] = "processing",
             stage' = [stage EXCEPT ![c] = "published"], UNCHANGED gone
      PROVE  Recounted'
  <2>1. InFlight(c)' /\ ~InFlight(c) /\ \A d \in Child : InFlight(d) => InFlight(d)'
    BY <1>4 DEF InFlight, TypeOK
  <2>2. \A t \in open : t.op # "count"
    <3>1. ASSUME NEW t \in open, t.op = "count" PROVE FALSE
      <4>1. t.who \in Child /\ InFlight(t.who)
        BY <3>1 DEF CountsOnce, TypeOK, InFlight
      <4>2. QED
        BY <2>1, <4>1 DEF OneInFlight
    <3>2. QED
      BY <3>1
  <2>3. CASE kind[c] = "reply"
    BY <1>1, <2>1, <2>2, <2>3 DEF Recounted
  <2>4. CASE kind[c] # "reply"
    <3>1. Shown("reply")' = Shown("reply")
      BY <1>1, <1>4, <2>4 DEF Shown, Published, TypeOK
    <3>2. QED
      BY <1>1, <1>2, <2>1, <2>2, <3>1 DEF Recounted
  <2>5. QED
    BY <2>3, <2>4
<1>5. ASSUME NEW c \in Child, stage[c] = "published", gone[c] # "live",
             stage' = [stage EXCEPT ![c] = "done"], UNCHANGED gone
      PROVE  Recounted'
  <2>1. kind[c] # "reply"
    BY <1>1, <1>5 DEF Undisturbed, Committed
  <2>2. Shown("reply")' = Shown("reply")
    BY <1>1, <1>5, <2>1 DEF Shown, Published, TypeOK
  <2>3. \A d \in Child : kind[d] = "reply" => (InFlight(d)' <=> InFlight(d))
    BY <1>5, <2>1 DEF InFlight, TypeOK
  <2>4. QED
    BY <1>1, <1>2, <2>2, <2>3 DEF Recounted
<1>6. ASSUME NEW c \in Child, Committed(c), gone' = [gone EXCEPT ![c] = "moderator"],
             UNCHANGED stage
      PROVE  Recounted'
  <2>1. kind[c] # "reply"
    BY <1>1, <1>6 DEF Undisturbed, Committed, TypeOK
  <2>2. Shown("reply")' = Shown("reply")
    BY <1>1, <1>6, <2>1 DEF Shown, Published, TypeOK
  <2>3. QED
    BY <1>1, <1>2, <1>6, <2>2 DEF Recounted, InFlight
<1>7. CASE UNCHANGED <<stage, gone>>
  <2>1. Shown("reply")' = Shown("reply")
    BY <1>1, <1>7 DEF Shown, Published
  <2>2. QED
    BY <1>1, <1>2, <1>7, <2>1 DEF Recounted, InFlight
<1>8. QED
  BY <1>3, <1>4, <1>5, <1>6, <1>7 DEF Moves

(* A commit of anything else leaves reply_count and what it counts alone.  *)
LEMMA RecountApart ==
    ASSUME IInv, Recounted, NEW t \in open, Commits(t), Undisturbed', Undisturbed,
           ~(t.op = "count" /\ kind[t.who] = "reply")
    PROVE  Recounted'
<1> USE DEF IInv
<1>1. /\ open' = open \ {t} /\ UNCHANGED kind
      /\ row \in Counters \cup {NoRow} /\ t.saw \in Counters \cup {NoRow} /\ t.value \in Nat
      /\ t.saw # NoRow => row # NoRow
  BY CommitFacts DEF TypeOK, RowStays
<1>2. "like" \in Columns /\ "reply" \in Columns /\ "repost" \in Columns
  BY DEF Columns
<1>3. Seen("reply")' = Seen("reply") /\ (row # NoRow => row' # NoRow)
  <2>1. \A c \in Columns \ {"reply"} : (t.saw = NoRow => row = NoRow) /\ Store(t, c) =>
            Seen("reply")' = Seen("reply")
    BY <1>1, <1>2, StoreFacts
  <2>2. CASE UNCHANGED row
    BY <2>2 DEF Seen
  <2>3. CASE row = NoRow /\ row' = Fresh
    BY <1>2, <2>3 DEF Seen, Fresh
  <2>4. kind[t.who] = "repost" \/ t.op # "count"
    BY DEF TypeOK
  <2>5. QED
    BY <1>2, <2>1, <2>2, <2>3, <2>4, CommitFacts
<1>4. row # NoRow => row'["reply"] = row["reply"]
  BY <1>3 DEF Seen
<1>5. Shown("reply")' = Shown("reply")
  <2>1. CASE CountCommit(t)
    BY <1>1, <2>1 DEF CountCommit, Shown, Published, TypeOK, CountsOnce
  <2>2. CASE DeleteCommit(t)
    <3>1. t.who \in Child /\ gone' = [gone EXCEPT ![t.who] = "author"] /\ UNCHANGED stage
      BY <2>2 DEF DeleteCommit, TypeOK
    <3>2. ~(kind[t.who] = "reply" /\ Published(t.who))
      BY <1>1, <3>1 DEF Undisturbed, Committed, Published, TypeOK
    <3>3. QED
      BY <1>1, <3>1, <3>2 DEF Shown, Published, TypeOK
  <2>3. CASE UNCHANGED <<stage, gone>>
    BY <1>1, <2>3 DEF Shown, Published
  <2>4. QED
    BY <2>1, <2>2, <2>3 DEF Commits, LikeCommit, UnlikeCommit, InitCommit
<1>6. \A c \in Child : kind[c] = "reply" => (InFlight(c)' <=> InFlight(c))
  BY DEF Commits, LikeCommit, UnlikeCommit, CountCommit, DeleteCommit, InitCommit, InFlight, TypeOK
<1>7. \A s \in open : s.saw # NoRow => row # NoRow
  BY DEF RowStays
<1>8. QED
  BY <1>1, <1>3, <1>4, <1>5, <1>6, <1>7 DEF Recounted

LEMMA RecountCommits ==
    ASSUME IInv, OneInFlight, Recounted, NEW t \in open, Commits(t)
    PROVE  Recounted'
<1> USE DEF IInv
<1> SUFFICES ASSUME Undisturbed' PROVE Recounted'
  BY DEF Recounted
<1>1. Undisturbed
  BY StaysDisturbed
<1>2. CASE ~(t.op = "count" /\ kind[t.who] = "reply")
  BY <1>1, <1>2, RecountApart
<1>3. CASE t.op = "count" /\ kind[t.who] = "reply"
  <2>1. /\ CountCommit(t) /\ t.who \in Child /\ stage[t.who] = "counting"
        /\ t.value = Cardinality(Shown("reply"))
        /\ t.saw # NoRow => t.saw["reply"] = row["reply"]
    BY <1>1, <1>3 DEF Commits, LikeCommit, UnlikeCommit, DeleteCommit, InitCommit, Recounted,
                      CountsOnce, TypeOK
  <2>2. open' = open \ {t} /\ UNCHANGED kind
    BY CommitFacts
  <2>3. \A s \in open' : ~(s.op = "count" /\ kind[s.who] = "reply")
    <3>1. ASSUME NEW s \in open, s # t, s.op = "count" PROVE FALSE
      <4>1. s.who \in Child /\ InFlight(s.who) /\ InFlight(t.who)
        BY <2>1, <3>1 DEF CountsOnce, TypeOK, InFlight
      <4>2. s.who = t.who
        BY <2>1, <4>1 DEF OneInFlight
      <4>3. QED
        BY <1>3, <3>1, <4>2 DEF CountsOnce
    <3>2. QED
      BY <2>2, <3>1
  <2>4. CASE Conflict(t)
    <3>1. stage'[t.who] = "lost"
      BY <2>1, <2>4 DEF CountCommit, TypeOK
    <3>2. QED
      BY <1>3, <2>1, <2>2, <3>1 DEF Undisturbed, Committed
  <2>5. CASE ~Conflict(t)
    <3>1. Store(t, "reply") /\ stage' = [stage EXCEPT ![t.who] = "done"] /\ UNCHANGED gone
      BY <1>3, <2>1, <2>5 DEF CountCommit
    <3>2. "reply" \in Columns
      BY DEF Columns
    <3>3. /\ row \in Counters \cup {NoRow} /\ t.saw \in Counters \cup {NoRow} /\ t.value \in Nat
          /\ t.saw # NoRow => row # NoRow
          /\ t.saw = NoRow => row = NoRow
      BY <2>5 DEF TypeOK, RowStays, Conflict
    <3>4. Seen("reply")' = t.value
      BY <2>1, <3>1, <3>2, <3>3, StoreFacts
    <3>5. Shown("reply")' = Shown("reply")
      BY <2>1, <2>2, <3>1 DEF Shown, Published, TypeOK
    <3>6. QED
      BY <2>1, <2>2, <2>3, <3>4, <3>5 DEF Recounted
  <2>6. QED
    BY <2>4, <2>5
<1>4. QED
  BY <1>2, <1>3

LEMMA InitRInv == Init => RInv
<1> SUFFICES ASSUME Init PROVE RInv
  OBVIOUS
<1>1. IInv
  BY InitIInv
<1>2. /\ open = {} /\ row = NoRow /\ \A c \in Child : stage[c] = "absent"
  BY DEF Init
<1>3. Shown("reply") = {} /\ Seen("reply") = 0
  BY <1>2 DEF Shown, Published, Seen
<1>4. Recounted
  BY <1>2, <1>3, FS_EmptySet DEF Recounted
<1>5. OneInFlight
  BY <1>2 DEF OneInFlight, InFlight
<1>6. QED
  BY <1>1, <1>4, <1>5 DEF RInv

LEMMA NextRInv ==
    ASSUME Workers = 1
    PROVE  RInv /\ [Next]_vars => RInv'
<1> SUFFICES ASSUME RInv, [Next]_vars PROVE RInv'
  OBVIOUS
<1>1. IInv /\ OneInFlight /\ Recounted /\ IInv'
  BY NextIInv DEF RInv
<1>2. CASE Opens \/ Moves \/ \E t \in open : Commits(t)
  <2>1. OneInFlight'
    BY <1>1, <1>2, OneAtATime
  <2>2. Recounted'
    BY <1>1, <1>2, <2>1, RecountOpens, RecountMoves, RecountCommits
  <2>3. QED
    BY <1>1, <2>1, <2>2 DEF RInv
<1>3. CASE UNCHANGED vars
  <2>1. UNCHANGED <<kind, stage, gone, row, open>>
    BY <1>3 DEF vars
  <2>2. OneInFlight' /\ Recounted'
    BY <1>1, <2>1 DEF OneInFlight, Recounted, Undisturbed, InFlight, Shown, Published, Committed, Seen
  <2>3. QED
    BY <1>1, <2>2 DEF RInv
<1>4. QED
  BY <1>1, <1>2, <1>3, Shapes DEF IInv

(* One worker counts again whatever the readings before were worth: when   *)
(* every reply was counted and none deleted, reply_count is exact, for any *)
(* number of requests that overlap.                                        *)
THEOREM RecountsAreExact == Workers = 1 => (Spec => []RecountIsExact)
<1> SUFFICES ASSUME Workers = 1 PROVE Spec => []RecountIsExact
  OBVIOUS
<1>1. Init => RInv
  BY InitRInv
<1>2. RInv /\ [Next]_vars => RInv'
  BY NextRInv
<1>3. RInv => RecountIsExact
  <2> SUFFICES ASSUME RInv,
                      \A c \in {c \in Child : kind[c] = "reply" /\ Committed(c)} :
                          stage[c] = "done" /\ gone[c] = "live"
               PROVE  Seen("reply") =
                          Cardinality({c \in Child : kind[c] = "reply" /\ Committed(c)})
    BY DEF RecountIsExact
  <2>1. Undisturbed /\ \A c \in Child : kind[c] = "reply" => ~InFlight(c)
    BY DEF Undisturbed, InFlight, Committed
  <2>2. {c \in Child : kind[c] = "reply" /\ Committed(c)} = Shown("reply")
    BY DEF Shown, Published, Committed
  <2>3. QED
    BY <2>1, <2>2 DEF RInv, Recounted
<1>4. QED
  BY <1>1, <1>2, <1>3, PTL DEF Spec

===============================================================================
