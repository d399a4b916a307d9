-------------------------- MODULE PostPipelineProofs --------------------------
(***************************************************************************)
(* What PostPipeline guarantees for any set of posts, workers, batch size  *)
(* and faults.  IInv is shown inductive action by action; the safety       *)
(* properties follow from it, and with it every step is a step of          *)
(* PostLifecycle or leaves its variables alone.                            *)
(***************************************************************************)
EXTENDS PostPipeline, SequenceTheorems, TLAPS

(* Appending an element that is not there adds it and creates no repeat.   *)
LEMMA AppendFacts ==
    ASSUME NEW S, NEW s \in Seq(S), NEW e \in S
    PROVE  /\ Append(s, e) \in Seq(S)
           /\ ToSet(Append(s, e)) = ToSet(s) \cup {e}
           /\ IsInjective(s) /\ e \notin ToSet(s) => IsInjective(Append(s, e))
<1> DEFINE t == Append(s, e)
           n == Len(s)
<1>1. /\ n \in Nat /\ DOMAIN s = 1..n
      /\ t \in Seq(S) /\ DOMAIN t = 1..(n + 1)
      /\ \A i \in 1..n : t[i] = s[i]
      /\ t[n + 1] = e
  OBVIOUS
<1> HIDE DEF t, n
<1>2. ToSet(t) = ToSet(s) \cup {e}
  <2>1. ASSUME NEW i \in 1..(n + 1)
        PROVE  t[i] \in ToSet(s) \cup {e}
    BY <1>1 DEF ToSet
  <2>2. ToSet(s) \subseteq ToSet(t)
    BY <1>1 DEF ToSet
  <2>3. e \in ToSet(t)
    BY <1>1 DEF ToSet
  <2>4. QED BY <1>1, <2>1, <2>2, <2>3 DEF ToSet
<1>3. ASSUME IsInjective(s), e \notin ToSet(s)
      PROVE  IsInjective(t)
  <2>1. \A a, b \in 1..n : s[a] = s[b] => a = b
    BY <1>1, <1>3 DEF IsInjective
  <2>2. \A a \in 1..n : s[a] # e
    BY <1>1, <1>3 DEF ToSet
  <2>3. QED BY <1>1, <2>1, <2>2 DEF IsInjective
<1>4. QED BY <1>1, <1>2, <1>3 DEF t

(* Taking the head off a sequence without repeats.                         *)
LEMMA TailFacts ==
    ASSUME NEW S, NEW s \in Seq(S), s # <<>>
    PROVE  /\ Tail(s) \in Seq(S)
           /\ Head(s) \in S
           /\ Head(s) \in ToSet(s)
           /\ ToSet(s) = ToSet(Tail(s)) \cup {Head(s)}
           /\ IsInjective(s) => IsInjective(Tail(s)) /\ Head(s) \notin ToSet(Tail(s))
<1>1. Tail(s) \in Seq(S) /\ Head(s) \in S /\ Len(s) \in Nat \ {0}
      /\ Len(Tail(s)) = Len(s) - 1 /\ DOMAIN s = 1..Len(s) /\ DOMAIN Tail(s) = 1..(Len(s) - 1)
      /\ Head(s) = s[1]
  OBVIOUS
<1>2. \A i \in 1..(Len(s) - 1) : Tail(s)[i] = s[i + 1]
  OBVIOUS
<1>3. ToSet(s) = ToSet(Tail(s)) \cup {Head(s)}
  <2>1. ToSet(s) \subseteq ToSet(Tail(s)) \cup {Head(s)}
    <3>1. SUFFICES ASSUME NEW i \in 1..Len(s)
                   PROVE  s[i] \in ToSet(Tail(s)) \cup {Head(s)}
      BY <1>1 DEF ToSet
    <3>2. CASE i = 1
      BY <3>2, <1>1
    <3>3. CASE i # 1
      <4>1. i - 1 \in 1..(Len(s) - 1) /\ Tail(s)[i - 1] = s[i]
        BY <3>3, <1>1, <1>2
      <4>2. QED BY <4>1, <1>1 DEF ToSet
    <3>4. QED BY <3>2, <3>3
  <2>2. ToSet(Tail(s)) \cup {Head(s)} \subseteq ToSet(s)
    BY <1>1, <1>2 DEF ToSet
  <2>3. QED BY <2>1, <2>2
<1>4. ASSUME IsInjective(s)
      PROVE  IsInjective(Tail(s)) /\ Head(s) \notin ToSet(Tail(s))
  <2>1. \A a, b \in 1..(Len(s) - 1) : s[a + 1] = s[b + 1] => a = b
    BY <1>1, <1>4 DEF IsInjective
  <2>2. IsInjective(Tail(s))
    BY <2>1, <1>1, <1>2 DEF IsInjective
  <2>3. \A a \in 1..(Len(s) - 1) : s[a + 1] # s[1]
    BY <1>1, <1>4 DEF IsInjective
  <2>4. QED BY <2>2, <2>3, <1>1, <1>2 DEF ToSet
<1>5. QED BY <1>1, <1>3, <1>4 DEF ToSet

(* Splitting a sequence in two.                                            *)
LEMMA SplitFacts ==
    ASSUME NEW S, NEW s \in Seq(S), NEW k \in 0..Len(s)
    PROVE  LET l == SubSeq(s, 1, k)
               r == SubSeq(s, k + 1, Len(s))
           IN  /\ l \in Seq(S) /\ r \in Seq(S)
               /\ Len(l) = k
               /\ ToSet(s) = ToSet(l) \cup ToSet(r)
               /\ IsInjective(s) => /\ IsInjective(l) /\ IsInjective(r)
                                    /\ ToSet(l) \cap ToSet(r) = {}
<1> DEFINE l == SubSeq(s, 1, k)
           r == SubSeq(s, k + 1, Len(s))
           n == Len(s)
<1>1. n \in Nat /\ k \in Nat /\ k <= n /\ DOMAIN s = 1..n /\ \A i \in 1..n : s[i] \in S
  OBVIOUS
<1>2. /\ l \in Seq(S) /\ Len(l) = k /\ DOMAIN l = 1..k
      /\ \A i \in 1..k : l[i] = s[i]
  OBVIOUS
<1>3. /\ r \in Seq(S) /\ Len(r) = n - k /\ DOMAIN r = 1..(n - k)
      /\ \A i \in 1..(n - k) : r[i] = s[i + k]
  OBVIOUS
<1> HIDE DEF l, r, n
<1>4. ToSet(s) = ToSet(l) \cup ToSet(r)
  <2>1. ASSUME NEW i \in 1..n
        PROVE  s[i] \in ToSet(l) \cup ToSet(r)
    <3>1. CASE i <= k
      BY <3>1, <1>1, <1>2 DEF ToSet
    <3>2. CASE ~(i <= k)
      <4>1. i - k \in 1..(n - k) /\ r[i - k] = s[i]
        BY <3>2, <1>1, <1>3
      <4>2. QED BY <4>1, <1>3 DEF ToSet
    <3>3. QED BY <3>1, <3>2
  <2>2. ToSet(l) \subseteq ToSet(s)
    BY <1>1, <1>2 DEF ToSet
  <2>3. ToSet(r) \subseteq ToSet(s)
    BY <1>1, <1>3 DEF ToSet
  <2>4. QED BY <2>1, <2>2, <2>3, <1>1 DEF ToSet
<1>5. ASSUME IsInjective(s)
      PROVE  IsInjective(l) /\ IsInjective(r) /\ ToSet(l) \cap ToSet(r) = {}
  <2>1. \A a, b \in 1..n : s[a] = s[b] => a = b
    BY <1>1, <1>5 DEF IsInjective
  <2>2. IsInjective(l)
    BY <2>1, <1>1, <1>2 DEF IsInjective
  <2>3. \A a, b \in 1..(n - k) : s[a + k] = s[b + k] => a = b
    BY <2>1, <1>1
  <2>4. IsInjective(r)
    BY <2>3, <1>3 DEF IsInjective
  <2>5. \A a \in 1..k, b \in 1..(n - k) : s[a] # s[b + k]
    BY <2>1, <1>1
  <2>6. QED BY <2>2, <2>4, <2>5, <1>2, <1>3 DEF ToSet
<1>6. QED BY <1>2, <1>3, <1>4, <1>5 DEF l, r, n

-----------------------------------------------------------------------------
(* The plans                                                               *)

(* Where each task leads: never back to the tasks that publish the post.   *)
LEMMA PlanFacts ==
    /\ Tasks = {"validate", "publish", "post_safety_labels", "embedding", "fanout",
                "reply_side_effects", "engagement_init"}
    /\ AfterPlan["validate"] = "post_safety_labels"
    /\ AfterPlan["publish"] = "post_safety_labels"
    /\ AfterPlan["post_safety_labels"] = "embedding"
    /\ AfterPlan["embedding"] = "fanout"
    /\ AfterPlan["fanout"] = "reply_side_effects"
    /\ AfterPlan["reply_side_effects"] = "engagement_init"
    /\ AfterPlan["engagement_init"] = "outcome"
    /\ \A s \in Tasks : AfterPlan[s] \in AfterPublish /\ AfterPlan[s] \in Steps
BY DEF Tasks, AfterPlan, Steps, AfterPublish, AfterLabels, AfterEmbedding, AfterFanOut,
       AfterReply, AfterEngagement

(* The post a busy worker handles is a pending post with a row.            *)
LEMMA CurrentFacts ==
    ASSUME IInv, NEW w \in Worker, step[w] # "idle"
    PROVE  /\ batch[w] \in Seq(Post) /\ batch[w] # <<>>
           /\ Current(w) \in Post
           /\ Current(w) \in ToSet(batch[w])
           /\ Current(w) \in pel
           /\ status[Current(w)] # "absent"
<1>1. batch[w] \in Seq(Post) /\ batch[w] # <<>>
  BY DEF IInv, TypeOK, WorkerInv
<1>2. Current(w) \in Post /\ Current(w) \in ToSet(batch[w])
  BY <1>1, TailFacts DEF Current
<1>3. Current(w) \in pel
  BY <1>2 DEF IInv, DispatchedOnce
<1>4. request[Current(w)] = "sent"
  BY <1>3 DEF IInv, QueueInv
<1>5. status[Current(w)] # "absent"
  BY <1>2, <1>4 DEF IInv, QueueInv
<1>6. QED BY <1>1, <1>2, <1>3, <1>5

(* An idle worker has nothing left of a batch.                             *)
LEMMA IdleFacts ==
    ASSUME IInv, NEW w \in Worker, step[w] = "idle"
    PROVE  batch[w] = <<>> /\ ToSet(batch[w]) = {}
BY DEF IInv, WorkerInv, ToSet

(* What the plans have written does not go away.                           *)
LEMMA ProgressStays ==
    ASSUME NEW v \in Worker, Progress(v), step'[v] = step[v], ~errors'[v] => ~errors[v],
           Current(v)' = Current(v), looked'[v] = looked[v], writes'[v] = writes[v],
           deleted \subseteq deleted', effects[Current(v)] \subseteq effects'[Current(v)]
    PROVE  Progress(v)'
BY DEF Progress, PlansDone, SideDone

(* Nothing is in flight but between the two transactions of a task, and    *)
(* what is in flight is a published post's.                                *)
LEMMA FlightFacts ==
    ASSUME IInv, NEW w \in Worker
    PROVE  /\ step[w] # "reply_side_effects" => looked[w] = {}
           /\ step[w] \notin {"fanout", "reply_side_effects"} => writes[w] = {}
           /\ writes[w] # {} => Current(w) \in Post /\ status[Current(w)] = "published"
<1>1. FlightInv(w)
  BY DEF IInv
<1>2. writes[w] # {} => step[w] # "idle"
  BY <1>1 DEF FlightInv
<1>3. QED BY <1>1, <1>2, CurrentFacts DEF FlightInv

(* Emptying what is empty changes nothing.                                 *)
LEMMA NothingHeld ==
    ASSUME IInv, NEW w \in Worker, UNCHANGED taskVars
    PROVE  /\ looked[w] = {} => looked' = [looked EXCEPT ![w] = {}]
           /\ writes[w] = {} => writes' = [writes EXCEPT ![w] = {}]
BY DEF IInv, TypeOK, taskVars

-----------------------------------------------------------------------------
(* The invariant holds at the start and every step preserves it            *)

(* No row, no event and no batch: every part of the invariant is vacuous.  *)
LEMMA InitIInv == Init => IInv
<1> SUFFICES ASSUME Init PROVE IInv
  OBVIOUS
<1> USE DEF Init
<1>1. ToSet(<<>>) = {} /\ <<>> \in Seq(Post) /\ IsInjective(<<>>)
  BY DEF ToSet, IsInjective
<1>2. TypeOK
  BY <1>1 DEF TypeOK, RequestStates, Steps
<1>3. DispatchedOnce
  BY <1>1 DEF DispatchedOnce
<1>4. QueueInv
  BY <1>1 DEF QueueInv
<1>5. \A w \in Worker : WorkerInv(w)
  BY <1>1, PlanFacts DEF WorkerInv, Undispatched, AfterPublish, AfterLabels, AfterEmbedding,
     AfterFanOut, AfterReply, AfterEngagement
<1>6. AckedMeansDecided
  BY DEF AckedMeansDecided
<1>7. SpreadOnlyPublished
  BY DEF SpreadOnlyPublished
<1>8. \A w \in Worker : Progress(w)
  BY DEF Progress, PlansDone, SideDone, AfterLabels, AfterEmbedding, AfterFanOut, AfterReply, AfterEngagement
<1>10. \A w \in Worker : FlightInv(w)
  BY DEF FlightInv
<1>9. QED BY <1>2, <1>3, <1>4, <1>5, <1>6, <1>7, <1>8, <1>10 DEF IInv

(* A step that leaves queue and workers alone and takes the status of a    *)
(* post without an event forward, or deletes posts.                        *)
LEMMA ApiPreserves ==
    ASSUME IInv, NEW p \in Post, ApiStep(p)
    PROVE  IInv'
<1> USE DEF queueVars, workerVars, taskVars, apiVars
<1>1. UNCHANGED <<pel, batch, step, errors, looked, writes, effects>> /\ \A w \in Worker : Current(w)' = Current(w)
  BY DEF ApiStep, BeginCreate, CommitCreate, PublishEvent, LoseEvent, Delete, Current
<1>2. TypeOK /\ DispatchedOnce /\ QueueInv /\ AckedMeansDecided /\ SpreadOnlyPublished
  BY DEF IInv
<1>3. p \notin ToSet(stream) \/ request[p] = "sent"
  BY <1>2 DEF QueueInv
<1>4. \A q \in Post : status[q] = status'[q] \/ status[q] = "absent"
  BY <1>2 DEF ApiStep, BeginCreate, CommitCreate, PublishEvent, LoseEvent, Delete, TypeOK, QueueInv
<1>13. \A q \in Post : /\ request[q] = "sent" => request'[q] = "sent"
                       /\ request'[q] = "sent" => request[q] = "sent" \/ (q = p /\ PublishEvent(p))
  BY <1>2 DEF ApiStep, BeginCreate, CommitCreate, PublishEvent, LoseEvent, Delete, TypeOK
<1>5. TypeOK'
  <2>1. CASE PublishEvent(p)
    BY <2>1, <1>2, AppendFacts DEF PublishEvent, TypeOK, RequestStates
  <2>2. CASE ~PublishEvent(p)
    BY <2>2, <1>1, <1>2 DEF ApiStep, BeginCreate, CommitCreate, LoseEvent, Delete, TypeOK, RequestStates
  <2>3. QED BY <2>1, <2>2
<1>6. /\ ToSet(stream') = ToSet(stream) \/ (ToSet(stream') = ToSet(stream) \cup {p} /\ PublishEvent(p))
      /\ IsInjective(stream')
  <2>1. CASE PublishEvent(p)
    <3>1. p \notin ToSet(stream)
      BY <2>1, <1>2 DEF PublishEvent, QueueInv
    <3>2. QED BY <3>1, <2>1, <1>2, AppendFacts DEF PublishEvent, TypeOK, DispatchedOnce
  <2>2. CASE ~PublishEvent(p)
    BY <2>2, <1>2 DEF ApiStep, BeginCreate, CommitCreate, LoseEvent, Delete, DispatchedOnce
  <2>3. QED BY <2>1, <2>2
<1>7. DispatchedOnce'
  BY <1>1, <1>2, <1>6 DEF DispatchedOnce, PublishEvent, QueueInv
<1>8. QueueInv'
  <2>1. \A q \in Post : request'[q] \in {"none", "checked"} <=> status'[q] = "absent"
    BY <1>2 DEF ApiStep, BeginCreate, CommitCreate, PublishEvent, LoseEvent, Delete, TypeOK, QueueInv
  <2>2. \A q \in Post : request'[q] = "checked" /\ Content[q].ref # NoPost
                           => status'[Content[q].ref] = "published"
    <3>1. ASSUME NEW q \in Post, request'[q] = "checked", Content[q].ref # NoPost
          PROVE  status[Content[q].ref] = "published"
      BY <3>1, <1>2 DEF ApiStep, BeginCreate, CommitCreate, PublishEvent, LoseEvent, Delete,
         TypeOK, QueueInv, Available, Visible
    <3>2. \A q \in Post : Content[q].ref # NoPost => Content[q].ref \in Post
      BY ContentAssumption
    <3>3. QED BY <3>1, <3>2, <1>4
  <2>3. \A q \in ToSet(stream') \cup pel' : request'[q] = "sent"
    <3>1. \A q \in ToSet(stream) \cup pel : request'[q] = "sent"
      BY <1>2, <1>13 DEF TypeOK, QueueInv, ToSet
    <3>2. PublishEvent(p) => request'[p] = "sent"
      BY <1>2 DEF PublishEvent, TypeOK
    <3>3. QED BY <3>1, <3>2, <1>1, <1>6
  <2>4. \A q \in ToSet(stream') : status'[q] = "processing"
    <3>1. \A q \in ToSet(stream) : q \in Post /\ status'[q] = "processing"
      BY <1>2, <1>4 DEF TypeOK, QueueInv, ToSet
    <3>2. CASE PublishEvent(p)
      BY <3>1, <3>2, <1>2, <1>6 DEF PublishEvent, TypeOK, QueueInv
    <3>3. CASE ~PublishEvent(p)
      BY <3>1, <3>3, <1>6
    <3>4. QED BY <3>2, <3>3
  <2>6. \A q \in Post : request'[q] \in {"committed", "lost"} => status'[q] = "processing"
    BY <1>2 DEF ApiStep, BeginCreate, CommitCreate, PublishEvent, LoseEvent, Delete, TypeOK, QueueInv
  <2>5. QED BY <2>1, <2>2, <2>3, <2>4, <2>6 DEF QueueInv
<1>9. ASSUME NEW w \in Worker
      PROVE  WorkerInv(w)' /\ FlightInv(w)' /\ Progress(w)'
  <2>1. WorkerInv(w) /\ FlightInv(w) /\ Progress(w)
    BY DEF IInv
  <2>2. Undispatched(w) \subseteq Post
    BY <1>2 DEF Undispatched, TypeOK, ToSet
  <2>3. WorkerInv(w)'
    <3>1. CASE step[w] = "idle"
      BY <3>1, <2>1, <2>2, <1>1, <1>4 DEF WorkerInv, Undispatched, AfterPublish, AfterLabels,
         AfterEmbedding, AfterFanOut, AfterReply, AfterEngagement
    <3>2. CASE step[w] # "idle"
      BY <3>2, CurrentFacts, <2>1, <2>2, <1>1, <1>4 DEF WorkerInv, Undispatched, Decided
    <3>3. QED BY <3>1, <3>2
  <2>4. deleted \subseteq deleted'
    BY DEF ApiStep, BeginCreate, CommitCreate, PublishEvent, LoseEvent, Delete
  <2>5. Progress(w)'
    BY <2>1, <2>4, <1>1 DEF Progress, PlansDone, SideDone
  <2>7. FlightInv(w)'
    BY <2>1, <1>1, <1>4, FlightFacts DEF FlightInv
  <2>6. QED BY <2>3, <2>5, <2>7
<1>10. AckedMeansDecided'
  <2>1. SUFFICES ASSUME NEW q \in Post, request'[q] = "sent", q \notin ToSet(stream') \cup pel'
                 PROVE  status'[q] \in Decided
    BY DEF AckedMeansDecided
  <2>2. request[q] = "sent"
    <3>1. PublishEvent(p) => p \in ToSet(stream')
      BY <1>2, AppendFacts DEF PublishEvent, TypeOK
    <3>2. QED BY <2>1, <3>1, <1>13
  <2>3. status[q] \in Decided
    BY <2>1, <2>2, <1>1, <1>2, <1>6 DEF AckedMeansDecided
  <2>4. QED BY <2>3, <1>4 DEF Decided
<1>11. SpreadOnlyPublished'
  BY <1>1, <1>2, <1>4 DEF SpreadOnlyPublished
<1>12. QED BY <1>5, <1>7, <1>8, <1>9, <1>10, <1>11 DEF IInv

-----------------------------------------------------------------------------
(* Reading the stream                                                      *)

(* XREADGROUP splits the stream into what it returns and what remains.     *)
LEMMA DeliverFacts ==
    ASSUME IInv, Deliver
    PROVE  /\ Arriving \in Seq(Post) /\ Arriving # <<>> /\ IsInjective(Arriving)
           /\ stream' \in Seq(Post) /\ IsInjective(stream')
           /\ ToSet(stream) = ToSet(Arriving) \cup ToSet(stream')
           /\ ToSet(Arriving) \cap ToSet(stream') = {}
           /\ pel' = pel \cup ToSet(Arriving)
<1> DEFINE k == IF Len(stream) < BatchSize THEN Len(stream) ELSE BatchSize
<1>1. stream \in Seq(Post) /\ IsInjective(stream) /\ stream # <<>>
  BY DEF IInv, TypeOK, DispatchedOnce, Deliver
<1>2. Len(stream) \in Nat \ {0}
  BY <1>1
<1>3. k \in 0..Len(stream) /\ k # 0
  BY <1>2, BatchAssumption
<1>4. Arriving = SubSeq(stream, 1, k)
  BY DEF Arriving
<1> HIDE DEF k
<1>5. Len(Arriving) = k
  BY <1>1, <1>3, <1>4, SplitFacts
<1>6. stream' = SubSeq(stream, k + 1, Len(stream))
  BY <1>5 DEF Deliver, Remaining
<1>7. Arriving # <<>>
  BY <1>3, <1>5
<1>8. QED BY <1>1, <1>3, <1>4, <1>6, <1>7, SplitFacts DEF Deliver

(* The stream and the pending list keep the invariant, whoever reads.      *)
LEMMA DeliverPreserves ==
    ASSUME IInv, Deliver, UNCHANGED <<effects, apiVars>>
    PROVE  /\ stream' \in Seq(Post) /\ pel' \subseteq Post
           /\ QueueInv' /\ AckedMeansDecided' /\ SpreadOnlyPublished'
           /\ ToSet(stream') \cap pel' = {}
<1> USE DEF apiVars
<1>1. ToSet(stream') \subseteq ToSet(stream) /\ ToSet(stream') \cup pel' = ToSet(stream) \cup pel
  BY DeliverFacts
<1>2. stream' \in Seq(Post) /\ pel' \subseteq Post
  BY DeliverFacts DEF IInv, TypeOK, ToSet
<1>3. QueueInv'
  BY <1>1 DEF IInv, QueueInv
<1>4. AckedMeansDecided'
  BY <1>1 DEF IInv, AckedMeansDecided
<1>5. SpreadOnlyPublished'
  BY DEF IInv, SpreadOnlyPublished
<1>6. ToSet(stream') \cap pel' = {}
  BY DeliverFacts DEF IInv, DispatchedOnce
<1>7. QED BY <1>2, <1>3, <1>4, <1>5, <1>6

(* A worker reads into an empty batch: what it takes was in no other       *)
(* batch, since it was in the stream and not pending.                      *)
LEMMA ReadPreserves ==
    ASSUME IInv, NEW w \in Worker, Read(w)
    PROVE  IInv'
<1> USE DEF apiVars, taskVars
<1>1. /\ step[w] = "idle" /\ Deliver
      /\ batch' = [batch EXCEPT ![w] = Arriving]
      /\ step' = [step EXCEPT ![w] = "validate"]
      /\ UNCHANGED <<errors, looked, writes, effects, status, deleted, request>>
  BY DEF Read
<1>2. TypeOK /\ DispatchedOnce
  BY DEF IInv
<1>3. TypeOK'
  BY <1>1, <1>2, DeliverFacts, DeliverPreserves, PlanFacts DEF TypeOK, Steps
<1>4. /\ \A v \in Worker : batch'[v] = IF v = w THEN Arriving ELSE batch[v]
      /\ \A v \in Worker : step'[v] = IF v = w THEN "validate" ELSE step[v]
  BY <1>1, <1>2 DEF TypeOK
<1>5. DispatchedOnce'
  <2>1. IsInjective(stream') /\ ToSet(stream') \cap pel' = {} /\ pel \subseteq pel'
    BY <1>1, DeliverFacts, DeliverPreserves
  <2>2. ToSet(Arriving) \subseteq pel' /\ IsInjective(Arriving) /\ ToSet(Arriving) \cap pel = {}
    BY <1>1, <1>2, DeliverFacts DEF DispatchedOnce
  <2>3. \A v \in Worker : ToSet(batch[v]) \subseteq pel /\ IsInjective(batch[v])
    BY <1>2 DEF DispatchedOnce
  <2>4. \A v \in Worker : ToSet(batch'[v]) \subseteq pel' /\ IsInjective(batch'[v])
    BY <2>1, <2>2, <2>3, <1>4
  <2>5. ASSUME NEW u \in Worker, NEW v \in Worker, u # v
        PROVE  ToSet(batch'[u]) \cap ToSet(batch'[v]) = {}
    <3>1. ToSet(batch[u]) \cap ToSet(batch[v]) = {}
      BY <2>5, <1>2 DEF DispatchedOnce
    <3>2. QED BY <3>1, <2>2, <2>3, <2>5, <1>4
  <2>6. QED BY <2>1, <2>4, <2>5 DEF DispatchedOnce
<1>6. ASSUME NEW v \in Worker
      PROVE  WorkerInv(v)' /\ FlightInv(v)' /\ Progress(v)'
  <2>1. WorkerInv(v) /\ FlightInv(v) /\ Progress(v) /\ WorkerInv(w)
    BY DEF IInv
  <2>5. looked[w] = {} /\ writes[w] = {}
    BY <1>1, FlightFacts
  <2>2. CASE v = w
    <3>1. Arriving # <<>> /\ ~errors[w]
      BY <1>1, <2>1, DeliverFacts DEF WorkerInv
    <3>2. \A p \in ToSet(Arriving) : status[p] = "processing"
      BY <1>1, DeliverFacts DEF IInv, QueueInv
    <3>3. FlightInv(w)'
      BY <2>5, <1>1, <1>4 DEF FlightInv
    <3>4. QED BY <3>1, <3>2, <3>3, <2>2, <2>5, <1>1, <1>4 DEF WorkerInv, Progress, PlansDone, SideDone, Undispatched,
              AfterPublish, AfterLabels, AfterEmbedding, AfterFanOut, AfterReply, AfterEngagement
  <2>3. CASE v # w
    BY <2>1, <2>3, <1>1, <1>4 DEF WorkerInv, FlightInv, Progress, PlansDone, SideDone, Undispatched, Current
  <2>4. QED BY <2>2, <2>3
<1>7. QED BY <1>1, <1>3, <1>5, <1>6, DeliverPreserves DEF IInv

(* Entries whose delivery was lost on the way stay pending; no batch, task *)
(* or post changes.                                                        *)
LEMMA ReadReplyLostPreserves ==
    ASSUME IInv, NEW w \in Worker, ReadReplyLost(w)
    PROVE  IInv'
<1> USE DEF apiVars, workerVars, taskVars
<1>1. Deliver /\ UNCHANGED <<effects, status, deleted, request, batch, step, errors, looked, writes>>
  BY DEF ReadReplyLost
<1>2. TypeOK'
  BY <1>1, DeliverPreserves DEF IInv, TypeOK
<1>3. DispatchedOnce'
  BY <1>1, DeliverFacts, DeliverPreserves DEF IInv, DispatchedOnce
<1>4. ASSUME NEW v \in Worker
      PROVE  WorkerInv(v)' /\ FlightInv(v)' /\ Progress(v)'
  BY <1>1 DEF IInv, WorkerInv, FlightInv, Progress, PlansDone, SideDone, Undispatched, Current
<1>5. QED BY <1>1, <1>2, <1>3, <1>4, DeliverPreserves DEF IInv

-----------------------------------------------------------------------------
(* Running the plans                                                       *)

(* What must have been written when a task returns without raising, and    *)
(* no plan has failed before.                                              *)
Required(w) ==
    LET p == Current(w)
    IN  IF step[w] = "post_safety_labels" THEN LabelWrites(p)
        ELSE IF step[w] = "embedding" THEN {"embed"}
        ELSE IF step[w] = "fanout" THEN (IF p \in deleted THEN {} ELSE {"feed"})
        ELSE IF step[w] = "reply_side_effects" THEN (IF p \in deleted THEN {} ELSE SideTasks(p))
        ELSE {"engage"}

(* A task that ends, writes `kinds` and leaves the status alone: it        *)
(* raised, or all that it had to write is written.                         *)
LEMMA TaskPreserves ==
    ASSUME IInv, NEW w \in Worker, step[w] \in Tasks,
           NEW kinds \in SUBSET EffectKinds,
           Commit(Current(w), kinds),
           UNCHANGED <<batch, apiVars, queueVars>>,
           looked' = [looked EXCEPT ![w] = {}], writes' = [writes EXCEPT ![w] = {}],
           kinds \subseteq {"label"} \/ status[Current(w)] = "published",
           \/ Raise(w)
           \/ /\ Return(w) /\ step[w] \notin {"validate", "publish"}
              /\ ~errors[w] => Required(w) \subseteq effects[Current(w)] \cup kinds
    PROVE  IInv'
<1> USE DEF apiVars, queueVars
<1>1. TypeOK /\ DispatchedOnce /\ QueueInv /\ AckedMeansDecided /\ SpreadOnlyPublished
  BY DEF IInv
<1>2. step[w] # "idle" /\ Current(w) \in Post /\ batch[w] # <<>>
  BY PlanFacts, CurrentFacts
<1>3. /\ step' = [step EXCEPT ![w] = AfterPlan[step[w]]]
      /\ errors' = [errors EXCEPT ![w] = TRUE] \/ UNCHANGED errors
  BY DEF Raise, Return, Goto
<1>4. AfterPlan[step[w]] \in AfterPublish /\ AfterPlan[step[w]] \in Steps
  BY PlanFacts
<1>5. /\ \A v \in Worker : step'[v] = IF v = w THEN AfterPlan[step[w]] ELSE step[v]
      /\ \A v \in Worker \ {w} :
            errors'[v] = errors[v] /\ looked'[v] = looked[v] /\ writes'[v] = writes[v]
      /\ looked'[w] = {} /\ writes'[w] = {}
      /\ \A v \in Worker : Current(v)' = Current(v)
      /\ \A p \in Post : effects'[p] = IF p = Current(w) THEN effects[p] \cup kinds ELSE effects[p]
  BY <1>1, <1>2, <1>3 DEF TypeOK, Commit, Current
<1>6. TypeOK'
  <2>1. step' \in [Worker -> Steps] /\ errors' \in [Worker -> BOOLEAN]
    BY <1>1, <1>3, <1>4 DEF TypeOK
  <2>2. effects' \in [Post -> SUBSET EffectKinds]
    BY <1>1 DEF TypeOK, Commit
  <2>3. QED BY <1>1, <2>1, <2>2 DEF TypeOK
<1>7. DispatchedOnce' /\ QueueInv' /\ AckedMeansDecided'
  BY <1>1 DEF DispatchedOnce, QueueInv, AckedMeansDecided
<1>8. SpreadOnlyPublished'
  BY <1>1, <1>2, <1>5 DEF SpreadOnlyPublished
<1>9. ASSUME NEW v \in Worker
      PROVE  WorkerInv(v)' /\ FlightInv(v)'
  <2>1. WorkerInv(v) /\ FlightInv(v)
    BY DEF IInv
  <2>2. CASE v = w
    <3>1. step'[w] \in AfterPublish /\ step'[w] \notin {"idle", "validate", "publish", "ack"}
      BY <1>4, <1>5 DEF AfterPublish, AfterLabels, AfterEmbedding, AfterFanOut, AfterReply,
         AfterEngagement
    <3>2. Undispatched(w)' \subseteq Undispatched(w)
      BY <3>1, <1>5 DEF Undispatched
    <3>3. ~errors'[w] => ~errors[w] /\ step[w] \in AfterPublish
      <4>1. CASE Raise(w)
        BY <4>1, <1>1 DEF Raise, TypeOK
      <4>2. CASE ~Raise(w)
        BY <4>2, PlanFacts DEF Return, AfterPublish, AfterLabels, AfterEmbedding, AfterFanOut,
           AfterReply, AfterEngagement
      <4>3. QED BY <4>1, <4>2
    <3>4. FlightInv(w)'
      BY <1>5 DEF FlightInv
    <3>5. QED BY <3>1, <3>2, <3>3, <3>4, <2>1, <2>2, <1>2, <1>5 DEF WorkerInv
  <2>3. CASE v # w
    BY <2>1, <2>3, <1>5 DEF WorkerInv, FlightInv, Undispatched
  <2>4. QED BY <2>2, <2>3
<1>10. ASSUME NEW v \in Worker
       PROVE  Progress(v)'
  <2>1. Progress(v) /\ WorkerInv(v)
    BY DEF IInv
  <2>2. CASE v # w
    <3>1. CASE step[v] = "idle"
      <4>1. looked[v] = {}
        BY <3>1, FlightFacts
      <4>2. QED BY <3>1, <4>1, <2>2, <1>5 DEF Progress, PlansDone, SideDone, AfterLabels, AfterEmbedding, AfterFanOut,
                AfterReply, AfterEngagement
    <3>2. CASE step[v] # "idle"
      <4>1. effects[Current(v)] \subseteq effects'[Current(v)]
        BY <3>2, CurrentFacts, <1>5
      <4>2. QED BY <4>1, ProgressStays, <2>1, <2>2, <1>5
    <3>3. QED BY <3>1, <3>2
  <2>3. CASE v = w /\ Raise(w)
    BY <2>3, <1>1 DEF Raise, Progress, PlansDone, SideDone, TypeOK
  <2>4. CASE v = w /\ ~Raise(w)
    <3>1. /\ UNCHANGED errors
          /\ ~errors[w] => Required(w) \subseteq effects'[Current(w)]
          /\ step[w] \in {"post_safety_labels", "embedding", "fanout", "reply_side_effects",
                          "engagement_init"}
      BY <2>4, <1>2, <1>5, PlanFacts DEF Return
    <3>2. effects[Current(w)] \subseteq effects'[Current(w)]
      BY <1>2, <1>5
    <3>9. SideDone(w)'
      BY <1>5 DEF SideDone
    <3>10. ~errors[w] => PlansDone(w)
      BY <2>1, <2>4 DEF Progress
    <3>11. step'[w] = AfterPlan[step[w]] /\ Current(w)' = Current(w)
      BY <1>5
    <3>3. CASE step[w] = "post_safety_labels"
      <4>1. ~errors[w] => (Content[Current(w)].nsfw => "label" \in effects'[Current(w)])
        BY <3>1, <3>3 DEF Required, LabelWrites
      <4>2. ~errors[w] => PlansDone(w)'
        BY <4>1, <3>2, <3>3, <3>10, <3>11, PlanFacts DEF PlansDone, AfterLabels, AfterEmbedding,
           AfterFanOut, AfterReply, AfterEngagement
      <4>3. QED BY <4>2, <3>1, <3>9, <2>4 DEF Progress
    <3>4. CASE step[w] = "embedding"
      <4>1. ~errors[w] => ("embed" \in effects'[Current(w)])
        BY <3>1, <3>4 DEF Required
      <4>2. ~errors[w] => PlansDone(w)'
        BY <4>1, <3>2, <3>4, <3>10, <3>11, PlanFacts DEF PlansDone, AfterLabels, AfterEmbedding,
           AfterFanOut, AfterReply, AfterEngagement
      <4>3. QED BY <4>2, <3>1, <3>9, <2>4 DEF Progress
    <3>5. CASE step[w] = "fanout"
      <4>1. ~errors[w] => (Current(w) \notin deleted => "feed" \in effects'[Current(w)])
        BY <3>1, <3>5 DEF Required
      <4>2. ~errors[w] => PlansDone(w)'
        BY <4>1, <3>2, <3>5, <3>10, <3>11, PlanFacts DEF PlansDone, AfterLabels, AfterEmbedding,
           AfterFanOut, AfterReply, AfterEngagement
      <4>3. QED BY <4>2, <3>1, <3>9, <2>4 DEF Progress
    <3>6. CASE step[w] = "reply_side_effects"
      <4>1. ~errors[w] => (Current(w) \notin deleted /\ Content[Current(w)].kind \in {"reply", "repost"}
                           => {"count", "notify"} \subseteq effects'[Current(w)])
        BY <3>1, <3>6 DEF Required, SideTasks
      <4>2. ~errors[w] => PlansDone(w)'
        BY <4>1, <3>2, <3>6, <3>10, <3>11, PlanFacts DEF PlansDone, AfterLabels, AfterEmbedding,
           AfterFanOut, AfterReply, AfterEngagement
      <4>3. QED BY <4>2, <3>1, <3>9, <2>4 DEF Progress
    <3>7. CASE step[w] = "engagement_init"
      <4>1. ~errors[w] => ("engage" \in effects'[Current(w)])
        BY <3>1, <3>7 DEF Required
      <4>2. ~errors[w] => PlansDone(w)'
        BY <4>1, <3>2, <3>7, <3>10, <3>11, PlanFacts DEF PlansDone, AfterLabels, AfterEmbedding,
           AfterFanOut, AfterReply, AfterEngagement
      <4>3. QED BY <4>2, <3>1, <3>9, <2>4 DEF Progress
    <3>8. QED BY <3>1, <3>3, <3>4, <3>5, <3>6, <3>7
  <2>5. QED BY <2>2, <2>3, <2>4
<1>11. QED BY <1>6, <1>7, <1>8, <1>9, <1>10 DEF IInv

(* A transaction inside a plan: a task has read, committed `kinds` or      *)
(* failed, and leaves `lk` looked at and `wr` in flight.                   *)
LEMMA InsidePreserves ==
    ASSUME IInv, NEW w \in Worker, step[w] \in {"fanout", "reply_side_effects"},
           NEW kinds \in SUBSET EffectKinds, Commit(Current(w), kinds),
           NEW lk \in SUBSET {"count", "notify"}, looked' = [looked EXCEPT ![w] = lk],
           NEW wr \in SUBSET {"feed", "count", "notify"}, writes' = [writes EXCEPT ![w] = wr],
           UNCHANGED <<batch, step, apiVars, queueVars>>,
           errors' = [errors EXCEPT ![w] = TRUE] \/ UNCHANGED errors,
           kinds \cup wr # {} => status[Current(w)] = "published",
           IF step[w] = "fanout" THEN wr \subseteq {"feed"} /\ lk = {} ELSE wr \subseteq lk,
           ~errors'[w] => \A kind \in lk \ wr :
              Current(w) \notin deleted => kind \in effects[Current(w)] \cup kinds
    PROVE  IInv'
<1> USE DEF apiVars, queueVars
<1>1. TypeOK /\ DispatchedOnce /\ QueueInv /\ AckedMeansDecided /\ SpreadOnlyPublished
  BY DEF IInv
<1>2. step[w] # "idle" /\ Current(w) \in Post /\ batch[w] # <<>>
  BY CurrentFacts
<1>3. /\ \A v \in Worker \ {w} :
            errors'[v] = errors[v] /\ looked'[v] = looked[v] /\ writes'[v] = writes[v]
      /\ looked'[w] = lk /\ writes'[w] = wr
      /\ ~errors'[w] => ~errors[w]
      /\ \A v \in Worker : Current(v)' = Current(v)
      /\ \A p \in Post : effects'[p] = IF p = Current(w) THEN effects[p] \cup kinds ELSE effects[p]
  BY <1>1, <1>2 DEF TypeOK, Commit, Current
<1>4. TypeOK'
  <2>1. errors' \in [Worker -> BOOLEAN]
    BY <1>1 DEF TypeOK
  <2>2. effects' \in [Post -> SUBSET EffectKinds]
    BY <1>1 DEF TypeOK, Commit
  <2>3. QED BY <1>1, <2>1, <2>2 DEF TypeOK
<1>5. DispatchedOnce' /\ QueueInv' /\ AckedMeansDecided'
  BY <1>1 DEF DispatchedOnce, QueueInv, AckedMeansDecided
<1>6. SpreadOnlyPublished'
  BY <1>1, <1>2, <1>3 DEF SpreadOnlyPublished
<1>7. ASSUME NEW v \in Worker
      PROVE  WorkerInv(v)' /\ FlightInv(v)' /\ Progress(v)'
  <2>1. WorkerInv(v) /\ FlightInv(v) /\ Progress(v)
    BY DEF IInv
  <2>2. CASE v # w
    <3>1. CASE step[v] = "idle"
      <4>1. looked[v] = {}
        BY <3>1, FlightFacts
      <4>2. Progress(v)'
        BY <3>1, <4>1, <2>2, <1>3 DEF Progress, PlansDone, SideDone, AfterLabels, AfterEmbedding, AfterFanOut, AfterReply,
           AfterEngagement
      <4>3. QED BY <4>2, <2>1, <2>2, <1>3 DEF WorkerInv, FlightInv, Undispatched
    <3>2. CASE step[v] # "idle"
      <4>3. effects[Current(v)] \subseteq effects'[Current(v)]
        BY <3>2, CurrentFacts, <1>3
      <4>1. Progress(v)'
        BY <4>3, ProgressStays, <2>1, <2>2, <1>3
      <4>2. QED BY <4>1, <2>1, <2>2, <1>3 DEF WorkerInv, FlightInv, Undispatched
    <3>3. QED BY <3>1, <3>2
  <2>3. CASE v = w
    <3>1. WorkerInv(w)'
      BY <2>1, <2>3, <1>2, <1>3 DEF WorkerInv, Undispatched
    <3>2. FlightInv(w)'
      BY <1>3 DEF FlightInv
    <3>3. effects[Current(w)] \subseteq effects'[Current(w)]
      BY <1>2, <1>3
    <3>4. Progress(w)'
      <4>4. /\ Current(w)' = Current(w) /\ UNCHANGED deleted
            /\ effects'[Current(w)] = effects[Current(w)] \cup kinds
            /\ looked'[w] \ writes'[w] = lk \ wr
        BY <1>2, <1>3
      <4>1. ~errors'[w] => SideDone(w)'
        <5>1. SUFFICES ASSUME ~errors'[w], NEW kind \in lk \ wr, Current(w) \notin deleted
                       PROVE  kind \in effects'[Current(w)]
          BY <4>4 DEF SideDone
        <5>2. QED BY <5>1, <4>4
      <4>2. ~errors[w] => PlansDone(w)'
        BY <3>3, <2>1, <2>3, <1>3 DEF Progress, PlansDone
      <4>3. QED BY <4>1, <4>2, <1>3 DEF Progress
    <3>5. QED BY <3>1, <3>2, <3>4, <2>3
  <2>4. QED BY <2>2, <2>3
<1>8. QED BY <1>4, <1>5, <1>6, <1>7 DEF IInv

(* Writing nothing is a commit of no rows.                                 *)
LEMMA EmptyCommit ==
    ASSUME IInv, NEW p \in Post, UNCHANGED effects
    PROVE  Commit(p, {})
<1>1. effects \in [Post -> SUBSET EffectKinds]
  BY DEF IInv, TypeOK
<1>2. effects[p] \cup {} = effects[p]
  OBVIOUS
<1>3. QED BY <1>1, <1>2 DEF Commit

(* A task that insists on a published post writes for a published post     *)
(* only, and advances or raises.                                           *)
LEMMA WhenPublishedPreserves ==
    ASSUME IInv, NEW w \in Worker, step[w] \in {"embedding", "engagement_init"},
           NEW kinds \in SUBSET EffectKinds, Required(w) \subseteq kinds,
           WhenPublished(w, kinds), UNCHANGED <<batch, taskVars, apiVars, queueVars>>
    PROVE  IInv'
<1>1. step[w] \in Tasks
  BY PlanFacts
<1>2. looked' = [looked EXCEPT ![w] = {}] /\ writes' = [writes EXCEPT ![w] = {}]
  BY FlightFacts, NothingHeld
<1>3. CASE status[Current(w)] = "published"
  <2>1. Commit(Current(w), kinds) /\ Return(w)
    BY <1>3 DEF WhenPublished
  <2>2. QED BY <1>1, <1>2, <1>3, <2>1, TaskPreserves
<1>4. CASE status[Current(w)] # "published"
  <2>1. Raise(w) /\ UNCHANGED effects
    BY <1>4 DEF WhenPublished
  <2>2. Commit(Current(w), {})
    BY <2>1, <1>1, PlanFacts, CurrentFacts, EmptyCommit
  <2>3. QED BY <1>1, <1>2, <2>1, <2>2, TaskPreserves
<1>5. QED BY <1>3, <1>4

(* Fan-out decides to write for a visible post; what it has decided lands  *)
(* even if the post is deleted meanwhile.                                  *)
LEMMA FanOutPreserves ==
    ASSUME IInv, NEW w \in Worker, FanOutRead(w) \/ FanOutCommit(w)
    PROVE  IInv'
<1>1. step[w] = "fanout" /\ step[w] \in Tasks /\ UNCHANGED <<batch, looked, apiVars, queueVars>>
  BY PlanFacts DEF FanOutRead, FanOutCommit
<1>2. TypeOK /\ FlightInv(w)
  BY DEF IInv
<1>3. Current(w) \in Post /\ looked[w] = {} /\ writes[w] \subseteq {"feed"}
  BY <1>1, <1>2, CurrentFacts, FlightFacts DEF FlightInv
<1>4. looked' = [looked EXCEPT ![w] = {}]
  BY <1>1, <1>2, <1>3 DEF TypeOK
<1>5. CASE FanOutRead(w) /\ Visible(Current(w))
  <2>1. writes' = [writes EXCEPT ![w] = {"feed"}] /\ UNCHANGED <<step, errors, effects>>
    BY <1>5 DEF FanOutRead
  <2>2. Commit(Current(w), {}) /\ status[Current(w)] = "published"
    BY <1>3, <1>5, <2>1, EmptyCommit DEF Visible
  <2>3. QED BY <1>1, <1>4, <2>1, <2>2, InsidePreserves
<1>6. CASE FanOutRead(w) /\ ~Visible(Current(w))
  <2>1. /\ IF status[Current(w)] = "published" THEN Return(w) ELSE Raise(w)
        /\ writes[w] = {} /\ UNCHANGED <<writes, effects>>
    BY <1>6 DEF FanOutRead
  <2>2. Commit(Current(w), {}) /\ writes' = [writes EXCEPT ![w] = {}]
    BY <1>2, <1>3, <2>1, EmptyCommit DEF TypeOK
  <2>3. status[Current(w)] = "published" => Required(w) = {}
    BY <1>1, <1>6 DEF Required, Visible
  <2>4. QED BY <1>1, <1>4, <2>1, <2>2, <2>3, TaskPreserves
<1>7. CASE FanOutCommit(w)
  <2>1. /\ "feed" \in writes[w] /\ Commit(Current(w), {"feed"}) /\ Return(w)
        /\ writes' = [writes EXCEPT ![w] = @ \ {"feed"}]
    BY <1>7 DEF FanOutCommit, Land
  <2>2. writes' = [writes EXCEPT ![w] = {}]
    <3>1. writes[w] \ {"feed"} = {}
      BY <1>3
    <3>2. QED BY <2>1, <3>1
  <2>3. status[Current(w)] = "published"
    BY <2>1, FlightFacts
  <2>4. Required(w) \subseteq {"feed"}
    BY <1>1 DEF Required
  <2>5. QED BY <1>1, <1>4, <2>1, <2>2, <2>3, <2>4, TaskPreserves DEF EffectKinds
<1>8. QED BY <1>5, <1>6, <1>7

(* The concurrent tasks of a reply or a repost read, commit and fail in    *)
(* any order; the plan ends when none is left.                             *)
LEMMA SideTaskPreserves ==
    ASSUME IInv, NEW w \in Worker, NEW kind \in {"count", "notify"},
           SideTaskRead(w, kind) \/ SideTaskCommit(w, kind) \/ SideTaskFault(w, kind)
    PROVE  IInv'
<1>1. step[w] = "reply_side_effects" /\ UNCHANGED <<batch, step, apiVars, queueVars>>
  BY DEF SideTaskRead, SideTaskCommit, SideTaskFault
<1>2. TypeOK /\ FlightInv(w) /\ Progress(w)
  BY DEF IInv
<1>3. /\ Current(w) \in Post /\ writes[w] \subseteq looked[w] /\ looked[w] \subseteq {"count", "notify"}
      /\ writes[w] # {} => status[Current(w)] = "published"
  BY <1>1, <1>2, CurrentFacts DEF TypeOK, FlightInv
<1>4. ~errors[w] => \A k \in looked[w] \ writes[w] :
                       Current(w) \notin deleted => k \in effects[Current(w)]
  BY <1>2 DEF Progress, PlansDone, SideDone
<1>5. CASE SideTaskRead(w, kind)
  <2>1. /\ kind \notin looked[w] /\ UNCHANGED <<errors, effects>>
        /\ looked' = [looked EXCEPT ![w] = looked[w] \cup {kind}]
        /\ writes' = IF Visible(Current(w)) THEN [writes EXCEPT ![w] = writes[w] \cup {kind}] ELSE writes
    BY <1>5 DEF SideTaskRead
  <2>2. Commit(Current(w), {})
    BY <1>3, <2>1, EmptyCommit
  <2>3. CASE Visible(Current(w))
    <3>1. writes' = [writes EXCEPT ![w] = writes[w] \cup {kind}]
      BY <2>1, <2>3
    <3>2. status[Current(w)] = "published"
      BY <2>3 DEF Visible
    <3>3. (looked[w] \cup {kind}) \ (writes[w] \cup {kind}) \subseteq looked[w] \ writes[w]
      OBVIOUS
    <3>4. /\ looked[w] \cup {kind} \in SUBSET {"count", "notify"}
          /\ writes[w] \cup {kind} \in SUBSET {"feed", "count", "notify"}
          /\ writes[w] \cup {kind} \subseteq looked[w] \cup {kind}
          /\ ~errors'[w] => \A k \in (looked[w] \cup {kind}) \ (writes[w] \cup {kind}) :
                Current(w) \notin deleted => k \in effects[Current(w)] \cup {}
      BY <1>3, <1>4, <2>1, <3>3
    <3> DEFINE lk == looked[w] \cup {kind}
               wr == writes[w] \cup {kind}
    <3>5. /\ step[w] \in {"fanout", "reply_side_effects"} /\ step[w] # "fanout"
          /\ {} \in SUBSET EffectKinds
          /\ lk \in SUBSET {"count", "notify"} /\ looked' = [looked EXCEPT ![w] = lk]
          /\ wr \in SUBSET {"feed", "count", "notify"} /\ writes' = [writes EXCEPT ![w] = wr]
          /\ wr \subseteq lk
          /\ ~errors'[w] => \A k \in lk \ wr :
                Current(w) \notin deleted => k \in effects[Current(w)] \cup {}
      BY <1>1, <2>1, <3>1, <3>4
    <3> HIDE DEF lk, wr
    <3>6. UNCHANGED errors
      BY <2>1
    <3>7. QED BY <1>1, <2>2, <3>2, <3>5, <3>6, InsidePreserves
  <2>4. CASE ~Visible(Current(w))
    <3>1. writes' = [writes EXCEPT ![w] = writes[w]]
      BY <1>2, <2>1, <2>4 DEF TypeOK
    <3>2. ~errors[w] => status[Current(w)] = "published"
      BY <1>1 DEF IInv, WorkerInv, AfterPublish, AfterLabels, AfterEmbedding, AfterFanOut
    <3>3. ~errors[w] => Current(w) \in deleted
      BY <3>2, <2>4 DEF Visible
    <3>4. /\ looked[w] \cup {kind} \in SUBSET {"count", "notify"}
          /\ writes[w] \in SUBSET {"feed", "count", "notify"}
          /\ writes[w] \subseteq looked[w] \cup {kind}
          /\ {} \cup writes[w] # {} => status[Current(w)] = "published"
          /\ ~errors'[w] => \A k \in (looked[w] \cup {kind}) \ writes[w] :
                Current(w) \notin deleted => k \in effects[Current(w)] \cup {}
      BY <1>3, <2>1, <3>3
    <3> DEFINE lk == looked[w] \cup {kind}
               wr == writes[w]
               none == {}
    <3>5. /\ Commit(Current(w), none)
          /\ step[w] \in {"fanout", "reply_side_effects"} /\ step[w] # "fanout"
          /\ none \in SUBSET EffectKinds
          /\ lk \in SUBSET {"count", "notify"} /\ looked' = [looked EXCEPT ![w] = lk]
          /\ wr \in SUBSET {"feed", "count", "notify"} /\ writes' = [writes EXCEPT ![w] = wr]
          /\ wr \subseteq lk
          /\ none \cup wr # {} => status[Current(w)] = "published"
          /\ ~errors'[w] => \A k \in lk \ wr :
                Current(w) \notin deleted => k \in effects[Current(w)] \cup none
      BY <1>1, <2>1, <2>2, <3>1, <3>4
    <3> HIDE DEF lk, wr, none
    <3>6. UNCHANGED errors
      BY <2>1
    <3>7. IF step[w] = "fanout" THEN wr \subseteq {"feed"} /\ lk = {} ELSE wr \subseteq lk
      BY <3>5
    <3>8. UNCHANGED <<batch, step, apiVars, queueVars>>
      BY <1>1
    <3>9. QED BY <3>5, <3>6, <3>7, <3>8, InsidePreserves
  <2>5. QED BY <2>3, <2>4
<1>6. CASE SideTaskCommit(w, kind)
  <2>1. /\ kind \in writes[w] /\ Commit(Current(w), {kind}) /\ UNCHANGED <<errors, looked>>
        /\ writes' = [writes EXCEPT ![w] = writes[w] \ {kind}]
    BY <1>6 DEF SideTaskCommit, Land
  <2>2. looked' = [looked EXCEPT ![w] = looked[w]]
    BY <1>2, <2>1 DEF TypeOK
  <2>3. {kind} \in SUBSET EffectKinds
    BY DEF EffectKinds
  <2>4. status[Current(w)] = "published"
    BY <1>3, <2>1
  <2>5. \A k \in looked[w] \ (writes[w] \ {kind}) : k \in looked[w] \ writes[w] \/ k \in {kind}
    OBVIOUS
  <2>6. /\ looked[w] \in SUBSET {"count", "notify"}
        /\ writes[w] \ {kind} \in SUBSET {"feed", "count", "notify"}
        /\ writes[w] \ {kind} \subseteq looked[w]
        /\ ~errors'[w] => \A k \in looked[w] \ (writes[w] \ {kind}) :
              Current(w) \notin deleted => k \in effects[Current(w)] \cup {kind}
    BY <1>3, <1>4, <2>1, <2>5
  <2>7. QED BY <1>1, <2>1, <2>2, <2>3, <2>4, <2>6, InsidePreserves
<1>7. CASE SideTaskFault(w, kind)
  <2>1. /\ UNCHANGED effects /\ errors' = [errors EXCEPT ![w] = TRUE]
        /\ looked' = [looked EXCEPT ![w] = looked[w] \cup {kind}]
        /\ writes' = [writes EXCEPT ![w] = writes[w] \ {kind}]
    BY <1>7 DEF SideTaskFault
  <2>2. errors'[w] = TRUE
    BY <1>2, <2>1 DEF TypeOK
  <2>3. Commit(Current(w), {})
    BY <1>3, <2>1, EmptyCommit
  <2>4. /\ looked[w] \cup {kind} \in SUBSET {"count", "notify"}
        /\ writes[w] \ {kind} \in SUBSET {"feed", "count", "notify"}
        /\ writes[w] \ {kind} \subseteq looked[w] \cup {kind}
        /\ {} \cup (writes[w] \ {kind}) # {} => status[Current(w)] = "published"
    BY <1>3
  <2>5. QED BY <1>1, <2>1, <2>2, <2>3, <2>4, InsidePreserves
<1>8. QED BY <1>5, <1>6, <1>7

(* The tasks after publication, and any task that raises.                  *)
LEMMA PlanTaskPreserves ==
    ASSUME IInv, NEW w \in Worker,
           \/ ApplySafetyLabels(w) \/ GenerateEmbedding(w) \/ ReplySideEffects(w)
           \/ EngagementInit(w) \/ TaskFault(w)
    PROVE  IInv'
<1>1. CASE ApplySafetyLabels(w)
  <2>1. LabelWrites(Current(w)) \subseteq EffectKinds /\ LabelWrites(Current(w)) \subseteq {"label"}
    BY DEF LabelWrites, EffectKinds
  <2>2. step[w] \in Tasks /\ Required(w) = LabelWrites(Current(w))
    BY <1>1, PlanFacts DEF ApplySafetyLabels, Required
  <2>3. looked' = [looked EXCEPT ![w] = {}] /\ writes' = [writes EXCEPT ![w] = {}]
    BY <1>1, FlightFacts, NothingHeld DEF ApplySafetyLabels
  <2>4. QED BY <1>1, <2>1, <2>2, <2>3, TaskPreserves DEF ApplySafetyLabels, Return
<1>2. CASE GenerateEmbedding(w)
  BY <1>2, WhenPublishedPreserves DEF GenerateEmbedding, Required, EffectKinds
<1>3. CASE ReplySideEffects(w)
  <2>1. /\ step[w] = "reply_side_effects" /\ step[w] \in Tasks /\ Return(w)
        /\ looked[w] = SideTasks(Current(w)) /\ writes[w] = {}
        /\ UNCHANGED <<effects, batch, writes, apiVars, queueVars>>
        /\ looked' = [looked EXCEPT ![w] = {}]
    BY <1>3, PlanFacts DEF ReplySideEffects
  <2>2. writes' = [writes EXCEPT ![w] = {}]
    BY <2>1 DEF IInv, TypeOK
  <2>3. Commit(Current(w), {})
    BY <2>1, CurrentFacts, EmptyCommit
  <2>4. ~errors[w] => Required(w) \subseteq effects[Current(w)] \cup {}
    BY <2>1 DEF Required, IInv, Progress, PlansDone, SideDone
  <2>5. QED BY <2>1, <2>2, <2>3, <2>4, TaskPreserves
<1>4. CASE EngagementInit(w)
  BY <1>4, WhenPublishedPreserves DEF EngagementInit, Required, EffectKinds
<1>5. CASE TaskFault(w)
  <2>1. /\ step[w] \in Tasks /\ step[w] # "idle" /\ looked[w] = {} /\ Raise(w)
        /\ UNCHANGED <<effects, batch, looked, apiVars, queueVars>>
        /\ writes' = [writes EXCEPT ![w] = {}]
    BY <1>5, PlanFacts, FlightFacts DEF TaskFault
  <2>2. looked' = [looked EXCEPT ![w] = {}]
    BY <2>1 DEF IInv, TypeOK
  <2>3. Commit(Current(w), {})
    BY <2>1, CurrentFacts, EmptyCommit
  <2>4. QED BY <2>1, <2>2, <2>3, TaskPreserves
<1>6. QED BY <1>1, <1>2, <1>3, <1>4, <1>5

(* Validation decides nothing: it advances to publication or ends its plan *)
(* with the post still in processing.                                      *)
LEMMA ValidatePostPreserves ==
    ASSUME IInv, NEW w \in Worker, ValidatePost(w)
    PROVE  IInv'
<1> USE DEF apiVars, queueVars, taskVars
<1>1. /\ step[w] = "validate"
      /\ UNCHANGED <<effects, batch, looked, writes, status, deleted, request, stream, pel>>
  BY DEF ValidatePost
<1>5. looked[w] = {} /\ writes[w] = {}
  BY <1>1, FlightFacts
<1>2. CASE Available(Current(w))
  <2>1. step' = [step EXCEPT ![w] = "publish"] /\ UNCHANGED errors
    BY <1>2 DEF ValidatePost, Goto
  <2>2. \A v \in Worker : /\ step'[v] = IF v = w THEN "publish" ELSE step[v]
                          /\ Current(v)' = Current(v)
    BY <1>1, <2>1 DEF IInv, TypeOK, Current
  <2>3. TypeOK'
    BY <1>1, <2>1, PlanFacts DEF IInv, TypeOK, Steps
  <2>4. DispatchedOnce' /\ QueueInv' /\ AckedMeansDecided' /\ SpreadOnlyPublished'
    BY <1>1 DEF IInv, DispatchedOnce, QueueInv, AckedMeansDecided, SpreadOnlyPublished
  <2>5. ASSUME NEW v \in Worker
        PROVE  WorkerInv(v)' /\ FlightInv(v)' /\ Progress(v)'
    <3>1. WorkerInv(v) /\ FlightInv(v) /\ Progress(v)
      BY DEF IInv
    <3>2. CASE v = w
      BY <3>1, <3>2, <1>1, <1>5, <2>1, <2>2 DEF WorkerInv, FlightInv, Progress, PlansDone, SideDone, Undispatched,
         AfterPublish, AfterLabels, AfterEmbedding, AfterFanOut, AfterReply, AfterEngagement
    <3>3. CASE v # w
      BY <3>1, <3>3, <1>1, <2>1, <2>2 DEF WorkerInv, FlightInv, Progress, PlansDone, SideDone, Undispatched
    <3>4. QED BY <3>2, <3>3
  <2>6. QED BY <2>3, <2>4, <2>5 DEF IInv
<1>3. CASE ~Available(Current(w))
  <2>1. Raise(w) /\ step[w] \in Tasks
    BY <1>1, <1>3, PlanFacts DEF ValidatePost
  <2>2. Commit(Current(w), {})
    BY <1>1, CurrentFacts, EmptyCommit
  <2>3. looked' = [looked EXCEPT ![w] = {}] /\ writes' = [writes EXCEPT ![w] = {}]
    BY <1>1, <1>5, NothingHeld
  <2>4. QED BY <1>1, <2>1, <2>2, <2>3, TaskPreserves
<1>4. QED BY <1>2, <1>3

-----------------------------------------------------------------------------
(* Deciding a post and finishing its dispatch                              *)

(* Deciding the current, undecided post of a worker disturbs no other      *)
(* worker and nothing that waits.                                          *)
LEMMA DecidePreserves ==
    ASSUME IInv, NEW w \in Worker, step[w] # "idle",
           status[Current(w)] = "processing",
           NEW s \in Decided, status' = [status EXCEPT ![Current(w)] = s],
           UNCHANGED <<batch, stream, pel, request, deleted, effects, errors, looked, writes>>,
           NEW next \in Steps, step' = [step EXCEPT ![w] = next]
    PROVE  /\ TypeOK' /\ DispatchedOnce' /\ QueueInv' /\ AckedMeansDecided' /\ SpreadOnlyPublished'
           /\ step'[w] = next /\ status'[Current(w)] = s /\ Current(w)' = Current(w)
           /\ \A q \in ToSet(batch[w]) \ {Current(w)} : status'[q] = status[q]
           /\ \A v \in Worker \ {w} : WorkerInv(v)' /\ FlightInv(v)' /\ Progress(v)'
<1>1. TypeOK /\ DispatchedOnce /\ QueueInv /\ AckedMeansDecided /\ SpreadOnlyPublished
  BY DEF IInv
<1>2. Current(w) \in Post /\ Current(w) \in ToSet(batch[w]) /\ Current(w) \in pel
  BY CurrentFacts
<1>3. \A p \in Post : status'[p] = IF p = Current(w) THEN s ELSE status[p]
  BY <1>1, <1>2 DEF TypeOK
<1>4. /\ \A v \in Worker : Current(v)' = Current(v)
      /\ \A v \in Worker : step'[v] = IF v = w THEN next ELSE step[v]
  BY <1>1 DEF Current, TypeOK
<1>5. TypeOK'
  BY <1>1 DEF TypeOK, Decided
<1>6. DispatchedOnce'
  BY <1>1 DEF DispatchedOnce
<1>7. QueueInv'
  <2>1. Current(w) \notin ToSet(stream) /\ ToSet(stream) \subseteq Post
    BY <1>1, <1>2 DEF DispatchedOnce, TypeOK, ToSet
  <2>2. request[Current(w)] = "sent"
    BY <1>1, <1>2 DEF QueueInv
  <2>3. \A p \in Post : Content[p].ref # NoPost => Content[p].ref \in Post
    BY ContentAssumption
  <2>4. \A p \in Post : request[p] \in {"none", "checked"} <=> status'[p] = "absent"
    BY <1>1, <1>3, <2>2 DEF QueueInv, Decided
  <2>5. \A p \in Post : request[p] = "checked" /\ Content[p].ref # NoPost
                           => status'[Content[p].ref] = "published"
    BY <1>1, <1>3, <2>3 DEF QueueInv
  <2>6. \A p \in Post : request[p] \in {"committed", "lost"} => status'[p] = "processing"
    BY <1>1, <1>3, <2>2 DEF QueueInv
  <2>7. \A p \in ToSet(stream) : status'[p] = "processing"
    BY <1>1, <1>3, <2>1 DEF QueueInv
  <2>8. QED BY <1>1, <2>4, <2>5, <2>6, <2>7 DEF QueueInv
<1>8. AckedMeansDecided'
  BY <1>1, <1>3 DEF AckedMeansDecided
<1>9. SpreadOnlyPublished'
  BY <1>1, <1>3 DEF SpreadOnlyPublished
<1>10. ASSUME NEW v \in Worker \ {w}
       PROVE  WorkerInv(v)' /\ FlightInv(v)' /\ Progress(v)'
  <2>1. WorkerInv(v) /\ FlightInv(v) /\ Progress(v)
    BY DEF IInv
  <2>2. ToSet(batch[v]) \cap ToSet(batch[w]) = {} /\ ToSet(batch[v]) \subseteq Post
    BY <1>1 DEF DispatchedOnce, TypeOK, ToSet
  <2>3. \A p \in ToSet(batch[v]) : status'[p] = status[p]
    BY <2>2, <1>2, <1>3
  <2>4. Undispatched(v) \subseteq ToSet(batch[v]) /\ Undispatched(v)' = Undispatched(v)
    BY <1>4 DEF Undispatched
  <2>5. CASE step[v] = "idle"
    <3>1. looked[v] = {} /\ writes[v] = {}
      BY <2>5, FlightFacts
    <3>2. QED BY <2>1, <2>3, <2>4, <2>5, <3>1, <1>4 DEF WorkerInv, FlightInv, Progress, PlansDone, SideDone, AfterPublish,
              AfterLabels, AfterEmbedding, AfterFanOut, AfterReply, AfterEngagement
  <2>6. CASE step[v] # "idle"
    <3>1. Current(v) \in ToSet(batch[v])
      BY <2>6, CurrentFacts
    <3>2. QED BY <2>1, <2>3, <2>4, <3>1, <1>4 DEF WorkerInv, FlightInv, Progress, PlansDone, SideDone
  <2>7. QED BY <2>5, <2>6
<1>11. ToSet(batch[w]) \subseteq Post
  BY <1>1 DEF TypeOK, ToSet
<1>12. QED BY <1>2, <1>3, <1>4, <1>5, <1>6, <1>7, <1>8, <1>9, <1>10, <1>11

(* Publication is the decision on a post in processing; no other batch     *)
(* holds the post.                                                         *)
LEMMA PublishPostPreserves ==
    ASSUME IInv, NEW w \in Worker, PublishPost(w)
    PROVE  IInv'
<1> USE DEF queueVars, taskVars
<1>1. /\ step[w] = "publish"
      /\ status' = [status EXCEPT ![Current(w)] = "published"]
      /\ step' = [step EXCEPT ![w] = "post_safety_labels"]
      /\ UNCHANGED <<batch, stream, pel, request, deleted, effects, errors, looked, writes>>
  BY PlanFacts DEF PublishPost, Return, Goto
<1>8. looked[w] = {} /\ writes[w] = {}
  BY <1>1, FlightFacts
<1>2. Current(w) \in ToSet(batch[w]) /\ batch[w] # <<>>
  BY <1>1, CurrentFacts
<1>3. WorkerInv(w) /\ status[Current(w)] = "processing"
  BY <1>1, <1>2 DEF IInv, WorkerInv, Undispatched
<1>4. "published" \in Decided /\ "post_safety_labels" \in Steps
  BY PlanFacts DEF Decided, Steps
<1>5. /\ TypeOK' /\ DispatchedOnce' /\ QueueInv' /\ AckedMeansDecided' /\ SpreadOnlyPublished'
      /\ step'[w] = "post_safety_labels" /\ status'[Current(w)] = "published"
      /\ Current(w)' = Current(w)
      /\ \A q \in ToSet(batch[w]) \ {Current(w)} : status'[q] = status[q]
      /\ \A v \in Worker \ {w} : WorkerInv(v)' /\ FlightInv(v)' /\ Progress(v)'
  BY <1>1, <1>3, <1>4, PlanFacts, DecidePreserves
<1>6. WorkerInv(w)' /\ FlightInv(w)' /\ Progress(w)'
  BY <1>1, <1>2, <1>3, <1>5, <1>8 DEF WorkerInv, FlightInv, Progress, PlansDone, SideDone, Undispatched, AfterPublish,
     AfterLabels, AfterEmbedding, AfterFanOut, AfterReply, AfterEngagement
<1>7. QED BY <1>5, <1>6 DEF IInv

(* A post whose dispatch had errors is decided after this task, as failed  *)
(* unless it was published before the error.                               *)
LEMMA MarkFailedPreserves ==
    ASSUME IInv, NEW w \in Worker, MarkFailed(w)
    PROVE  IInv'
<1> USE DEF queueVars, taskVars
<1>1. /\ step[w] = "outcome" /\ errors[w]
      /\ step' = [step EXCEPT ![w] = "ack"]
      /\ UNCHANGED <<batch, stream, pel, request, deleted, effects, errors, looked, writes>>
      /\ status' = IF status[Current(w)] = "processing"
                   THEN [status EXCEPT ![Current(w)] = "failed"] ELSE status
  BY DEF MarkFailed, Goto
<1>2. Current(w) \in Post /\ batch[w] # <<>> /\ status[Current(w)] # "absent"
  BY <1>1, CurrentFacts
<1>3. WorkerInv(w) /\ TypeOK /\ looked[w] = {} /\ writes[w] = {}
  BY <1>1, FlightFacts DEF IInv
<1>4. "failed" \in Decided /\ "ack" \in Steps
  BY DEF Decided, Steps
<1>5. CASE status[Current(w)] = "processing"
  <2>1. /\ TypeOK' /\ DispatchedOnce' /\ QueueInv' /\ AckedMeansDecided' /\ SpreadOnlyPublished'
        /\ step'[w] = "ack" /\ status'[Current(w)] = "failed" /\ Current(w)' = Current(w)
        /\ \A q \in ToSet(batch[w]) \ {Current(w)} : status'[q] = status[q]
        /\ \A v \in Worker \ {w} : WorkerInv(v)' /\ FlightInv(v)' /\ Progress(v)'
    BY <1>1, <1>4, <1>5, PlanFacts, DecidePreserves
  <2>2. WorkerInv(w)' /\ FlightInv(w)' /\ Progress(w)'
    BY <1>1, <1>2, <1>3, <1>4, <2>1 DEF WorkerInv, FlightInv, Progress, PlansDone, SideDone, Undispatched, AfterPublish, AfterLabels,
       AfterEmbedding, AfterFanOut, AfterReply, AfterEngagement
  <2>3. QED BY <2>1, <2>2 DEF IInv
<1>6. CASE status[Current(w)] # "processing"
  <2>1. status' = status /\ status[Current(w)] \in Decided
    BY <1>1, <1>2, <1>3, <1>6 DEF TypeOK, Decided
  <2>2. TypeOK'
    BY <1>1, <1>3, <1>4, <2>1 DEF TypeOK
  <2>3. DispatchedOnce' /\ QueueInv' /\ AckedMeansDecided' /\ SpreadOnlyPublished'
    BY <1>1, <2>1 DEF IInv, DispatchedOnce, QueueInv, AckedMeansDecided, SpreadOnlyPublished
  <2>4. ASSUME NEW v \in Worker
        PROVE  WorkerInv(v)' /\ FlightInv(v)' /\ Progress(v)'
    <3>1. WorkerInv(v) /\ FlightInv(v) /\ Progress(v)
      BY DEF IInv
    <3>2. step'[v] = IF v = w THEN "ack" ELSE step[v]
      BY <1>1, <1>3 DEF TypeOK
    <3>3. Current(v)' = Current(v)
      BY <1>1 DEF Current
    <3>4. CASE v = w
      BY <3>1, <3>2, <3>3, <3>4, <1>1, <1>2, <1>3, <2>1 DEF WorkerInv, FlightInv, Progress, PlansDone, SideDone, Undispatched, AfterPublish,
         AfterLabels, AfterEmbedding, AfterFanOut, AfterReply, AfterEngagement
    <3>5. CASE v # w
      BY <3>1, <3>2, <3>3, <3>5, <1>1, <2>1 DEF WorkerInv, FlightInv, Progress, PlansDone, SideDone, Undispatched
    <3>6. QED BY <3>4, <3>5
  <2>5. QED BY <2>2, <2>3, <2>4 DEF IInv
<1>7. QED BY <1>5, <1>6

(* A worker that takes its entry off the batch, or drops the batch.        *)
LEMMA DropPreserves ==
    ASSUME IInv, NEW w \in Worker, step[w] # "idle",
           NEW rest \in {<<>>, Tail(batch[w])},
           batch' = [batch EXCEPT ![w] = rest],
           step' = [step EXCEPT ![w] = IF rest = <<>> THEN "idle" ELSE "validate"],
           errors' = [errors EXCEPT ![w] = FALSE],
           looked' = [looked EXCEPT ![w] = {}], writes' = [writes EXCEPT ![w] = {}],
           UNCHANGED <<stream, effects, status, deleted, request>>,
           \/ UNCHANGED pel
           \/ /\ pel' = pel \ {Current(w)}
              /\ rest = Tail(batch[w])
              /\ status[Current(w)] \in Decided
    PROVE  IInv'
<1>1. TypeOK /\ DispatchedOnce /\ QueueInv /\ AckedMeansDecided /\ SpreadOnlyPublished
  BY DEF IInv
<1>2. batch[w] \in Seq(Post) /\ batch[w] # <<>> /\ Current(w) \in ToSet(batch[w])
  BY CurrentFacts
<1>3. /\ rest \in Seq(Post) /\ IsInjective(rest)
      /\ ToSet(rest) \subseteq ToSet(batch[w]) /\ Current(w) \notin ToSet(rest)
  <2>1. IsInjective(batch[w])
    BY <1>1 DEF DispatchedOnce
  <2>2. CASE rest = <<>>
    BY <2>2 DEF ToSet, IsInjective
  <2>3. CASE rest = Tail(batch[w])
    BY <2>1, <2>3, <1>2, TailFacts DEF Current
  <2>4. QED BY <2>2, <2>3
<1>4. \A v \in Worker :
         /\ batch'[v] = IF v = w THEN rest ELSE batch[v]
         /\ step'[v] = IF v = w THEN (IF rest = <<>> THEN "idle" ELSE "validate") ELSE step[v]
         /\ v = w => ~errors'[v]
         /\ v = w => looked'[v] = {} /\ writes'[v] = {}
         /\ v # w => errors'[v] = errors[v] /\ looked'[v] = looked[v] /\ writes'[v] = writes[v]
  BY <1>1 DEF TypeOK
<1>5. TypeOK'
  <2>1. batch' \in [Worker -> Seq(Post)] /\ pel' \subseteq Post /\ errors' \in [Worker -> BOOLEAN]
    BY <1>1, <1>3 DEF TypeOK
  <2>2. step' \in [Worker -> Steps]
    BY <1>1, PlanFacts DEF TypeOK, Steps
  <2>3. QED BY <1>1, <2>1, <2>2 DEF TypeOK
<1>6. DispatchedOnce'
  <2>1. ASSUME NEW v \in Worker
        PROVE  ToSet(batch'[v]) \subseteq pel' /\ IsInjective(batch'[v])
    BY <1>1, <1>2, <1>3, <1>4 DEF DispatchedOnce
  <2>2. ASSUME NEW u \in Worker, NEW v \in Worker, u # v
        PROVE  ToSet(batch'[u]) \cap ToSet(batch'[v]) = {}
    <3>1. ToSet(batch'[u]) \subseteq ToSet(batch[u]) /\ ToSet(batch'[v]) \subseteq ToSet(batch[v])
      BY <1>3, <1>4
    <3>2. ToSet(batch[u]) \cap ToSet(batch[v]) = {}
      BY <2>2, <1>1 DEF DispatchedOnce
    <3>3. QED BY <3>1, <3>2
  <2>3. ToSet(stream') \cap pel' = {} /\ IsInjective(stream')
    BY <1>1 DEF DispatchedOnce
  <2>4. QED BY <2>1, <2>2, <2>3 DEF DispatchedOnce
<1>7. QueueInv' /\ SpreadOnlyPublished'
  BY <1>1 DEF QueueInv, SpreadOnlyPublished
<1>8. AckedMeansDecided'
  BY <1>1 DEF AckedMeansDecided
<1>9. ASSUME NEW v \in Worker
      PROVE  WorkerInv(v)' /\ FlightInv(v)' /\ Progress(v)'
  <2>1. WorkerInv(v) /\ FlightInv(v) /\ Progress(v)
    BY DEF IInv
  <2>2. CASE v = w
    <3>1. \A p \in ToSet(rest) : status'[p] = "processing"
      BY <2>1, <2>2, <1>3 DEF WorkerInv, Undispatched
    <3>2. Undispatched(v)' = ToSet(rest)
      BY <2>2, <1>4 DEF Undispatched
    <3>4. batch'[v] = rest /\ ~errors'[v]
      BY <2>2, <1>4
    <3>5. step'[v] = IF rest = <<>> THEN "idle" ELSE "validate"
      BY <2>2, <1>4
    <3>6. step'[v] \in {"idle", "validate"} /\ (step'[v] = "idle" <=> batch'[v] = <<>>)
      BY <3>4, <3>5
    <3>7. FlightInv(v)'
      BY <2>2, <1>4 DEF FlightInv
    <3>3. QED BY <3>1, <3>2, <3>4, <3>6, <3>7, <2>2, <1>4 DEF WorkerInv, Progress, PlansDone, SideDone, AfterPublish,
              AfterLabels, AfterEmbedding, AfterFanOut, AfterReply, AfterEngagement
  <2>3. CASE v # w
    BY <2>1, <2>3, <1>4 DEF WorkerInv, FlightInv, Progress, PlansDone, SideDone, Undispatched, Current
  <2>4. QED BY <2>2, <2>3
<1>10. QED BY <1>5, <1>6, <1>7, <1>8, <1>9 DEF IInv

(* Ack, SkipEntry and Crash let entries go: only Ack takes one out of the  *)
(* pending list, and its post is decided.                                  *)
LEMMA FinishPreserves ==
    ASSUME IInv, NEW w \in Worker, Ack(w) \/ SkipEntry(w) \/ Crash(w)
    PROVE  IInv'
<1> USE DEF apiVars, queueVars
<1>1. CASE Ack(w)
  <2>1. step[w] \in {"ack", "outcome"} /\ status[Current(w)] \in Decided
    BY <1>1 DEF Ack, Dispatched, IInv, WorkerInv, AfterPublish, AfterLabels, AfterEmbedding,
       AfterFanOut, AfterReply, AfterEngagement, Decided
  <2>2. batch' = [batch EXCEPT ![w] = Tail(batch[w])]
    BY <1>1 DEF Ack, NextEntry
  <2>4. looked' = [looked EXCEPT ![w] = {}] /\ writes' = [writes EXCEPT ![w] = {}]
    BY <1>1, <2>1, FlightFacts, NothingHeld DEF Ack
  <2>3. QED BY <1>1, <2>1, <2>2, <2>4, DropPreserves DEF Ack, NextEntry, Goto
<1>2. CASE SkipEntry(w)
  <2>1. step[w] \in {"ack", "outcome"}
    BY <1>2 DEF SkipEntry, Dispatched
  <2>2. batch' = [batch EXCEPT ![w] = Tail(batch[w])]
    BY <1>2 DEF SkipEntry, NextEntry
  <2>4. looked' = [looked EXCEPT ![w] = {}] /\ writes' = [writes EXCEPT ![w] = {}]
    BY <1>2, <2>1, FlightFacts, NothingHeld DEF SkipEntry
  <2>3. QED BY <1>2, <2>1, <2>2, <2>4, DropPreserves DEF SkipEntry, NextEntry, Goto
<1>3. CASE Crash(w)
  BY <1>3, DropPreserves DEF Crash, Goto
<1>4. QED BY <1>1, <1>2, <1>3

-----------------------------------------------------------------------------
(* The theorems                                                            *)

(* The invariant is inductive: one step per action of Next.                *)
LEMMA StepIInv == IInv /\ [Next]_vars => IInv'
<1> SUFFICES ASSUME IInv, [Next]_vars PROVE IInv'
  OBVIOUS
<1>1. ASSUME NEW p \in Post, ApiStep(p) PROVE IInv'
  BY <1>1, ApiPreserves
<1>2. ASSUME NEW w \in Worker, WorkerStep(w) \/ WorkerFault(w) PROVE IInv'
  BY <1>2, ReadPreserves, ReadReplyLostPreserves, ValidatePostPreserves, PublishPostPreserves,
     PlanTaskPreserves, FanOutPreserves, SideTaskPreserves, MarkFailedPreserves, FinishPreserves
     DEF WorkerStep, WorkerFault, RunTask
<1>3. CASE UNCHANGED vars
  BY <1>3 DEF vars, IInv, TypeOK, DispatchedOnce, QueueInv, WorkerInv, Undispatched, Current,
     AckedMeansDecided, SpreadOnlyPublished, FlightInv, Progress, PlansDone, SideDone
<1>4. QED BY <1>1, <1>2, <1>3 DEF Next

(* IInv is an invariant for any posts, workers, batch size and faults.     *)
THEOREM Invariance == Spec => []IInv
BY InitIInv, StepIInv, PTL DEF Spec

(* Every variable stays in its range.                                      *)
THEOREM TypeCorrect == Spec => []TypeOK
<1>1. IInv => TypeOK
  BY DEF IInv
<1>2. QED BY <1>1, Invariance, PTL

(* The consumer group never hands an event out twice, whatever is lost.    *)
THEOREM Dispatch == Spec => []DispatchedOnce
<1>1. IInv => DispatchedOnce
  BY DEF IInv
<1>2. QED BY <1>1, Invariance, PTL

(* No acknowledged event leaves its post undecided, whatever fails.        *)
THEOREM Acknowledgement == Spec => []AckedMeansDecided
<1>1. IInv => AckedMeansDecided
  BY DEF IInv
<1>2. QED BY <1>1, Invariance, PTL

(* Only published posts are spread, whichever plans fail.                  *)
THEOREM Spreading == Spec => []SpreadOnlyPublished
<1>1. IInv => SpreadOnlyPublished
  BY DEF IInv
<1>2. QED BY <1>1, Invariance, PTL

(* A dispatch reported as a success has left out nothing.                  *)
THEOREM Completion == Spec => []SuccessMeansComplete
<1>1. ASSUME IInv, NEW w \in Worker, step[w] = "outcome", ~errors[w]
      PROVE  Complete(Current(w))
  <2>1. WorkerInv(w) /\ Progress(w)
    BY <1>1 DEF IInv
  <2>2. QED BY <1>1, <2>1 DEF WorkerInv, Progress, PlansDone, SideDone, Complete, AfterPublish, AfterLabels,
            AfterEmbedding, AfterFanOut, AfterReply, AfterEngagement
<1>2. IInv => SuccessMeansComplete
  BY <1>1 DEF SuccessMeansComplete
<1>3. QED BY <1>2, Invariance, PTL

(* The two decisions are taken on posts in processing only, and no other   *)
(* step of a worker writes a status.                                       *)
LEMMA WorkerDecides ==
    ASSUME IInv, NEW w \in Worker, WorkerStep(w) \/ WorkerFault(w)
    PROVE  \/ UNCHANGED status
           \/ /\ status[Current(w)] = "processing" /\ Current(w) \in Post
              /\ UNCHANGED <<deleted, effects, batch, writes>>
              /\ \E s \in Decided : status' = [status EXCEPT ![Current(w)] = s]
<1> USE DEF apiVars, queueVars, taskVars
<1>1. CASE PublishPost(w)
  <2>1. step[w] = "publish"
    BY <1>1 DEF PublishPost
  <2>2. Current(w) \in ToSet(batch[w]) /\ Current(w) \in Post
    BY <2>1, CurrentFacts
  <2>3. status[Current(w)] = "processing"
    BY <2>1, <2>2 DEF IInv, WorkerInv, Undispatched
  <2>4. QED BY <1>1, <2>2, <2>3 DEF PublishPost, Decided
<1>2. CASE MarkFailed(w)
  <2>1. step[w] = "outcome"
    BY <1>2 DEF MarkFailed
  <2>2. QED BY <1>2, <2>1, CurrentFacts DEF MarkFailed, Decided
<1>3. CASE ~PublishPost(w) /\ ~MarkFailed(w)
  BY <1>3 DEF WorkerStep, WorkerFault, RunTask, Read, ReadReplyLost, ValidatePost, ApplySafetyLabels,
     GenerateEmbedding, FanOutRead, FanOutCommit, SideTaskRead, SideTaskCommit, ReplySideEffects,
     EngagementInit, TaskFault, SideTaskFault, Ack, SkipEntry, Crash
<1>4. QED BY <1>1, <1>2, <1>3

(* A published post never fails and a failed one is never published.       *)
LEMMA DecidedStays ==
    ASSUME IInv, [Next]_vars
    PROVE  \A p \in Post : status[p] \in Decided => status'[p] = status[p]
<1> DEFINE Final == \A p \in Post : status[p] \in Decided => status'[p] = status[p]
<1>1. ASSUME NEW p \in Post, ApiStep(p) PROVE Final
  <2>1. CommitCreate(p) => status[p] = "absent" /\ status' = [status EXCEPT ![p] = "processing"]
    BY <1>1 DEF IInv, QueueInv, CommitCreate
  <2>2. ~CommitCreate(p) => UNCHANGED status
    BY <1>1 DEF ApiStep, BeginCreate, PublishEvent, LoseEvent, Delete
  <2>3. QED BY <1>1, <2>1, <2>2 DEF Decided, IInv, TypeOK
<1>2. ASSUME NEW w \in Worker, WorkerStep(w) \/ WorkerFault(w) PROVE Final
  BY <1>2, WorkerDecides DEF Decided, IInv, TypeOK
<1>3. CASE UNCHANGED vars
  BY <1>3 DEF vars
<1>4. QED BY <1>1, <1>2, <1>3 DEF Next

(* The decision on a post is taken once.                                   *)
THEOREM Finality == Spec => OutcomeIsFinal
<1>1. IInv /\ [Next]_vars =>
          [\A p \in Post : status[p] \in Decided => status'[p] = status[p]]_vars
  BY DecidedStays
<1>2. QED BY <1>1, Invariance, PTL DEF Spec, OutcomeIsFinal

-----------------------------------------------------------------------------
(* Without database errors                                                 *)

(* Nothing is requested, written or failed at the start.                   *)
LEMMA InitFaultless == Init => FaultlessInv
BY ContentAssumption DEF Init, FaultlessInv, RefsPublished, LabelledBeforeFanOut, FailedOnlyForGoneReference,
   LabelledSoFar, ErrorsExplained

(* What a reference was checked to be, it stays.                           *)
LEMMA RefsStayPublished ==
    ASSUME IInv, RefsPublished, [Next]_vars
    PROVE  RefsPublished'
<1> SUFFICES ASSUME NEW p \in Post, request'[p] # "none", Content[p].ref # NoPost
             PROVE  status'[Content[p].ref] = "published"
  BY DEF RefsPublished
<1>1. Content[p].ref \in Post
  BY ContentAssumption
<1>2. status[Content[p].ref] = "published"
  <2>1. CASE request[p] # "none"
    BY <2>1 DEF RefsPublished
  <2>2. CASE request[p] = "none"
    <3>1. ASSUME NEW q \in Post, ApiStep(q) PROVE BeginCreate(p)
      BY <3>1, <2>2 DEF ApiStep, BeginCreate, CommitCreate, PublishEvent, LoseEvent, Delete, IInv, TypeOK
    <3>2. ASSUME NEW w \in Worker, WorkerStep(w) \/ WorkerFault(w) PROVE FALSE
      BY <3>2, <2>2 DEF apiVars, WorkerStep, WorkerFault, RunTask, Read, ReadReplyLost, ValidatePost,
         PublishPost, ApplySafetyLabels, GenerateEmbedding, FanOutRead, FanOutCommit, SideTaskRead,
         SideTaskCommit, ReplySideEffects, EngagementInit, TaskFault, SideTaskFault, MarkFailed, Ack,
         SkipEntry, Crash
    <3>3. BeginCreate(p)
      BY <3>1, <3>2, <2>2 DEF Next, vars
    <3>4. QED BY <3>3 DEF BeginCreate, Available, Visible
  <2>3. QED BY <2>1, <2>2
<1>3. QED BY <1>1, <1>2, DecidedStays DEF Decided

(* A request or a deletion touches no worker and no effect.                *)
LEMMA ApiFaultless ==
    ASSUME IInv, FaultlessInv, "task" \notin Faults, NEW p \in Post, ApiStep(p)
    PROVE  /\ LabelledBeforeFanOut' /\ FailedOnlyForGoneReference'
           /\ LabelledSoFar' /\ ErrorsExplained'
<1>1. /\ UNCHANGED <<effects, batch, step, errors>>
      /\ deleted \subseteq deleted'
      /\ \A q \in Post : status'[q] = "failed" => status[q] = "failed"
  BY DEF ApiStep, BeginCreate, CommitCreate, PublishEvent, LoseEvent, Delete, queueVars, workerVars,
     IInv, TypeOK
<1>2. LabelledBeforeFanOut' /\ FailedOnlyForGoneReference'
  BY <1>1 DEF FaultlessInv, LabelledBeforeFanOut, FailedOnlyForGoneReference
<1>3. LabelledSoFar' /\ ErrorsExplained'
  BY <1>1 DEF FaultlessInv, LabelledSoFar, ErrorsExplained, Current, Gone
<1>4. QED BY <1>2, <1>3

(* A task: it goes on to the next one with what it wrote, and if it raised *)
(* there is a reason.                                                      *)
LEMMA TaskFaultless ==
    ASSUME IInv, FaultlessInv, "task" \notin Faults, NEW w \in Worker, step[w] # "idle",
           NEW s, NEW kinds,
           UNCHANGED <<batch, deleted>>,
           step' = [step EXCEPT ![w] = s],
           Commit(Current(w), kinds),
           UNCHANGED errors \/ (errors' = [errors EXCEPT ![w] = TRUE] /\ Gone(Current(w))),
           \A p \in Post : status'[p] = "failed" => status[p] = "failed" \/ Gone(p),
           "feed" \in kinds => step[w] = "fanout",
           s = "embedding" => LabelWrites(Current(w)) \subseteq kinds,
           s = "fanout" => step[w] = "embedding"
    PROVE  /\ LabelledBeforeFanOut' /\ FailedOnlyForGoneReference'
           /\ LabelledSoFar' /\ ErrorsExplained'
<1> DEFINE c == Current(w)
<1>1. c \in Post
  BY CurrentFacts
<1>2. /\ \A p \in Post : effects[p] \subseteq effects'[p]
      /\ \A p \in Post \ {c} : effects'[p] = effects[p]
      /\ effects'[c] = effects[c] \cup kinds
  BY <1>1 DEF Commit, IInv, TypeOK
<1>3. /\ \A v \in Worker : Current(v)' = Current(v)
      /\ \A v \in Worker : step[v] # "idle" => Current(v) \in Post
      /\ \A v \in Worker \ {w} : step'[v] = step[v] /\ (errors'[v] <=> errors[v])
      /\ step'[w] = s
  BY CurrentFacts DEF Current, IInv, TypeOK
<1>4. /\ LabelledBeforeFanOut /\ FailedOnlyForGoneReference
      /\ LabelledSoFar /\ ErrorsExplained
  BY DEF FaultlessInv
<1> HIDE DEF c
<1>5. LabelledBeforeFanOut'
  <2>1. Content[c].nsfw /\ "feed" \in kinds => "label" \in effects[c]
    BY <1>4 DEF LabelledSoFar, c
  <2>2. QED BY <2>1, <1>1, <1>2, <1>4 DEF LabelledBeforeFanOut
<1>6. FailedOnlyForGoneReference'
  BY <1>4 DEF FailedOnlyForGoneReference, Gone
<1>7. LabelledSoFar'
  <2>1. s \in {"embedding", "fanout"} /\ Content[c].nsfw => "label" \in effects'[c]
    BY <1>1, <1>2, <1>4 DEF LabelledSoFar, LabelWrites, c
  <2>2. ASSUME NEW v \in Worker, step'[v] \in {"embedding", "fanout"}, Content[Current(v)].nsfw
        PROVE  "label" \in effects'[Current(v)]
    <3>1. CASE v = w
      BY <3>1, <2>1, <2>2, <1>3 DEF c
    <3>2. CASE v # w
      BY <3>2, <2>2, <1>2, <1>3, <1>4 DEF LabelledSoFar
    <3>3. QED BY <3>1, <3>2
  <2>3. QED BY <2>2, <1>3 DEF LabelledSoFar
<1>8. ErrorsExplained'
  <2>1. \A p \in Post : Gone(p)' <=> Gone(p)
    BY DEF Gone
  <2>2. ASSUME NEW v \in Worker, step'[v] # "idle", errors'[v]
        PROVE  Gone(Current(v))
    <3>1. CASE v # w
      BY <3>1, <2>2, <1>3, <1>4 DEF ErrorsExplained
    <3>2. CASE v = w
      BY <3>2, <2>2, <1>4 DEF ErrorsExplained
    <3>3. QED BY <3>1, <3>2
  <2>3. ASSUME NEW v \in Worker, Gone(Current(v)) PROVE Gone(Current(v))'
    BY <2>3, <1>3 DEF Gone
  <2>4. QED BY <2>2, <2>3 DEF ErrorsExplained
<1>9. QED BY <1>5, <1>6, <1>7, <1>8

(* A worker between two entries has neither labels to show nor an error.   *)
LEMMA EntryFaultless ==
    ASSUME IInv, FaultlessInv, "task" \notin Faults, NEW w \in Worker,
           NEW s \in {"idle", "validate"}, NEW b,
           UNCHANGED <<status, deleted, effects>>,
           step' = [step EXCEPT ![w] = s], batch' = [batch EXCEPT ![w] = b],
           errors' = [errors EXCEPT ![w] = FALSE] \/ (UNCHANGED errors /\ ~errors[w])
    PROVE  /\ LabelledBeforeFanOut' /\ FailedOnlyForGoneReference'
           /\ LabelledSoFar' /\ ErrorsExplained'
<1>1. /\ step'[w] \in {"idle", "validate"} /\ ~errors'[w]
      /\ \A v \in Worker \ {w} :
            step'[v] = step[v] /\ batch'[v] = batch[v] /\ (errors'[v] <=> errors[v])
  BY DEF IInv, TypeOK
<1>2. LabelledBeforeFanOut' /\ FailedOnlyForGoneReference'
  BY DEF FaultlessInv, LabelledBeforeFanOut, FailedOnlyForGoneReference
<1>3. LabelledSoFar' /\ ErrorsExplained'
  BY <1>1 DEF FaultlessInv, LabelledSoFar, ErrorsExplained, Current, Gone
<1>4. QED BY <1>2, <1>3

(* The tasks that demand a published post: one that is not published has   *)
(* failed its validation before.                                           *)
LEMMA WhenPublishedFaultless ==
    ASSUME IInv, FaultlessInv, "task" \notin Faults, NEW w \in Worker,
           step[w] \in {"embedding", "engagement_init"},
           NEW kinds, WhenPublished(w, kinds), UNCHANGED <<batch, apiVars>>,
           "feed" \notin kinds
    PROVE  /\ LabelledBeforeFanOut' /\ FailedOnlyForGoneReference'
           /\ LabelledSoFar' /\ ErrorsExplained'
<1>1. Current(w) \in Post
  BY CurrentFacts
<1> DEFINE s == AfterPlan[step[w]]
<1>2. s \notin {"embedding"} /\ (s = "fanout" => step[w] = "embedding")
  BY PlanFacts
<1>3. CASE status[Current(w)] = "published"
  <2>1. Commit(Current(w), kinds) /\ step' = [step EXCEPT ![w] = s] /\ UNCHANGED errors
    BY <1>3 DEF WhenPublished, Return, Goto
  <2>2. QED BY <2>1, <1>2, TaskFaultless DEF apiVars
<1>4. CASE status[Current(w)] # "published"
  <2>1. step' = [step EXCEPT ![w] = s] /\ errors' = [errors EXCEPT ![w] = TRUE] /\ UNCHANGED effects
    BY <1>4 DEF WhenPublished, Raise, Goto
  <2>2. errors[w]
    BY <1>4 DEF IInv, WorkerInv, AfterPublish, AfterLabels, AfterEmbedding, AfterFanOut, AfterReply
  <2>3. Gone(Current(w))
    BY <2>2 DEF FaultlessInv, ErrorsExplained
  <2>4. Commit(Current(w), {})
    BY <1>1, <2>1, EmptyCommit
  <2>5. QED BY <2>1, <2>3, <2>4, <1>2, TaskFaultless DEF apiVars
<1>5. QED BY <1>3, <1>4

(* Fan-out commits after the labels, and raises only for a post whose      *)
(* validation failed.                                                      *)
LEMMA FanOutFaultless ==
    ASSUME IInv, FaultlessInv, "task" \notin Faults, NEW w \in Worker,
           FanOutRead(w) \/ FanOutCommit(w)
    PROVE  /\ LabelledBeforeFanOut' /\ FailedOnlyForGoneReference'
           /\ LabelledSoFar' /\ ErrorsExplained'
<1>1. step[w] = "fanout" /\ UNCHANGED <<batch, status, deleted>>
  BY DEF FanOutRead, FanOutCommit, apiVars
<1>2. Current(w) \in Post
  BY <1>1, CurrentFacts
<1>3. CASE FanOutCommit(w)
  <2>1. Commit(Current(w), {"feed"}) /\ step' = [step EXCEPT ![w] = "reply_side_effects"] /\ UNCHANGED errors
    BY <1>1, <1>3, PlanFacts DEF FanOutCommit, Land, Return, Goto
  <2>2. QED BY <1>1, <2>1, TaskFaultless
<1>4. CASE FanOutRead(w)
  <2>1. Commit(Current(w), {})
    BY <1>2, <1>4, EmptyCommit DEF FanOutRead
  <2>2. CASE Visible(Current(w))
    BY <1>1, <1>4, <2>2 DEF FanOutRead, FaultlessInv, LabelledBeforeFanOut, FailedOnlyForGoneReference,
       LabelledSoFar, ErrorsExplained, Current, Gone
  <2>3. CASE ~Visible(Current(w)) /\ status[Current(w)] = "published"
    <3>1. step' = [step EXCEPT ![w] = "reply_side_effects"] /\ UNCHANGED errors
      BY <1>1, <1>4, <2>3, PlanFacts DEF FanOutRead, Return, Goto
    <3>2. QED BY <1>1, <2>1, <3>1, TaskFaultless
  <2>4. CASE status[Current(w)] # "published"
    <3>1. step' = [step EXCEPT ![w] = "reply_side_effects"] /\ errors' = [errors EXCEPT ![w] = TRUE]
      BY <1>1, <1>4, <2>4, PlanFacts DEF FanOutRead, Visible, Raise, Goto
    <3>2. errors[w]
      BY <1>1, <2>4 DEF IInv, WorkerInv, AfterPublish, AfterLabels, AfterEmbedding
    <3>3. Gone(Current(w))
      BY <3>2, <1>1 DEF FaultlessInv, ErrorsExplained
    <3>4. QED BY <1>1, <2>1, <3>1, <3>3, TaskFaultless
  <2>5. QED BY <2>2, <2>3, <2>4
<1>5. QED BY <1>3, <1>4

(* One step per action of a worker.                                        *)
LEMMA WorkerFaultless ==
    ASSUME IInv, FaultlessInv, "task" \notin Faults, NEW w \in Worker,
           WorkerStep(w) \/ WorkerFault(w)
    PROVE  /\ LabelledBeforeFanOut' /\ FailedOnlyForGoneReference'
           /\ LabelledSoFar' /\ ErrorsExplained'
<1> USE DEF apiVars, queueVars, taskVars
<1>1. CASE Read(w)
  <2>1. ~errors[w]
    BY <1>1 DEF Read, IInv, WorkerInv
  <2>2. QED BY <1>1, <2>1, EntryFaultless DEF Read
<1>2. CASE ReadReplyLost(w)
  BY <1>2 DEF ReadReplyLost, workerVars, FaultlessInv, LabelledBeforeFanOut,
     FailedOnlyForGoneReference, LabelledSoFar, ErrorsExplained, Current, Gone
<1>3. CASE ValidatePost(w)
  <2>1. step[w] = "validate" /\ UNCHANGED <<effects, batch, status, deleted>>
    BY <1>3 DEF ValidatePost
  <2>2. Current(w) \in Post /\ Current(w) \in pel
    BY <2>1, CurrentFacts
  <2>3. Commit(Current(w), {})
    BY <2>1, <2>2, EmptyCommit
  <2>4. CASE Available(Current(w))
    BY <2>1, <2>3, <2>4, <1>3, TaskFaultless DEF ValidatePost, Goto
  <2>5. CASE ~Available(Current(w))
    <3>1. request[Current(w)] = "sent"
      BY <2>2 DEF IInv, QueueInv
    <3>2. Gone(Current(w))
      BY <3>1, <2>2, <2>5 DEF FaultlessInv, RefsPublished, Available, Visible, Gone
    <3>3. step' = [step EXCEPT ![w] = "post_safety_labels"] /\ errors' = [errors EXCEPT ![w] = TRUE]
      BY <1>3, <2>1, <2>5, PlanFacts DEF ValidatePost, Raise, Goto
    <3>4. QED BY <2>1, <2>3, <3>2, <3>3, TaskFaultless
  <2>6. QED BY <2>4, <2>5
<1>4. CASE PublishPost(w)
  <2>1. step[w] = "publish" /\ UNCHANGED <<effects, batch, deleted, errors>>
    BY <1>4 DEF PublishPost, Return
  <2>2. Current(w) \in Post
    BY <2>1, CurrentFacts
  <2>3. Commit(Current(w), {})
    BY <2>1, <2>2, EmptyCommit
  <2>4. \A p \in Post : status'[p] = "failed" => status[p] = "failed"
    BY <1>4, <2>2 DEF PublishPost, IInv, TypeOK
  <2>5. step' = [step EXCEPT ![w] = "post_safety_labels"]
    BY <1>4, <2>1, PlanFacts DEF PublishPost, Return, Goto
  <2>6. QED BY <2>1, <2>3, <2>4, <2>5, TaskFaultless
<1>5. CASE ApplySafetyLabels(w)
  <2>1. /\ step[w] = "post_safety_labels" /\ UNCHANGED <<batch, status, deleted, errors>>
        /\ Commit(Current(w), LabelWrites(Current(w)))
    BY <1>5 DEF ApplySafetyLabels, Return
  <2>2. step' = [step EXCEPT ![w] = "embedding"]
    BY <1>5, <2>1, PlanFacts DEF ApplySafetyLabels, Return, Goto
  <2>3. "feed" \notin LabelWrites(Current(w))
    BY DEF LabelWrites
  <2>4. QED BY <2>1, <2>2, <2>3, TaskFaultless
<1>6. CASE GenerateEmbedding(w)
  BY <1>6, WhenPublishedFaultless DEF GenerateEmbedding
<1>7. CASE FanOutRead(w) \/ FanOutCommit(w)
  BY <1>7, FanOutFaultless
<1>8. CASE \/ ReplySideEffects(w)
           \/ \E kind \in {"count", "notify"} : SideTaskRead(w, kind) \/ SideTaskCommit(w, kind)
  <2>1. step[w] = "reply_side_effects" /\ UNCHANGED <<batch, status, deleted, errors>>
    BY <1>8 DEF ReplySideEffects, Return, SideTaskRead, SideTaskCommit
  <2>2. Current(w) \in Post
    BY <2>1, CurrentFacts
  <2>3. step' = [step EXCEPT ![w] = "engagement_init"] \/ step' = [step EXCEPT ![w] = step[w]]
    BY <1>8, <2>1, PlanFacts DEF ReplySideEffects, Return, Goto, SideTaskRead, SideTaskCommit, IInv,
       TypeOK
  <2>4. \E kinds \in SUBSET {"count", "notify"} : Commit(Current(w), kinds)
    <3>1. CASE UNCHANGED effects
      BY <3>1, <2>2, EmptyCommit
    <3>2. CASE ~UNCHANGED effects
      BY <3>2, <1>8 DEF ReplySideEffects, SideTaskRead, SideTaskCommit, Land
    <3>3. QED BY <3>1, <3>2
  <2>5. QED BY <2>1, <2>3, <2>4, TaskFaultless
<1>9. CASE EngagementInit(w)
  BY <1>9, WhenPublishedFaultless DEF EngagementInit
<1>10. CASE MarkFailed(w)
  <2>1. step[w] = "outcome" /\ errors[w] /\ UNCHANGED <<effects, batch, deleted, errors>>
        /\ step' = [step EXCEPT ![w] = "ack"]
    BY <1>10 DEF MarkFailed, Goto
  <2>2. Current(w) \in Post
    BY <2>1, CurrentFacts
  <2>3. Commit(Current(w), {})
    BY <2>1, <2>2, EmptyCommit
  <2>4. Gone(Current(w))
    BY <2>1 DEF FaultlessInv, ErrorsExplained
  <2>5. \A p \in Post \ {Current(w)} : status'[p] = status[p]
    BY <1>10, <2>2 DEF MarkFailed, IInv, TypeOK
  <2>6. QED BY <2>1, <2>3, <2>4, <2>5, TaskFaultless
<1>11. CASE Ack(w) \/ SkipEntry(w)
  <2>1. NextEntry(w) /\ UNCHANGED <<status, deleted, effects>>
    BY <1>11 DEF Ack, SkipEntry
  <2>2. QED BY <2>1, EntryFaultless DEF NextEntry, Goto
<1>12. CASE Crash(w)
  BY <1>12, EntryFaultless DEF Crash, Goto
<1>13. ~TaskFault(w) /\ \A kind \in {"count", "notify"} : ~SideTaskFault(w, kind)
  BY DEF TaskFault, SideTaskFault
<1>14. QED BY <1>1, <1>2, <1>3, <1>4, <1>5, <1>6, <1>7, <1>8, <1>9, <1>10, <1>11, <1>12, <1>13
           DEF WorkerStep, WorkerFault, RunTask

(* One step per action.                                                    *)
LEMMA StepFaultless == IInv /\ FaultlessInv /\ [Next]_vars => FaultlessInv'
<1> SUFFICES ASSUME IInv, FaultlessInv, [Next]_vars PROVE FaultlessInv'
  OBVIOUS
<1>1. RefsPublished'
  BY RefsStayPublished DEF FaultlessInv
<1>2. CASE "task" \in Faults
  BY <1>1, <1>2 DEF FaultlessInv, LabelledBeforeFanOut, FailedOnlyForGoneReference
<1>3. CASE "task" \notin Faults
  <2>1. CASE UNCHANGED vars
    BY <2>1, <1>1, <1>3 DEF vars, FaultlessInv, LabelledBeforeFanOut, FailedOnlyForGoneReference,
       LabelledSoFar, ErrorsExplained, Current, Gone
  <2>2. CASE Next
    BY <2>2, <1>1, <1>3, ApiFaultless, WorkerFaultless DEF Next, FaultlessInv
  <2>3. QED BY <2>1, <2>2
<1>4. QED BY <1>2, <1>3

(* Without database errors, labels precede feed rows.                      *)
THEOREM LabelsPrecedeFanOut == Spec => []LabelledBeforeFanOut
<1>1. FaultlessInv => LabelledBeforeFanOut
  BY DEF FaultlessInv
<1>2. QED BY <1>1, InitFaultless, StepFaultless, Invariance, PTL DEF Spec

(* Without database errors, a post fails only if what it refers to is gone.*)
THEOREM FailuresHaveReasons == Spec => []FailedOnlyForGoneReference
<1>1. FaultlessInv => FailedOnlyForGoneReference
  BY DEF FaultlessInv
<1>2. QED BY <1>1, InitFaultless, StepFaultless, Invariance, PTL DEF Spec

-----------------------------------------------------------------------------
(* The pipeline implements the abstract life of a post                     *)

(* At most one worker handles a post, so that what is in flight of it is   *)
(* what that worker holds.                                                 *)
LEMMA OneHandler ==
    ASSUME IInv, NEW v \in Worker, NEW w \in Worker, NEW p \in Post, Handles(v, p), Handles(w, p)
    PROVE  v = w
<1>1. batch[v] \in Seq(Post) /\ batch[w] \in Seq(Post)
  BY DEF IInv, TypeOK
<1>2. p \in ToSet(batch[v]) /\ p \in ToSet(batch[w])
  BY <1>1, TailFacts DEF Handles, Current
<1>3. QED BY <1>2 DEF IInv, DispatchedOnce

LEMMA FlightMoves ==
    ASSUME IInv, NEW w \in Worker, step[w] # "idle",
           \A v \in Worker \ {w} : batch'[v] = batch[v] /\ writes'[v] = writes[v],
           batch'[w] = batch[w] \/ writes'[w] = {}
    PROVE  InFlight' = [InFlight EXCEPT ![Current(w)] = writes'[w]]
<1>1. Current(w) \in Post /\ Handles(w, Current(w))
  BY CurrentFacts DEF Handles
<1>2. \A v \in Worker \ {w} : \A p \in Post : Handles(v, p)' <=> Handles(v, p)
  BY DEF Handles, Current
<1>3. \A v \in Worker \ {w} : ~Handles(v, Current(w))
  BY <1>1, OneHandler
<1>4. batch'[w] = batch[w] => \A p \in Post : Handles(w, p)' <=> p = Current(w)
  BY <1>1 DEF Handles, Current
<1>5. \A p \in Post : Handles(w, p) <=> p = Current(w)
  BY <1>1 DEF Handles
<1>6. ASSUME NEW p \in Post
      PROVE  UNION {writes'[u] : u \in {v \in Worker : Handles(v, p)'}}
             = IF p = Current(w) THEN writes'[w]
               ELSE UNION {writes[u] : u \in {v \in Worker : Handles(v, p)}}
  <2>1. CASE p = Current(w)
    <3>1. \A u \in Worker : Handles(u, p)' => writes'[u] \subseteq writes'[w]
      BY <2>1, <1>2, <1>3
    <3>2. writes'[w] # {} => Handles(w, p)'
      BY <2>1, <1>4
    <3>3. QED BY <2>1, <3>1, <3>2
  <2>2. CASE p # Current(w)
    <3>1. Handles(w, p)' => writes'[w] = {}
      BY <2>2, <1>4
    <3>2. \A u \in Worker \ {w} : writes'[u] = writes[u] /\ (Handles(u, p)' <=> Handles(u, p))
      BY <1>2
    <3>3. ~Handles(w, p)
      BY <2>2, <1>5
    <3>4. QED BY <2>2, <3>1, <3>2, <3>3
  <2>3. QED BY <2>1, <2>2
<1>7. QED BY <1>1, <1>6 DEF InFlight

(* A worker that takes up or puts down an entry holds nothing.             *)
LEMMA FlightStays ==
    ASSUME IInv, NEW w \in Worker, UNCHANGED writes, writes[w] = {},
           \A v \in Worker \ {w} : batch'[v] = batch[v]
    PROVE  UNCHANGED InFlight
<1>1. \A v \in Worker \ {w} : \A p \in Post : Handles(v, p)' <=> Handles(v, p)
  BY DEF Handles, Current
<1>2. ASSUME NEW p \in Post
      PROVE  UNION {writes'[u] : u \in {v \in Worker : Handles(v, p)'}}
             = UNION {writes[u] : u \in {v \in Worker : Handles(v, p)}}
  BY <1>1
<1>3. QED BY <1>2 DEF InFlight

(* What a worker writes and gives up of what it holds is a Spread, what it *)
(* takes up is a Begin.                                                    *)
LEMMA WorkerSpreads ==
    ASSUME IInv, NEW w \in Worker, WorkerStep(w) \/ WorkerFault(w), UNCHANGED status
    PROVE  \/ Current(w) \in Post /\ (Lifecycle!Spread(Current(w)) \/ Lifecycle!Begin(Current(w)))
           \/ UNCHANGED <<status, deleted, effects, InFlight>>
<1> USE DEF apiVars, queueVars, taskVars
<1>1. UNCHANGED deleted
  BY DEF WorkerStep, WorkerFault, RunTask, Read, ReadReplyLost, ValidatePost, PublishPost,
     ApplySafetyLabels, GenerateEmbedding, FanOutRead, FanOutCommit, SideTaskRead, SideTaskCommit,
     ReplySideEffects, EngagementInit, TaskFault, SideTaskFault, MarkFailed, Ack, SkipEntry, Crash
<1>2. TypeOK
  BY DEF IInv
<1>3. step[w] # "idle" => InFlight[Current(w)] = writes[w]
  <2>1. SUFFICES ASSUME step[w] # "idle" PROVE InFlight[Current(w)] = writes[w]
    OBVIOUS
  <2>2. Current(w) \in Post /\ Handles(w, Current(w))
    BY <2>1, CurrentFacts DEF Handles
  <2>3. \A v \in Worker : Handles(v, Current(w)) <=> v = w
    BY <2>2, OneHandler
  <2>4. QED BY <2>2, <2>3 DEF InFlight
<1>4. ASSUME step[w] # "idle", NEW new \in SUBSET EffectKinds, Commit(Current(w), new),
             new \ {"label"} # {} => status[Current(w)] = "published",
             new \cap {"feed", "count", "notify"} \subseteq writes[w],
             NEW left \in SUBSET writes[w], InFlight' = [InFlight EXCEPT ![Current(w)] = left]
      PROVE  Lifecycle!Spread(Current(w)) /\ Current(w) \in Post
  BY <1>1, <1>3, <1>4, CurrentFacts DEF Lifecycle!Spread, Lifecycle!Pushed, Commit, EffectKinds
<1>5. ASSUME step[w] # "idle", UNCHANGED batch, NEW wr, writes' = [writes EXCEPT ![w] = wr]
      PROVE  InFlight' = [InFlight EXCEPT ![Current(w)] = wr]
  BY <1>5, <1>2, FlightMoves DEF TypeOK
<1>6. writes = [writes EXCEPT ![w] = writes[w]]
  BY <1>2 DEF TypeOK
<1>7. CASE ApplySafetyLabels(w)
  BY <1>4, <1>5, <1>6, <1>7 DEF ApplySafetyLabels, LabelWrites, EffectKinds
<1>8. CASE GenerateEmbedding(w)
  <2>1. step[w] # "idle" /\ UNCHANGED <<batch, writes>>
    BY <1>8 DEF GenerateEmbedding
  <2>2. InFlight' = [InFlight EXCEPT ![Current(w)] = writes[w]] /\ UNCHANGED InFlight
    BY <2>1, <1>5, <1>6 DEF InFlight, Handles, Current
  <2>3. QED BY <1>1, <1>4, <1>8, <2>1, <2>2 DEF GenerateEmbedding, WhenPublished, EffectKinds
<1>9. CASE EngagementInit(w)
  <2>1. step[w] # "idle" /\ UNCHANGED <<batch, writes>>
    BY <1>9 DEF EngagementInit
  <2>2. InFlight' = [InFlight EXCEPT ![Current(w)] = writes[w]] /\ UNCHANGED InFlight
    BY <2>1, <1>5, <1>6 DEF InFlight, Handles, Current
  <2>3. QED BY <1>1, <1>4, <1>9, <2>1, <2>2 DEF EngagementInit, WhenPublished, EffectKinds
<1>10. ASSUME step[w] # "idle", Visible(Current(w)), UNCHANGED <<batch, effects>>,
              NEW kind \in {"feed", "count", "notify"}, writes' = [writes EXCEPT ![w] = @ \cup {kind}]
       PROVE  Lifecycle!Begin(Current(w)) /\ Current(w) \in Post
  BY <1>1, <1>3, <1>5, <1>10, CurrentFacts DEF Lifecycle!Begin, Lifecycle!Pushed, Visible
<1>11. CASE FanOutRead(w)
  <2>1. step[w] # "idle" /\ writes[w] = {} /\ UNCHANGED <<batch, effects>>
    BY <1>11 DEF FanOutRead
  <2>2. CASE Visible(Current(w))
    <3>1. writes' = [writes EXCEPT ![w] = @ \cup {"feed"}]
      BY <1>11, <2>1, <2>2 DEF FanOutRead
    <3>2. QED BY <1>10, <2>1, <2>2, <3>1
  <2>3. CASE ~Visible(Current(w))
    <3>1. UNCHANGED writes
      BY <1>11, <2>3 DEF FanOutRead
    <3>2. QED BY <1>1, <2>1, <3>1 DEF InFlight, Handles, Current
  <2>4. QED BY <2>2, <2>3
<1>12. ASSUME step[w] # "idle", UNCHANGED batch, NEW kind \in {"feed", "count", "notify"}, Land(w, kind)
       PROVE  Lifecycle!Spread(Current(w)) /\ Current(w) \in Post
  <2>1. kind \in writes[w] /\ Commit(Current(w), {kind}) /\ writes' = [writes EXCEPT ![w] = writes[w] \ {kind}]
    BY <1>12 DEF Land
  <2>2. status[Current(w)] = "published"
    BY <2>1, FlightFacts
  <2>3. InFlight' = [InFlight EXCEPT ![Current(w)] = writes[w] \ {kind}]
    BY <1>5, <1>12, <2>1
  <2>4. {kind} \in SUBSET EffectKinds
    BY DEF EffectKinds
  <2>5. QED BY <1>4, <1>12, <2>1, <2>2, <2>3, <2>4
<1>13. CASE FanOutCommit(w)
  BY <1>12, <1>13 DEF FanOutCommit
<1>14. ASSUME NEW kind \in {"count", "notify"}, SideTaskRead(w, kind)
       PROVE  \/ Current(w) \in Post /\ Lifecycle!Begin(Current(w))
              \/ UNCHANGED <<status, deleted, effects, InFlight>>
  <2>1. step[w] # "idle" /\ UNCHANGED <<batch, effects>>
    BY <1>14 DEF SideTaskRead
  <2>2. CASE Visible(Current(w))
    BY <1>10, <1>14, <2>1, <2>2 DEF SideTaskRead
  <2>3. CASE ~Visible(Current(w))
    <3>1. UNCHANGED writes
      BY <1>14, <2>3 DEF SideTaskRead
    <3>2. QED BY <1>1, <2>1, <3>1 DEF InFlight, Handles, Current
  <2>4. QED BY <2>2, <2>3
<1>15. ASSUME NEW kind \in {"count", "notify"}, SideTaskCommit(w, kind)
       PROVE  Lifecycle!Spread(Current(w)) /\ Current(w) \in Post
  BY <1>12, <1>15 DEF SideTaskCommit
<1>16. ASSUME step[w] # "idle", UNCHANGED effects, NEW left \in SUBSET writes[w],
              InFlight' = [InFlight EXCEPT ![Current(w)] = left]
       PROVE  Lifecycle!Spread(Current(w)) /\ Current(w) \in Post
  <2>1. Commit(Current(w), {})
    BY <1>16, CurrentFacts, EmptyCommit
  <2>2. QED BY <1>4, <1>16, <2>1
<1>17. CASE TaskFault(w) \/ \E kind \in {"count", "notify"} : SideTaskFault(w, kind)
  <2>1. step[w] # "idle" /\ UNCHANGED <<batch, effects>>
    BY <1>17, PlanFacts DEF TaskFault, SideTaskFault
  <2>2. \E wr \in SUBSET writes[w] : writes' = [writes EXCEPT ![w] = wr]
    BY <1>17 DEF TaskFault, SideTaskFault
  <2>3. QED BY <1>5, <1>16, <2>1, <2>2
<1>18. CASE Crash(w)
  <2>1. step[w] # "idle" /\ UNCHANGED effects /\ writes'[w] = {}
        /\ \A v \in Worker \ {w} : batch'[v] = batch[v] /\ writes'[v] = writes[v]
    BY <1>2, <1>18 DEF Crash, TypeOK
  <2>2. InFlight' = [InFlight EXCEPT ![Current(w)] = {}]
    BY <2>1, FlightMoves
  <2>3. QED BY <1>16, <2>1, <2>2
<1>19. CASE \/ ReadReplyLost(w) \/ ValidatePost(w) \/ PublishPost(w) \/ MarkFailed(w)
            \/ ReplySideEffects(w)
  BY <1>1, <1>19 DEF ReadReplyLost, ValidatePost, PublishPost, MarkFailed, ReplySideEffects,
     workerVars, InFlight, Handles, Current
<1>20. CASE Read(w) \/ Ack(w) \/ SkipEntry(w)
  <2>1. step[w] \in {"idle", "outcome", "ack"} /\ UNCHANGED <<effects, writes>>
    BY <1>20 DEF Read, Ack, SkipEntry, Dispatched
  <2>2. writes[w] = {}
    BY <2>1, FlightFacts
  <2>3. \A v \in Worker \ {w} : batch'[v] = batch[v]
    BY <1>2, <1>20 DEF Read, Ack, SkipEntry, NextEntry, TypeOK
  <2>4. QED BY <1>1, <2>1, <2>2, <2>3, FlightStays
<1>21. QED BY <1>7, <1>8, <1>9, <1>11, <1>13, <1>14, <1>15, <1>17, <1>18, <1>19, <1>20
           DEF WorkerStep, WorkerFault, RunTask

(* Every step of the handlers and the workers is a step of PostLifecycle   *)
(* or invisible to it.                                                     *)
THEOREM Refinement == Spec => ImplementsLifecycle
<1>1. Init => Lifecycle!Init
  <2>1. ASSUME Init PROVE InFlight = [p \in Post |-> {}]
    BY <2>1 DEF Init, InFlight
  <2>2. QED BY <2>1 DEF Init, Lifecycle!Init
<1>2. ASSUME IInv, NEW p \in Post, ApiStep(p)
      PROVE  Lifecycle!Next \/ UNCHANGED <<status, deleted, effects, InFlight>>
  <2>1. CASE CommitCreate(p)
    <3>1. status[p] = "absent" /\ Lifecycle!RefPublished(p)
      BY <1>2, <2>1 DEF IInv, QueueInv, CommitCreate, Lifecycle!RefPublished
    <3>2. UNCHANGED InFlight
      BY <2>1 DEF CommitCreate, workerVars, taskVars, InFlight, Handles, Current
    <3>3. QED BY <2>1, <3>1, <3>2 DEF CommitCreate, Lifecycle!Accept, Lifecycle!Next
  <2>2. CASE Delete(p)
    <3>1. UNCHANGED InFlight
      BY <2>2 DEF Delete, workerVars, taskVars, InFlight, Handles, Current
    <3>2. QED BY <2>2, <3>1 DEF Delete, Lifecycle!Delete, Lifecycle!Next
  <2>3. CASE BeginCreate(p) \/ PublishEvent(p) \/ LoseEvent(p)
    BY <2>3 DEF BeginCreate, PublishEvent, LoseEvent, workerVars, taskVars, InFlight, Handles, Current
  <2>4. QED BY <1>2, <2>1, <2>2, <2>3 DEF ApiStep
<1>3. ASSUME IInv, NEW w \in Worker, WorkerStep(w) \/ WorkerFault(w)
      PROVE  Lifecycle!Next \/ UNCHANGED <<status, deleted, effects, InFlight>>
  <2>1. CASE UNCHANGED status
    BY <1>3, <2>1, WorkerSpreads DEF Lifecycle!Next
  <2>2. CASE ~UNCHANGED status
    <3>1. UNCHANGED <<batch, writes>>
      BY <1>3, <2>2, WorkerDecides
    <3>2. UNCHANGED InFlight
      BY <3>1 DEF InFlight, Handles, Current
    <3>3. QED BY <1>3, <2>2, <3>2, WorkerDecides DEF Lifecycle!Next, Lifecycle!Decide, Decided
  <2>3. QED BY <2>1, <2>2
<1>5. UNCHANGED vars => UNCHANGED <<status, deleted, effects, InFlight>>
  BY DEF vars, InFlight, Handles, Current
<1>4. IInv /\ [Next]_vars => [Lifecycle!Next]_(Lifecycle!lifeVars)
  BY <1>2, <1>3, <1>5 DEF Next, Lifecycle!lifeVars
<1>6. QED BY <1>1, <1>4, Invariance, PTL DEF Spec, ImplementsLifecycle, Lifecycle!Spec

===============================================================================
