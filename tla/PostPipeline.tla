----------------------------- MODULE PostPipeline -----------------------------
(***************************************************************************)
(* The life of a post: the POST /posts handler commits a row in status     *)
(* "processing" and then, in a second step, appends a post.created event   *)
(* to a Redis stream; workers of one consumer group take events in batches *)
(* and run every registered plan on each, every plan task in a database    *)
(* transaction of its own; the event is acknowledged when the dispatcher   *)
(* returns.  Nothing ever re-reads an event that was delivered and not     *)
(* acknowledged.                                                           *)
(*                                                                         *)
(* A step of this module is one database transaction or one Redis command. *)
(* The immutable columns of a post are the constant Content: quantifying   *)
(* over Content quantifies over the posts users may write.  Engagement     *)
(* counts, feed rows and notifications appear here only as the fact that   *)
(* the task that writes them has committed.                                *)
(***************************************************************************)
EXTENDS Naturals, Sequences, SequencesExt

CONSTANTS
    Post,       \* post ids, each used at most once
    NoPost,     \* the null of parent_id / quote_of_id / repost_of_id
    Content,    \* post -> its immutable columns
    Worker,     \* worker processes reading as the consumer group
    BatchSize,  \* XREADGROUP count
    Faults      \* which of FaultKinds this instance exhibits

FaultKinds == {"xadd", "read", "task", "mark", "ack", "crash"}

Kinds == {"plain", "reply", "quote", "repost"}

(* PostCreateRequest: at most one reference; a repost has no body, hence   *)
(* nothing for the NSFW detector to hit.                                   *)
ASSUME ContentAssumption ==
    /\ NoPost \notin Post
    /\ Content \in [Post -> [kind : Kinds, ref : Post \cup {NoPost}, nsfw : BOOLEAN]]
    /\ \A p \in Post : Content[p].kind = "plain" <=> Content[p].ref = NoPost
    /\ \A p \in Post : Content[p].kind = "repost" => ~Content[p].nsfw

ASSUME BatchAssumption == BatchSize \in Nat \ {0}

ASSUME FaultAssumption == Faults \subseteq FaultKinds

VARIABLES
    status,   \* posts.status, "absent" while there is no row
    deleted,  \* posts whose deleted_at is set
    request,  \* progress of the create request of each post
    stream,   \* entries of sns:events not delivered to the group yet
    pel,      \* entries delivered and not acknowledged
    batch,    \* worker -> entries of its last read it has not finished
    step,     \* worker -> the task it runs next on the head of its batch
    errors,   \* worker -> did a plan fail for the head of its batch?
    looked,   \* worker -> side-effect tasks that have read the post
    writes,   \* worker -> kinds of rows its tasks have decided to write and
              \*           not committed yet
    effects   \* post -> plan tasks whose writes for it are committed

vars == <<status, deleted, request, stream, pel, batch, step, errors, looked, writes,
          effects>>
apiVars == <<status, deleted, request>>
queueVars == <<stream, pel>>
taskVars == <<looked, writes>>
workerVars == <<batch, step, errors, taskVars>>

-----------------------------------------------------------------------------

(* Mutants of AfterPlan: labels ordered after fan-out; no fan-out.         *)
AfterPlan_LabelsLate ==
    [ validate |-> "embedding", publish |-> "embedding", embedding |-> "fanout",
      fanout |-> "post_safety_labels", post_safety_labels |-> "reply_side_effects",
      reply_side_effects |-> "engagement_init", engagement_init |-> "outcome" ]

AfterPlan_NoFanOut ==
    [ validate |-> "post_safety_labels", publish |-> "post_safety_labels",
      post_safety_labels |-> "embedding", embedding |-> "reply_side_effects",
      fanout |-> "reply_side_effects", reply_side_effects |-> "engagement_init",
      engagement_init |-> "outcome" ]

(* The plans of post.created by ORDER (0, 15, 25, 50, 75, 100); the first  *)
(* has two tasks, the second depending on the first.                       *)
AfterPlan ==
    [ validate           |-> "post_safety_labels",
      publish            |-> "post_safety_labels",
      post_safety_labels |-> "embedding",
      embedding          |-> "fanout",
      fanout             |-> "reply_side_effects",
      reply_side_effects |-> "engagement_init",
      engagement_init    |-> "outcome" ]

Tasks == DOMAIN AfterPlan

Steps == Tasks \cup {"idle", "outcome", "ack"}

Decided == {"published", "failed"}

Visible(p) == status[p] = "published" /\ p \notin deleted

(* What ValidatePostTask and the create handler demand of the parent, the  *)
(* quoted or the reposted post.                                            *)
Available(p) == Content[p].ref # NoPost => Visible(Content[p].ref)

Current(w) == Head(batch[w])

(* The rows each plan after publication would write for post p now.        *)
LabelWrites(p) == IF Content[p].nsfw THEN {"label"} ELSE {}

(* The tasks of the running plan that push the post somewhere, by what     *)
(* they write.  Those of a post that is no reply and no repost return at   *)
(* once.                                                                   *)
SideTasks(p) == IF Content[p].kind \in {"reply", "repost"} THEN {"count", "notify"} ELSE {}

EffectKinds == {"label", "embed", "feed", "count", "notify", "engage"}

-----------------------------------------------------------------------------

Init ==
    /\ status = [p \in Post |-> "absent"]
    /\ deleted = {}
    /\ request = [p \in Post |-> "none"]
    /\ stream = <<>>
    /\ pel = {}
    /\ batch = [w \in Worker |-> <<>>]
    /\ step = [w \in Worker |-> "idle"]
    /\ errors = [w \in Worker |-> FALSE]
    /\ looked = [w \in Worker |-> {}]
    /\ writes = [w \in Worker |-> {}]
    /\ effects = [p \in Post |-> {}]

(* Mutant: the referenced post is not checked.                             *)
BeginCreate_Unchecked(p) ==
    /\ request[p] = "none"
    /\ request' = [request EXCEPT ![p] = "checked"]
    /\ UNCHANGED <<status, deleted, effects, queueVars, workerVars>>

(* create_post up to its insert: the 404 checks on the referenced post.    *)
BeginCreate(p) ==
    /\ request[p] = "none"
    /\ Available(p)
    /\ request' = [request EXCEPT ![p] = "checked"]
    /\ UNCHANGED <<status, deleted, effects, queueVars, workerVars>>

(* create_post: the row is committed before the event is published.        *)
CommitCreate(p) ==
    /\ request[p] = "checked"
    /\ request' = [request EXCEPT ![p] = "committed"]
    /\ status' = [status EXCEPT ![p] = "processing"]
    /\ UNCHANGED <<deleted, effects, queueVars, workerVars>>

(* create_post: XADD, then the 202 answer.                                 *)
PublishEvent(p) ==
    /\ request[p] = "committed"
    /\ request' = [request EXCEPT ![p] = "sent"]
    /\ stream' = Append(stream, p)
    /\ UNCHANGED <<status, deleted, effects, pel, workerVars>>

(* Redis is unreachable or the API process dies after the commit: the      *)
(* handler ends in a 500 and no one appends the event later.               *)
LoseEvent(p) ==
    /\ "xadd" \in Faults
    /\ request[p] = "committed"
    /\ request' = [request EXCEPT ![p] = "lost"]
    /\ UNCHANGED <<status, deleted, effects, queueVars, workerVars>>

(* delete_post, hide_post and erase_me set deleted_at whatever the status. *)
Delete(p) ==
    /\ status[p] # "absent"
    /\ p \notin deleted
    /\ deleted' = deleted \cup {p}
    /\ UNCHANGED <<status, request, effects, queueVars, workerVars>>

-----------------------------------------------------------------------------

Arriving == SubSeq(stream, 1, IF Len(stream) < BatchSize THEN Len(stream) ELSE BatchSize)

Remaining == SubSeq(stream, Len(Arriving) + 1, Len(stream))

(* XREADGROUP ">" COUNT BatchSize, issued when the last batch is finished: *)
(* Redis moves the entries to the pending list of the group.               *)
Deliver ==
    /\ stream # <<>>
    /\ stream' = Remaining
    /\ pel' = pel \cup ToSet(Arriving)

Read(w) ==
    /\ step[w] = "idle"
    /\ Deliver
    /\ batch' = [batch EXCEPT ![w] = Arriving]
    /\ step' = [step EXCEPT ![w] = "validate"]
    /\ UNCHANGED <<errors, taskVars, effects, apiVars>>

(* The command takes effect and its reply is lost: the worker sleeps and   *)
(* reads ">" again, which returns later entries only.                      *)
ReadReplyLost(w) ==
    /\ "read" \in Faults
    /\ step[w] = "idle"
    /\ Deliver
    /\ UNCHANGED <<effects, apiVars, workerVars>>

-----------------------------------------------------------------------------

Goto(w, s) == step' = [step EXCEPT ![w] = s]

(* A task returned: its plan, or the next task of the plan, follows.       *)
Return(w) == Goto(w, AfterPlan[step[w]]) /\ UNCHANGED errors

(* Mutant: the error is not recorded.                                      *)
Raise_Unrecorded(w) == Goto(w, AfterPlan[step[w]]) /\ UNCHANGED errors

(* A task raised: run_plan ends this plan, the dispatcher runs the others. *)
Raise(w) == Goto(w, AfterPlan[step[w]]) /\ errors' = [errors EXCEPT ![w] = TRUE]

Commit(p, kinds) == effects' = [effects EXCEPT ![p] = @ \cup kinds]

ValidatePost(w) ==
    /\ step[w] = "validate"
    /\ IF Available(Current(w))
       THEN Goto(w, "publish") /\ UNCHANGED errors
       ELSE Raise(w)
    /\ UNCHANGED <<effects, batch, taskVars, apiVars, queueVars>>

(* PublishPostTask writes the status whatever it was and looks at no       *)
(* deleted_at.                                                             *)
PublishPost(w) ==
    /\ step[w] = "publish"
    /\ status' = [status EXCEPT ![Current(w)] = "published"]
    /\ Return(w)
    /\ UNCHANGED <<effects, batch, taskVars, deleted, request, queueVars>>

ApplySafetyLabels(w) ==
    /\ step[w] = "post_safety_labels"
    /\ Commit(Current(w), LabelWrites(Current(w)))
    /\ Return(w)
    /\ UNCHANGED <<batch, taskVars, apiVars, queueVars>>

(* The tasks that raise unless the post is published.  They do not look at *)
(* deleted_at, and a published post stays published, so that nothing can   *)
(* refute what they read before they commit.                               *)
WhenPublished(w, kinds) ==
    IF status[Current(w)] = "published"
    THEN Commit(Current(w), kinds) /\ Return(w)
    ELSE Raise(w) /\ UNCHANGED effects

GenerateEmbedding(w) ==
    /\ step[w] = "embedding"
    /\ WhenPublished(w, {"embed"})
    /\ UNCHANGED <<batch, taskVars, apiVars, queueVars>>

(* Mutant: fan-out does not look at deleted_at.                            *)
FanOutRead_Deleted(w) ==
    /\ step[w] = "fanout" /\ writes[w] = {}
    /\ IF status[Current(w)] = "published"
       THEN writes' = [writes EXCEPT ![w] = {"feed"}] /\ UNCHANGED <<step, errors>>
       ELSE Raise(w) /\ UNCHANGED writes
    /\ UNCHANGED <<effects, batch, looked, apiVars, queueVars>>

(* FanOutTask reads the post, then the followers; nothing is read again    *)
(* before its commit.                                                      *)
FanOutRead(w) ==
    /\ step[w] = "fanout" /\ writes[w] = {}
    /\ IF Visible(Current(w))
       THEN writes' = [writes EXCEPT ![w] = {"feed"}] /\ UNCHANGED <<step, errors>>
       ELSE /\ IF status[Current(w)] = "published" THEN Return(w) ELSE Raise(w)
            /\ UNCHANGED writes
    /\ UNCHANGED <<effects, batch, looked, apiVars, queueVars>>

Land(w, kind) ==
    /\ kind \in writes[w]
    /\ Commit(Current(w), {kind})
    /\ writes' = [writes EXCEPT ![w] = @ \ {kind}]

FanOutCommit(w) ==
    /\ step[w] = "fanout"
    /\ Land(w, "feed")
    /\ Return(w)
    /\ UNCHANGED <<batch, looked, apiVars, queueVars>>

(* reply_count, notify, repost_count and notify_repost run concurrently,   *)
(* each in a session of its own: a task reads the post,                    *)
SideTaskRead(w, kind) ==
    /\ step[w] = "reply_side_effects"
    /\ kind \in SideTasks(Current(w)) \ looked[w]
    /\ looked' = [looked EXCEPT ![w] = @ \cup {kind}]
    /\ writes' = IF Visible(Current(w)) THEN [writes EXCEPT ![w] = @ \cup {kind}] ELSE writes
    /\ UNCHANGED <<effects, batch, step, errors, apiVars, queueVars>>

(* and commits later what it decided to write;                             *)
SideTaskCommit(w, kind) ==
    /\ step[w] = "reply_side_effects"
    /\ Land(w, kind)
    /\ UNCHANGED <<batch, step, errors, looked, apiVars, queueVars>>

(* the plan ends with the last of them.                                    *)
ReplySideEffects(w) ==
    /\ step[w] = "reply_side_effects"
    /\ looked[w] = SideTasks(Current(w)) /\ writes[w] = {}
    /\ looked' = [looked EXCEPT ![w] = {}]
    /\ Return(w)
    /\ UNCHANGED <<effects, batch, writes, apiVars, queueVars>>

EngagementInit(w) ==
    /\ step[w] = "engagement_init"
    /\ WhenPublished(w, {"engage"})
    /\ UNCHANGED <<batch, taskVars, apiVars, queueVars>>

(* A database error rolls the task back.                                   *)
TaskFault(w) ==
    /\ "task" \in Faults
    /\ step[w] \in Tasks \ {"reply_side_effects"}
    /\ Raise(w)
    /\ writes' = [writes EXCEPT ![w] = {}]
    /\ UNCHANGED <<effects, batch, looked, apiVars, queueVars>>

(* run_plan gathers concurrent tasks: one that fails does not stop the     *)
(* others.                                                                 *)
SideTaskFault(w, kind) ==
    /\ "task" \in Faults
    /\ step[w] = "reply_side_effects"
    /\ kind \in (SideTasks(Current(w)) \ looked[w]) \cup writes[w]
    /\ looked' = [looked EXCEPT ![w] = @ \cup {kind}]
    /\ writes' = [writes EXCEPT ![w] = @ \ {kind}]
    /\ errors' = [errors EXCEPT ![w] = TRUE]
    /\ UNCHANGED <<effects, batch, step, apiVars, queueVars>>

(* MarkFailedPostTask: only a post still in processing becomes failed.     *)
MarkFailed(w) ==
    /\ step[w] = "outcome"
    /\ errors[w]
    /\ status' = IF status[Current(w)] = "processing"
                 THEN [status EXCEPT ![Current(w)] = "failed"]
                 ELSE status
    /\ Goto(w, "ack")
    /\ UNCHANGED <<effects, batch, errors, taskVars, deleted, request, queueVars>>

(* The loop over the batch goes on, with a fresh TaskContext.              *)
NextEntry(w) ==
    /\ batch' = [batch EXCEPT ![w] = Tail(@)]
    /\ Goto(w, IF Tail(batch[w]) = <<>> THEN "idle" ELSE "validate")
    /\ errors' = [errors EXCEPT ![w] = FALSE]

(* Mutant: acknowledged before the failure is marked.                      *)
Dispatched_Early(w) == step[w] \in {"ack", "outcome"}

Dispatched(w) == step[w] = "ack" \/ (step[w] = "outcome" /\ ~errors[w])

(* XACK, whether the dispatcher returned True or False.                    *)
Ack(w) ==
    /\ Dispatched(w)
    /\ pel' = pel \ {Current(w)}
    /\ NextEntry(w)
    /\ UNCHANGED <<effects, taskVars, stream, apiVars>>

(* MarkFailedPostTask or XACK raises: worker_message_failed is logged and  *)
(* the loop goes on without acknowledging.                                 *)
SkipEntry(w) ==
    /\ \/ "mark" \in Faults /\ step[w] = "outcome" /\ errors[w]
       \/ "ack" \in Faults /\ Dispatched(w)
    /\ NextEntry(w)
    /\ UNCHANGED <<effects, taskVars, apiVars, queueVars>>

(* The process dies and is restarted by the container runtime.             *)
Crash(w) ==
    /\ "crash" \in Faults
    /\ step[w] # "idle"
    /\ batch' = [batch EXCEPT ![w] = <<>>]
    /\ Goto(w, "idle")
    /\ errors' = [errors EXCEPT ![w] = FALSE]
    /\ looked' = [looked EXCEPT ![w] = {}]
    /\ writes' = [writes EXCEPT ![w] = {}]
    /\ UNCHANGED <<effects, apiVars, queueVars>>

-----------------------------------------------------------------------------

RunTask(w) ==
    \/ ValidatePost(w) \/ PublishPost(w) \/ ApplySafetyLabels(w)
    \/ GenerateEmbedding(w) \/ FanOutRead(w) \/ FanOutCommit(w)
    \/ \E kind \in {"count", "notify"} : SideTaskRead(w, kind) \/ SideTaskCommit(w, kind)
    \/ ReplySideEffects(w) \/ EngagementInit(w) \/ MarkFailed(w)

WorkerStep(w) == Read(w) \/ RunTask(w) \/ Ack(w)

WorkerFault(w) ==
    \/ ReadReplyLost(w) \/ TaskFault(w) \/ SkipEntry(w) \/ Crash(w)
    \/ \E kind \in {"count", "notify"} : SideTaskFault(w, kind)

ApiStep(p) ==
    BeginCreate(p) \/ CommitCreate(p) \/ PublishEvent(p) \/ LoseEvent(p) \/ Delete(p)

Next ==
    \/ \E p \in Post : ApiStep(p)
    \/ \E w \in Worker : WorkerStep(w) \/ WorkerFault(w)

Spec == Init /\ [][Next]_vars

(* The handler that committed a row goes on to XADD and a running worker   *)
(* goes on reading and dispatching; no user is obliged to post or delete.  *)
FairSpec ==
    /\ Spec
    /\ \A p \in Post : WF_vars(PublishEvent(p))
    /\ \A w \in Worker : WF_vars(WorkerStep(w))

-----------------------------------------------------------------------------
(* Properties                                                              *)

RequestStates == {"none", "checked", "committed", "sent", "lost"}

(* Every variable stays in its range.                                      *)
TypeOK ==
    /\ status \in [Post -> {"absent", "processing", "published", "failed"}]
    /\ deleted \subseteq Post
    /\ request \in [Post -> RequestStates]
    /\ stream \in Seq(Post)
    /\ pel \subseteq Post
    /\ batch \in [Worker -> Seq(Post)]
    /\ step \in [Worker -> Steps]
    /\ errors \in [Worker -> BOOLEAN]
    /\ looked \in [Worker -> SUBSET {"count", "notify"}]
    /\ writes \in [Worker -> SUBSET {"feed", "count", "notify"}]
    /\ effects \in [Post -> SUBSET EffectKinds]

(* The consumer group hands each event to one worker, once: an event is    *)
(* never waiting in the stream and pending at a time, in the batches of    *)
(* two workers, or twice in one of them (worker.py's XREADGROUP ">").      *)
DispatchedOnce ==
    /\ ToSet(stream) \cap pel = {}
    /\ IsInjective(stream)
    /\ \A w \in Worker :
          /\ ToSet(batch[w]) \subseteq pel
          /\ IsInjective(batch[w])
          /\ \A v \in Worker \ {w} : ToSet(batch[v]) \cap ToSet(batch[w]) = {}

(* An event leaves the pending list only when its post is decided: no      *)
(* acknowledged event leaves a post in processing, although the worker     *)
(* acknowledges failed dispatches too and any task may fail.               *)
AckedMeansDecided ==
    \A p \in Post :
        request[p] = "sent" /\ p \notin ToSet(stream) \cup pel => status[p] \in Decided

Complete(p) ==
    /\ status[p] = "published"
    /\ {"embed", "engage"} \subseteq effects[p]
    /\ Content[p].nsfw => "label" \in effects[p]
    /\ p \notin deleted => "feed" \in effects[p]
    /\ p \notin deleted /\ Content[p].kind \in {"reply", "repost"}
          => {"count", "notify"} \subseteq effects[p]

(* A dispatch that reports success has left nothing out: when the          *)
(* dispatcher logs event_processed, the post is published, labelled if     *)
(* NSFW, embedded, in the feeds, counted and notified unless deleted.      *)
SuccessMeansComplete ==
    \A w \in Worker : step[w] = "outcome" /\ ~errors[w] => Complete(Current(w))

(* No feed row, embedding, counter or notification exists for a post that  *)
(* is not published, whichever plans failed before.                        *)
SpreadOnlyPublished ==
    \A p \in Post : effects[p] \subseteq {"label"} \/ status[p] = "published"

(* Without database errors, no feed row of an NSFW post exists before its  *)
(* labels, so that the feed policies see them (plan ORDER 15 before 50).   *)
LabelledBeforeFanOut ==
    "task" \notin Faults =>
        \A p \in Post :
            Content[p].nsfw /\ "feed" \in effects[p] => "label" \in effects[p]

(* Without database errors, a post fails for one reason only: what it      *)
(* refers to was deleted after the create request was checked.             *)
FailedOnlyForGoneReference ==
    "task" \notin Faults =>
        \A p \in Post :
            status[p] = "failed" =>
                Content[p].ref # NoPost /\ Content[p].ref \in deleted

(* A decision is final: MarkFailedPostTask never takes back a publication  *)
(* whose later plans failed, and a failed post is never published.         *)
OutcomeIsFinal ==
    [][\A p \in Post : status[p] \in Decided => status'[p] = status[p]]_vars

Handles(w, p) == batch[w] # <<>> /\ Current(w) = p

(* What tasks have decided to write about a post and not committed.        *)
InFlight == [p \in Post |-> UNION {writes[w] : w \in {v \in Worker : Handles(v, p)}}]

(* The refinement mapping: of the queue and the workers nothing is left    *)
(* but what is in flight.                                                  *)
Lifecycle == INSTANCE PostLifecycle WITH
    Post <- Post, NoPost <- NoPost, Content <- Content,
    status <- status, deleted <- deleted, effects <- effects, begun <- InFlight

(* The pipeline implements the abstract life of a post, whatever fails.    *)
ImplementsLifecycle == Lifecycle!Spec

(* Every accepted post is decided: the client polling after a 202 sees     *)
(* published or failed in the end.                                         *)
EveryPostDecided ==
    \A p \in Post : status[p] = "processing" ~> status[p] \in Decided

Reported(p) == \E w \in Worker : Handles(w, p) /\ errors[w]

(* No accepted post is lost in silence: it reaches its followers' feeds,   *)
(* is deleted, or its dispatch reports an error.                           *)
NoSilentLoss ==
    \A p \in Post :
        status[p] = "processing" ~> "feed" \in effects[p] \/ p \in deleted \/ Reported(p)

-----------------------------------------------------------------------------
(* The inductive invariant behind the safety properties                    *)

(* The steps of a dispatch from which a task lies behind.                  *)
AfterEngagement == {"outcome"}
AfterReply      == {"engagement_init"} \cup AfterEngagement
AfterFanOut     == {"reply_side_effects"} \cup AfterReply
AfterEmbedding  == {"fanout"} \cup AfterFanOut
AfterLabels     == {"embedding"} \cup AfterEmbedding
AfterPublish    == {"post_safety_labels"} \cup AfterLabels

(* Entries of a worker's batch on which PublishPostTask has not run yet.   *)
Undispatched(w) ==
    IF step[w] \in {"idle", "validate", "publish"} THEN ToSet(batch[w])
    ELSE ToSet(batch[w]) \ {Current(w)}

(* The event of a post exists only once its row is committed, and nobody   *)
(* else touches the status of a post that waits for its dispatch.          *)
QueueInv ==
    /\ \A p \in Post :
          /\ request[p] \in {"none", "checked"} <=> status[p] = "absent"
          /\ request[p] = "checked" /\ Content[p].ref # NoPost
                => status[Content[p].ref] = "published"
          /\ request[p] \in {"committed", "lost"} => status[p] = "processing"
    /\ \A p \in ToSet(stream) \cup pel : request[p] = "sent"
    /\ \A p \in ToSet(stream) : status[p] = "processing"

(* What the position of a worker in its plans says of the post it handles. *)
WorkerInv(w) ==
    /\ step[w] = "idle" <=> batch[w] = <<>>
    /\ step[w] \in {"idle", "validate", "publish"} => ~errors[w]
    /\ \A p \in Undispatched(w) : status[p] = "processing"
    /\ step[w] \in AfterPublish /\ ~errors[w] => status[Current(w)] = "published"
    /\ step[w] = "ack" => status[Current(w)] \in Decided

(* What is in flight belongs to the running plan, and to a published post. *)
FlightInv(w) ==
    /\ step[w] = "fanout" \/ writes[w] \subseteq looked[w]
    /\ step[w] = "fanout" => writes[w] \subseteq {"feed"}
    /\ step[w] # "reply_side_effects" => looked[w] = {}
    /\ writes[w] # {} => status[Current(w)] = "published"

(* What the plans behind a worker have written, if none of them failed.    *)
PlansDone(w) ==
    LET p == Current(w)
    IN  /\ step[w] \in AfterLabels /\ Content[p].nsfw => "label" \in effects[p]
        /\ step[w] \in AfterEmbedding => "embed" \in effects[p]
        /\ step[w] \in AfterFanOut /\ p \notin deleted => "feed" \in effects[p]
        /\ step[w] \in AfterReply /\ p \notin deleted /\ Content[p].kind \in {"reply", "repost"}
              => {"count", "notify"} \subseteq effects[p]
        /\ step[w] \in AfterEngagement => "engage" \in effects[p]

(* What the concurrent tasks of the running plan have written.             *)
SideDone(w) ==
    \A kind \in looked[w] \ writes[w] :
        Current(w) \notin deleted => kind \in effects[Current(w)]

Progress(w) == ~errors[w] => PlansDone(w) /\ SideDone(w)

(* The safety properties hold together; none but SpreadOnlyPublished is    *)
(* preserved without the positions of the workers.                         *)
IInv ==
    /\ TypeOK
    /\ DispatchedOnce
    /\ QueueInv
    /\ \A w \in Worker : WorkerInv(w) /\ FlightInv(w)
    /\ AckedMeansDecided
    /\ SpreadOnlyPublished
    /\ \A w \in Worker : Progress(w)

-----------------------------------------------------------------------------
(* The inductive invariant behind what holds without database errors       *)

Gone(p) == Content[p].ref # NoPost /\ Content[p].ref \in deleted

(* A reference is checked once, and a published post stays published: from *)
(* then on it can only be gone.                                            *)
RefsPublished ==
    \A p \in Post :
        request[p] # "none" /\ Content[p].ref # NoPost => status[Content[p].ref] = "published"

(* A worker between the labels and the fan-out has written the labels.     *)
LabelledSoFar ==
    \A w \in Worker :
        step[w] \in {"embedding", "fanout"} /\ Content[Current(w)].nsfw
            => "label" \in effects[Current(w)]

(* The only plan that fails is the validation, and it fails for a reason   *)
(* that lasts.                                                             *)
ErrorsExplained ==
    \A w \in Worker : step[w] # "idle" /\ errors[w] => Gone(Current(w))

FaultlessInv ==
    /\ RefsPublished
    /\ LabelledBeforeFanOut /\ FailedOnlyForGoneReference
    /\ "task" \notin Faults => LabelledSoFar /\ ErrorsExplained

=============================================================================
