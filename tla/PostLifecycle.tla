----------------------------- MODULE PostLifecycle -----------------------------
(***************************************************************************)
(* What the API promises about a post, with no queue, no worker and no     *)
(* plan in it: an accepted post waits in "processing", is published or     *)
(* fails once and for all, and is copied anywhere only when published.     *)
(* A deletion stops what has not begun; what is under way when the post    *)
(* is deleted may still land.  PostPipeline is shown to implement this     *)
(* module.                                                                 *)
(***************************************************************************)
EXTENDS Naturals

CONSTANTS Post, NoPost, Content

VARIABLES
    status, deleted, effects,
    begun    \* post -> kinds of copies somebody has begun and not finished

lifeVars == <<status, deleted, effects, begun>>

(* What a deletion stops.                                                  *)
Pushed == {"feed", "count", "notify"}

Init ==
    /\ status = [p \in Post |-> "absent"]
    /\ deleted = {}
    /\ effects = [p \in Post |-> {}]
    /\ begun = [p \in Post |-> {}]

RefPublished(p) == Content[p].ref # NoPost => status[Content[p].ref] = "published"

(* 202 Accepted: a row exists, and what it refers to was public.           *)
Accept(p) ==
    /\ status[p] = "absent"
    /\ RefPublished(p)
    /\ status' = [status EXCEPT ![p] = "processing"]
    /\ UNCHANGED <<deleted, effects, begun>>

(* The one decision taken about an accepted post.                          *)
Decide(p) ==
    /\ status[p] = "processing"
    /\ \E outcome \in {"published", "failed"} :
          status' = [status EXCEPT ![p] = outcome]
    /\ UNCHANGED <<deleted, effects, begun>>

Delete(p) ==
    /\ status[p] # "absent"
    /\ p \notin deleted
    /\ deleted' = deleted \cup {p}
    /\ UNCHANGED <<status, effects, begun>>

(* Pushing a post to feeds, counting it or notifying anyone of it begins   *)
(* only when it is published and not deleted.                              *)
Begin(p) ==
    /\ status[p] = "published" /\ p \notin deleted
    /\ \E kind \in Pushed : begun' = [begun EXCEPT ![p] = @ \cup {kind}]
    /\ UNCHANGED <<status, deleted, effects>>

(* A label may precede publication, an embedding or a row of counters may  *)
(* not; the rest is what has begun.  What has begun may also be given up.  *)
Spread(p) ==
    /\ status[p] # "absent"
    /\ \E new \in SUBSET ({"label", "embed", "engage"} \cup Pushed) :
          /\ new \ {"label"} # {} => status[p] = "published"
          /\ new \cap Pushed \subseteq begun[p]
          /\ effects' = [effects EXCEPT ![p] = @ \cup new]
    /\ \E left \in SUBSET begun[p] : begun' = [begun EXCEPT ![p] = left]
    /\ UNCHANGED <<status, deleted>>

Next == \E p \in Post : Accept(p) \/ Decide(p) \/ Delete(p) \/ Begin(p) \/ Spread(p)

Spec == Init /\ [][Next]_lifeVars

================================================================================
