---------------------------- MODULE MCPostPipeline ----------------------------
(***************************************************************************)
(* Three posts that exercise every kind of content: an NSFW post, a reply  *)
(* to it and a repost of it, so that two posts depend on the first.        *)
(***************************************************************************)
EXTENDS PostPipeline

CONSTANTS p1, p2, p3

MCContent ==
    [ p \in Post |->
        CASE p = p1 -> [kind |-> "plain",  ref |-> NoPost, nsfw |-> TRUE]
          [] p = p2 -> [kind |-> "reply",  ref |-> p1, nsfw |-> FALSE]
          [] p = p3 -> [kind |-> "repost", ref |-> p1, nsfw |-> FALSE] ]

===============================================================================
