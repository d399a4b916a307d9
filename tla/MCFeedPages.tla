------------------------------ MODULE MCFeedPages ------------------------------
(***************************************************************************)
(* Four posts of two authors: an old root with a reply, NSFW and for       *)
(* followers, and a reply to the reply, and a new root that quotes the old *)
(* one.                                                                    *)
(***************************************************************************)
EXTENDS FeedPages

CONSTANTS ann, bob, word

Plain(author, parent, root) ==
    [author |-> author, parent |-> parent, root |-> root, refersTo |-> NoPost, repost |-> FALSE,
     words |-> {}, labels |-> {}, old |-> FALSE, followersOnly |-> FALSE]

MCContent ==
    << [Plain(ann, NoPost, NoPost) EXCEPT !.old = TRUE, !.words = {word}],
       [Plain(bob, 1, 1) EXCEPT !.labels = {"nsfw"}, !.followersOnly = TRUE],
       Plain(ann, 2, 1),
       [Plain(ann, NoPost, NoPost) EXCEPT !.refersTo = 1] >>

================================================================================
