------------------------------ MODULE MCFeedCache ------------------------------
(***************************************************************************)
(* The posts of one author, and another account.                           *)
(***************************************************************************)
EXTENDS FeedCache

CONSTANTS ann, bob

OneAuthor == [p \in 1..NPosts |-> ann]

================================================================================
