----------------------------- MODULE MCEngagement -----------------------------
(***************************************************************************)
(* Two replies or reposts by one account; that account and another like.   *)
(***************************************************************************)
EXTENDS Engagement, TLC

CONSTANTS ann, bob

OneOwner == [c \in Child |-> ann]

(* The two children are interchangeable in a safety run.                   *)
ChildSymmetry == Permutations(Child)

===============================================================================
