---------------------------- MODULE MCAccountHealth ----------------------------
(***************************************************************************)
(* Three posts, so that one viewer alone can reach the three signals that  *)
(* MIN_SIGNALS_FOR_SPAM asks for.                                          *)
(***************************************************************************)
EXTENDS AccountHealth, TLC

Thousandths(n) == <<0, 693, 1099, 1386, 1609, 1792, 1946, 2079, 2197>>[n + 1]

MCLog1p == [n \in Counts |-> Thousandths(n)]

Symmetry == Permutations(Viewer) \cup Permutations(Post)

================================================================================
