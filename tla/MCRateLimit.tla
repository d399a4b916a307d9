------------------------------ MODULE MCRateLimit ------------------------------
(***************************************************************************)
(* Three requests at a time against a limit of two.                        *)
(***************************************************************************)
EXTENDS RateLimit

CONSTANTS r1, r2, r3

MCClient == {r1, r2, r3}

================================================================================
