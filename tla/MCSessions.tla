------------------------------ MODULE MCSessions ------------------------------
(***************************************************************************)
(* Two requests open at a time, enough for every overlap of two.           *)
(***************************************************************************)
EXTENDS Sessions

MCToken == 1..4

================================================================================
