----------------------------- MODULE MCProfileLists -----------------------------
(***************************************************************************)
(* Two posts for everybody, one for followers and a reply; the smallest    *)
(* pages, so that there are several.                                       *)
(***************************************************************************)
EXTENDS ProfileLists

================================================================================
