----------------------------- MODULE MCModeration -----------------------------
(***************************************************************************)
(* An admin, a moderator and a user, and one row of everything else.       *)
(***************************************************************************)
EXTENDS Moderation

CONSTANTS root, mod, user

MCInitialRole == root :> "admin" @@ mod :> "moderator" @@ user :> "user"

================================================================================
