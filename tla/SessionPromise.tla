---------------------------- MODULE SessionPromise ----------------------------
(***************************************************************************)
(* What token_version promises, with no transaction and no version number  *)
(* in it: logging everything out, changing the password, suspending and    *)
(* erasing end every session of the account, and an ended session never    *)
(* resumes.  The promise is void once two of these overlap: from then on   *)
(* anything may be accepted.  Sessions is shown to implement this module.  *)
(***************************************************************************)
CONSTANT Token

VARIABLES
    live,  \* tokens that would be accepted from an active account
    ended, \* tokens of sessions that have ended
    void

promiseVars == <<live, ended, void>>

Init == live = {} /\ ended = {} /\ void = FALSE

(* A session begins, or was ended before it began.                         *)
Begin(t) ==
    /\ t \notin live \cup ended
    /\ \/ live' = live \cup {t} /\ UNCHANGED ended
       \/ ended' = ended \cup {t} /\ UNCHANGED live
    /\ UNCHANGED void

EndAll ==
    /\ ended' = ended \cup live
    /\ live' = {}
    /\ UNCHANGED void

Void == void' = TRUE /\ UNCHANGED <<live, ended>>

Anything ==
    /\ void /\ UNCHANGED void
    /\ live' \in SUBSET Token /\ ended' \in SUBSET Token

Next == (\E t \in Token : Begin(t)) \/ EndAll \/ Void \/ Anything

Spec == Init /\ [][Next]_promiseVars

===============================================================================
