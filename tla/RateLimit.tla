------------------------------- MODULE RateLimit -------------------------------
(***************************************************************************)
(* The fixed-window limit of one action for one identity: one key in Redis *)
(* that counts requests and expires.  INCR and EXPIRE are two commands,    *)
(* only the request that created the key sends the second, and a request   *)
(* whose command fails is let through.                                     *)
(*                                                                         *)
(* The code compares the count with 1 and with the limit only, so it is    *)
(* counted up to Cap and no further.                                       *)
(***************************************************************************)
EXTENDS Naturals

CONSTANTS
    Client,    \* requests that may be in the dependency at a time
    Limit,
    MaxErrors  \* bound: failing INCRs in one window

ASSUME LimitAssumption ==
    /\ Limit \in Nat \ {0}
    /\ MaxErrors \in Nat

Cap == Limit + 1

VARIABLES
    count,    \* value of the key, 0 while there is no key
    timed,    \* has the key an expiry?
    expiring, \* requests that got 1 from INCR and have EXPIRE to send
    through,  \* history: requests let through since the key appeared
    unseen,   \* history: those of them whose INCR failed
    orphaned  \* history: did a failure leave the key without its expiry?

limitVars == <<count, timed, expiring, through, unseen, orphaned>>

LimitInit ==
    /\ count = 0 /\ timed = FALSE /\ expiring = {}
    /\ through = 0 /\ unseen = 0 /\ orphaned = FALSE

-----------------------------------------------------------------------------

Counted == IF count < Cap THEN count + 1 ELSE Cap

(* Mutants of Passes: one too many; one too few.                           *)
Passes_OneMore(n) == n <= Limit + 1

Passes_OneLess(n) == n < Limit

(* _check refuses when count > limit.                                      *)
Passes(n) == n <= Limit

(* Mutant: the second request sets the expiry.                             *)
Creates_Second(n) == n = 2

(* count == 1: this request created the key.                               *)
Creates(n) == n = 1

Let == through' = through + 1

(* INCR.  The request is decided, whatever becomes of its EXPIRE; a        *)
(* refused one was counted all the same.                                   *)
Incr(c) ==
    /\ c \notin expiring
    /\ count' = Counted
    /\ expiring' = IF Creates(Counted) THEN expiring \cup {c} ELSE expiring
    /\ IF Passes(Counted) THEN Let ELSE UNCHANGED through
    /\ UNCHANGED <<timed, unseen, orphaned>>

(* EXPIRE; on a key that is gone it does nothing.                          *)
Expire(c) ==
    /\ c \in expiring
    /\ expiring' = expiring \ {c}
    /\ timed' = (count > 0)
    /\ orphaned' = FALSE
    /\ UNCHANGED <<count, through, unseen>>

(* An error or a timeout of INCR, which may have been executed: the        *)
(* request passes, and nobody sends the EXPIRE of a key created so.        *)
IncrFails(c) ==
    /\ c \notin expiring
    /\ unseen < MaxErrors
    /\ \/ UNCHANGED <<count, orphaned>>
       \/ count' = Counted /\ orphaned' = (orphaned \/ Creates(Counted))
    /\ unseen' = unseen + 1
    /\ Let
    /\ UNCHANGED <<timed, expiring>>

(* EXPIRE is not executed: an error, or the process died before.           *)
ExpireFails(c) ==
    /\ c \in expiring
    /\ expiring' = expiring \ {c}
    /\ orphaned' = (orphaned \/ (count > 0 /\ ~timed))
    /\ UNCHANGED <<count, timed, through, unseen>>

KeyGone ==
    /\ count' = 0 /\ timed' = FALSE
    /\ through' = 0 /\ unseen' = 0 /\ orphaned' = FALSE
    /\ UNCHANGED expiring

(* The window is over.                                                     *)
WindowEnds == timed /\ KeyGone

(* Redis restarts empty, which the operations guide allows.                *)
RedisRestarts == count > 0 /\ KeyGone

LimitNext ==
    \/ \E c \in Client : Incr(c) \/ Expire(c) \/ IncrFails(c) \/ ExpireFails(c)
    \/ WindowEnds
    \/ RedisRestarts

LimitSpec == LimitInit /\ [][LimitNext]_limitVars

(* A request goes on to its EXPIRE, in vain or not, and Redis removes what *)
(* has expired; nobody is obliged to make requests.                        *)
LimitFairSpec ==
    /\ LimitSpec
    /\ \A c \in Client : WF_limitVars(Expire(c) \/ ExpireFails(c))
    /\ WF_limitVars(WindowEnds)

-----------------------------------------------------------------------------
(* Properties                                                              *)

(* Every variable stays in its range.                                      *)
LimitTypeOK ==
    /\ count \in 0..Cap
    /\ timed \in BOOLEAN /\ orphaned \in BOOLEAN
    /\ expiring \subseteq Client
    /\ through \in Nat
    /\ unseen \in 0..MaxErrors

(* No window lets more through than the limit and the requests that failed *)
(* open, however INCRs, EXPIREs and restarts of Redis interleave.          *)
WindowBound == through <= Limit + unseen

(* A key always has an expiry or somebody about to set it, unless a        *)
(* failure fell between INCR and EXPIRE (_incr_with_expire).               *)
ExpiryAssured == count > 0 /\ ~orphaned => timed \/ expiring # {}

(* Nobody is refused early: when requests are refused, as many as the      *)
(* limit have been let through in this window; refusals, which are counted *)
(* too, do not use the limit up.                                           *)
NotRefusedEarly == count > Limit => through >= Limit

(* The limit is temporary: a key that counts disappears in the end, and    *)
(* requests pass again, unless a failure left it without expiry.           *)
EveryWindowEnds == count > 0 ~> (count = 0 \/ orphaned)

================================================================================
