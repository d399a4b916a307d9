------------------------------- MODULE Sessions -------------------------------
(***************************************************************************)
(* The sessions of one account.  A login hands out a pair of tokens: an    *)
(* access token, which carries the token_version of the account, and a     *)
(* refresh token, a row that can be revoked.  Rotation trades a refresh    *)
(* token for a new pair.  Logging everything out, changing the password,   *)
(* suspending and erasing raise token_version, which ends access tokens;   *)
(* all of them but suspension revoke the refresh tokens too.               *)
(*                                                                         *)
(* A request is two actions: its reads, then its commit, which writes what *)
(* Python computed from the reads and only the columns that changed.       *)
(* Expiry takes tokens out of use and is left out: here a token may be     *)
(* used however late.  Whoever asks knows the password unless it is the    *)
(* random one of an erased account.                                        *)
(***************************************************************************)
EXTENDS Naturals, FiniteSets

CONSTANTS
    Token,       \* token pairs, issued in this order
    Concurrency, \* bound: requests open at a time
    MaxRequests  \* bound: requests in all

ASSUME SessionAssumption ==
    /\ Token \subseteq Nat \ {0}
    /\ Concurrency \in Nat \ {0} /\ MaxRequests \in Nat

NoToken == 0

VARIABLES
    status,   \* users.status, "absent" before the signup
    version,  \* users.token_version
    erased,   \* email and handle replaced, so that no login finds the account
    password, \* "known", or "random" after erasure
    profile,  \* display_name and bio: "own" or "blank"
    refresh,  \* refresh_tokens: "none", "valid" or "revoked"
    ver,      \* the version in the access token issued with it
    open,     \* requests that have read and not committed
    begun,    \* requests so far
    born,     \* history: the login a pair descends from, and the revocations
              \* and sweeps there had been when its request read the account
    epoch,    \* history: committed revocations
    sweeps,   \* history: those that revoked the refresh tokens
    left,     \* history: logins that logged out
    overlaps  \* history: kinds of overlap that have happened

row == <<status, version, erased, password, profile>>
tokens == <<refresh, ver, born>>
history == <<epoch, sweeps, left>>
vars == <<row, tokens, open, begun, history, overlaps>>

-----------------------------------------------------------------------------

Issuing   == {"signup", "login", "rotate"}
Sweeping  == {"logout_all", "change_password", "erase"}
Revoking  == Sweeping \cup {"suspend"}
Ops       == Issuing \cup Revoking \cup {"unsuspend", "update"}

Issued == {t \in Token : refresh[t] # "none"}

Valid == {t \in Token : refresh[t] = "valid"}

(* The versions of get_current_user's check.                               *)
Live == {t \in Issued : ver[t] = version}

(* get_current_user: the account is active and the version is its own.     *)
Accepted(t) == t \in Live /\ status = "active"

Init ==
    /\ status = "absent" /\ version = 0 /\ erased = FALSE
    /\ password = "known" /\ profile = "blank"
    /\ refresh = [t \in Token |-> "none"]
    /\ ver = [t \in Token |-> 0]
    /\ open = {} /\ begun = 0
    /\ born = [t \in Token |-> [login |-> t, epoch |-> 0, sweep |-> 0]]
    /\ epoch = 0 /\ sweeps = 0 /\ left = {} /\ overlaps = {}

-----------------------------------------------------------------------------
(* The reads of a request                                                  *)

(* The slot tells apart two requests that are otherwise equal.             *)
Slot == CHOOSE i \in 1..Concurrency : \A r \in open : r.slot # i

Request(op, t) ==
    [slot |-> Slot, op |-> op, token |-> t, ver |-> version, status |-> status,
     epoch |-> epoch, sweep |-> sweeps]

OverlapKinds == {"revocations", "sweep", "rotations", "logout", "profile"}

Clash(kind, a, b) ==
    LET ops == {a.op, b.op}
    IN  CASE kind = "revocations" -> ops \subseteq Revoking
          [] kind = "sweep"       -> ops \cap Issuing # {} /\ ops \cap Sweeping # {}
          [] kind = "rotations"   -> ops = {"rotate"} /\ a.token = b.token
          [] kind = "profile"     -> ops = {"update", "erase"}
          [] OTHER                -> FALSE

Begin(r) ==
    /\ Cardinality(open) < Concurrency
    /\ begun < MaxRequests
    /\ begun' = begun + 1
    /\ open' = open \cup {r}
    /\ overlaps' = overlaps \cup {k \in OverlapKinds : \E o \in open : Clash(k, o, r)}
    /\ UNCHANGED <<row, tokens, history>>

(* signup: neither the email nor the handle is taken.                      *)
SignUp == status = "absent" /\ Begin(Request("signup", NoToken))

(* login: the email is found and the password fits.                        *)
LogIn ==
    /\ status = "active" /\ ~erased /\ password = "known"
    /\ Begin(Request("login", NoToken))

(* Mutant: the row is not looked at.                                       *)
Rotate_Revoked(t) ==
    /\ t \in Issued /\ status = "active"
    /\ Begin(Request("rotate", t))

(* rotate_refresh_token up to its write.                                   *)
Rotate(t) ==
    /\ t \in Valid /\ status = "active"
    /\ Begin(Request("rotate", t))

LogOutAll(t) == Accepted(t) /\ Begin(Request("logout_all", t))

ChangePassword(t) ==
    Accepted(t) /\ password = "known" /\ Begin(Request("change_password", t))

Erase(t) == Accepted(t) /\ password = "known" /\ Begin(Request("erase", t))

UpdateProfile(t) == Accepted(t) /\ Begin(Request("update", t))

(* Two moderators' requests; who may send them is the subject of           *)
(* Moderation.                                                             *)
Suspend == status # "absent" /\ Begin(Request("suspend", NoToken))

Unsuspend == status # "absent" /\ Begin(Request("unsuspend", NoToken))

-----------------------------------------------------------------------------
(* The commits                                                             *)

Unused(t) == refresh[t] = "none" /\ \A u \in Token : u < t => refresh[u] # "none"

Finish(r) == open' = open \ {r}

(* Mutant: the version at the time of the commit.                          *)
Issue_Fresh(r, t, login, table) ==
    /\ Unused(t)
    /\ refresh' = [table EXCEPT ![t] = "valid"]
    /\ ver' = [ver EXCEPT ![t] = version]
    /\ born' = [born EXCEPT ![t] = [login |-> login, epoch |-> r.epoch, sweep |-> r.sweep]]

(* issue_token_pair: the access token carries the version that was read.   *)
Issue(r, t, login, table) ==
    /\ Unused(t)
    /\ refresh' = [table EXCEPT ![t] = "valid"]
    /\ ver' = [ver EXCEPT ![t] = r.ver]
    /\ born' = [born EXCEPT ![t] = [login |-> login, epoch |-> r.epoch, sweep |-> r.sweep]]

(* The unique email and handle let one signup in and make the other fail.  *)
CommitSignUp(r, t) ==
    /\ r.op = "signup"
    /\ Finish(r)
    /\ IF status = "absent"
       THEN /\ status' = "active" /\ profile' = "own"
            /\ Issue(r, t, t, refresh)
            /\ UNCHANGED <<version, erased, password>>
       ELSE UNCHANGED <<row, tokens>>
    /\ UNCHANGED <<begun, history, overlaps>>

CommitLogIn(r, t) ==
    /\ r.op = "login"
    /\ Finish(r)
    /\ Issue(r, t, t, refresh)
    /\ UNCHANGED <<row, begun, history, overlaps>>

(* Mutant: the old token stays valid.                                      *)
CommitRotate_Keeps(r, t) ==
    /\ r.op = "rotate"
    /\ Finish(r)
    /\ Issue(r, t, born[r.token].login, refresh)
    /\ UNCHANGED <<row, begun, history, overlaps>>

(* The old token is revoked and the new pair inserted in one commit; the   *)
(* row is not looked at again.                                             *)
CommitRotate(r, t) ==
    /\ r.op = "rotate"
    /\ Finish(r)
    /\ Issue(r, t, born[r.token].login, [refresh EXCEPT ![r.token] = "revoked"])
    /\ UNCHANGED <<row, begun, history, overlaps>>

(* logout: revoke_refresh_token selects the row and then writes it.  If    *)
(* the token was revoked in between, the write changes nothing and is left *)
(* out; else nothing has changed that it goes by, and the two are one      *)
(* action.  No access token is asked for.                                  *)
LogOut(t) ==
    /\ t \in Valid
    /\ refresh' = [refresh EXCEPT ![t] = "revoked"]
    /\ left' = left \cup {born[t].login}
    /\ overlaps' = overlaps \cup
          {k \in {"logout"} : \E r \in open : r.op = "rotate" /\ r.token = t}
    /\ UNCHANGED <<row, ver, born, open, begun, epoch, sweeps>>

(* token_version += 1 in Python.                                           *)
Revoke(r) == version' = r.ver + 1 /\ epoch' = epoch + 1

(* Mutant: the token that asks is spared.                                  *)
Sweep_Spares(r) ==
    /\ refresh' = [t \in Token |-> IF t \in Valid \ {r.token} THEN "revoked" ELSE refresh[t]]
    /\ sweeps' = sweeps + 1

(* revoke_all_refresh_tokens.                                              *)
Sweep(r) ==
    /\ refresh' = [t \in Token |-> IF t \in Valid THEN "revoked" ELSE refresh[t]]
    /\ sweeps' = sweeps + 1

CommitLogOutAll(r) ==
    /\ r.op = "logout_all"
    /\ Finish(r)
    /\ Revoke(r) /\ Sweep(r)
    /\ UNCHANGED <<status, erased, password, profile, ver, born, begun, left, overlaps>>

CommitChangePassword(r) ==
    /\ r.op = "change_password"
    /\ Finish(r)
    /\ Revoke(r) /\ Sweep(r)
    /\ password' = "known"
    /\ UNCHANGED <<status, erased, profile, ver, born, begun, left, overlaps>>

(* Mutant: the display name is forgotten.                                  *)
CommitErase_KeepsProfile(r) ==
    /\ r.op = "erase"
    /\ Finish(r)
    /\ Revoke(r) /\ Sweep(r)
    /\ erased' = TRUE /\ password' = "random"
    /\ UNCHANGED <<status, profile, ver, born, begun, left, overlaps>>

(* erase_me; the posts are the subject of PostPipeline's Delete.  The      *)
(* account stays active.                                                   *)
CommitErase(r) ==
    /\ r.op = "erase"
    /\ Finish(r)
    /\ Revoke(r) /\ Sweep(r)
    /\ erased' = TRUE /\ password' = "random" /\ profile' = "blank"
    /\ UNCHANGED <<status, ver, born, begun, left, overlaps>>

CommitUpdate(r) ==
    /\ r.op = "update"
    /\ Finish(r)
    /\ profile' = "own"
    /\ UNCHANGED <<status, version, erased, password, tokens, begun, history, overlaps>>

(* A column whose value did not change is not written.                     *)
Written(read, new, now) == IF read = new THEN now ELSE new

CommitSuspend(r) ==
    /\ r.op = "suspend"
    /\ Finish(r)
    /\ Revoke(r)
    /\ status' = Written(r.status, "suspended", status)
    /\ UNCHANGED <<erased, password, profile, tokens, begun, sweeps, left, overlaps>>

(* Mutant: unsuspension undoes all of the suspension.                      *)
CommitUnsuspend_Restores(r) ==
    /\ r.op = "unsuspend"
    /\ Finish(r)
    /\ status' = Written(r.status, "active", status)
    /\ version' = IF r.ver > 0 THEN r.ver - 1 ELSE 0
    /\ UNCHANGED <<erased, password, profile, tokens, begun, history, overlaps>>

CommitUnsuspend(r) ==
    /\ r.op = "unsuspend"
    /\ Finish(r)
    /\ status' = Written(r.status, "active", status)
    /\ UNCHANGED <<version, erased, password, profile, tokens, begun, history, overlaps>>

-----------------------------------------------------------------------------

Next ==
    \/ SignUp \/ LogIn \/ Suspend \/ Unsuspend
    \/ \E t \in Token :
          \/ Rotate(t) \/ LogOut(t) \/ LogOutAll(t) \/ ChangePassword(t) \/ Erase(t)
          \/ UpdateProfile(t)
    \/ \E r \in open :
          \/ \E t \in Token : CommitSignUp(r, t) \/ CommitLogIn(r, t) \/ CommitRotate(r, t)
          \/ CommitLogOutAll(r) \/ CommitChangePassword(r) \/ CommitErase(r)
          \/ CommitUpdate(r) \/ CommitSuspend(r) \/ CommitUnsuspend(r)

Spec == Init /\ [][Next]_vars

-----------------------------------------------------------------------------
(* Properties                                                              *)

(* Every variable stays in its range.                                      *)
TypeOK ==
    /\ status \in {"absent", "active", "suspended"}
    /\ version \in Nat
    /\ erased \in BOOLEAN
    /\ password \in {"known", "random"} /\ profile \in {"own", "blank"}
    /\ refresh \in [Token -> {"none", "valid", "revoked"}]
    /\ ver \in [Token -> Nat]
    /\ \A r \in open :
          /\ r.op \in Ops /\ r.token \in Token \cup {NoToken}
          /\ r.status \in {"absent", "active", "suspended"}
          /\ r.ver \in Nat /\ r.epoch \in Nat /\ r.sweep \in Nat
    /\ begun \in 0..MaxRequests
    /\ born \in [Token -> [login : Token, epoch : Nat, sweep : Nat]]
    /\ epoch \in Nat /\ sweeps \in Nat
    /\ left \subseteq Token /\ overlaps \subseteq OverlapKinds

(* As long as no two revocations of the account overlap, an access token   *)
(* is accepted only if nothing was revoked since the request that issued   *)
(* it read the account: no login or rotation that straddles a logout-all,  *)
(* a change of password, a suspension or an erasure smuggles a session     *)
(* through (get_current_user's comparison of versions).                    *)
AccessEndsWithRevocation ==
    "revocations" \notin overlaps => \A t \in Live : born[t].epoch = epoch

(* As long as no login, signup or rotation overlaps a sweep, no refresh    *)
(* token survives one, whichever rotations it descends from.               *)
SweepEndsSessions ==
    "sweep" \notin overlaps => \A t \in Valid : born[t].sweep = sweeps

(* As long as no two rotations of one token overlap, a login has at most   *)
(* one refresh token in use: rotation moves a session, it does not copy    *)
(* it (rotate_refresh_token writes revoked_at and the new row together).   *)
OneSessionPerLogin ==
    "rotations" \notin overlaps =>
        \A t, u \in Valid : born[t].login = born[u].login => t = u

(* A session that logged out is not carried on by a later rotation, unless *)
(* the rotation was under way.                                             *)
LoggedOutStaysOut ==
    overlaps \cap {"rotations", "logout"} = {} =>
        \A t \in Valid : born[t].login \notin left

(* Erasure leaves nothing behind, if nothing overlaps it: no token works,  *)
(* nobody can log in, and no personal data returns to the profile, by any  *)
(* sequence of requests of old devices and moderators.                     *)
ErasedLeavesNothing ==
    erased /\ overlaps \cap {"sweep", "revocations", "profile"} = {} =>
        /\ Valid = {} /\ ~\E t \in Token : Accepted(t)
        /\ password = "random" /\ profile = "blank"

Promise == INSTANCE SessionPromise WITH
    live <- Live, ended <- Issued \ Live, void <- "revocations" \in overlaps

(* The version numbers implement the promise that ended sessions never     *)
(* resume, until two revocations overlap.                                  *)
ImplementsPromise == Promise!Spec

================================================================================
