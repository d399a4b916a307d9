----------------------------- MODULE AccessProofs -----------------------------
(***************************************************************************)
(* What guards the requests: the sessions, and the limits on their number. *)
(*                                                                         *)
(* The promises of Sessions hold for any number of tokens, requests and    *)
(* overlaps.  Each is stated as long as no overlap of its own kind has     *)
(* happened, and the invariant behind it says what the requests that are   *)
(* still open have read.                                                   *)
(*                                                                         *)
(* The bounds of RateLimit hold for every limit and every number of        *)
(* requests at a time.  What makes them inductive is how the requests let  *)
(* through follow the count: they are as many, up to the limit, but for    *)
(* those whose INCR failed.                                                *)
(***************************************************************************)
EXTENDS Sessions, RateLimit, TLAPS

(* A request holds a token that was issued, and the account exists, unless *)
(* it is about to.                                                         *)
RequestsOK ==
    \A r \in open :
        /\ r.op = "rotate" => r.token \in Issued
        /\ r.op # "signup" => status # "absent"

(* A login is known by the first token it issued.                          *)
LoginsOK ==
    /\ \A u \in Issued : born[u].login \in Issued
    /\ left \subseteq Issued

(* Versions count revocations, in the account, in the tokens and in what   *)
(* the open requests have read; a revocation under way has read the latest.*)
Versions ==
    "revocations" \notin overlaps =>
        /\ version = epoch
        /\ \A t \in Issued : ver[t] = born[t].epoch /\ ver[t] <= version
        /\ \A r \in open : r.ver = r.epoch /\ r.ver <= version
        /\ \A r \in open : r.op \in Revoking => r.ver = version
        /\ \A r, s \in open : r.op \in Revoking /\ s.op \in Revoking => r = s

(* A request that will issue a token has seen every sweep.                 *)
Sweeps ==
    "sweep" \notin overlaps =>
        /\ \A t \in Valid : born[t].sweep = sweeps
        /\ \A r \in open : r.op \in Issuing => r.sweep = sweeps
        /\ \A r, s \in open : ~(r.op \in Issuing /\ s.op \in Sweeping)

(* A login has one refresh token, or one rotation of it under way.         *)
Moves ==
    "rotations" \notin overlaps =>
        /\ \A t, u \in Valid : born[t].login = born[u].login => t = u
        /\ \A r \in open : r.op = "rotate" =>
              \A u \in Valid : born[u].login = born[r.token].login => u = r.token
        /\ \A r, s \in open :
              r.op = "rotate" /\ s.op = "rotate" /\ r # s =>
                  born[r.token].login # born[s.token].login

(* Nothing carries on a login that logged out, nor is about to.            *)
Departed ==
    overlaps \cap {"rotations", "logout"} = {} =>
        /\ \A t \in Valid : born[t].login \notin left
        /\ \A r \in open : r.op = "rotate" => born[r.token].login \notin left

(* No update of the profile is under way beside an erasure.                *)
Profiles ==
    "profile" \notin overlaps =>
        \A r, s \in open : ~(r.op = "erase" /\ s.op = "update")

(* What could bring an erased account back is not under way.               *)
Erasure ==
    erased /\ overlaps \cap {"sweep", "revocations", "profile"} = {} =>
        /\ Valid = {} /\ Live = {}
        /\ password = "random" /\ profile = "blank" /\ status # "absent"
        /\ \A r \in open : r.op \notin Issuing \cup Sweeping \cup {"update"}

IInv ==
    /\ TypeOK /\ RequestsOK /\ LoginsOK
    /\ Versions /\ Sweeps /\ Moves /\ Departed /\ Profiles /\ Erasure

-------------------------------------------------------------------------------
(* The shapes of the steps                                                 *)

(* The reads of a request r.                                               *)
Opens(r) ==
    /\ Begin(r)
    /\ r.op \in Ops /\ r.token \in Token \cup {NoToken}
    /\ r.ver = version /\ r.status = status /\ r.epoch = epoch /\ r.sweep = sweeps
    /\ r.op = "signup" <=> status = "absent"
    /\ r.op = "login" => ~erased
    /\ r.op = "rotate" => r.token \in Valid
    /\ r.op \in Sweeping \cup {"update"} => r.token \in Live

(* The token a request spends, and the login its new token belongs to.     *)
Spent(r) == IF r.op = "rotate" THEN {r.token} ELSE {}

LoginOf(r, t) == IF r.op = "rotate" THEN born[r.token].login ELSE t

TableOf(r) == IF r.op = "rotate" THEN [refresh EXCEPT ![r.token] = "revoked"] ELSE refresh

(* The commit of a request r that issues t.                                *)
Issues(r, t) ==
    /\ r \in open /\ r.op \in Issuing /\ t \in Token
    /\ Finish(r)
    /\ Issue(r, t, LoginOf(r, t), TableOf(r))
    /\ status' \in {status, "active"} /\ profile' \in {profile, "own"}
    /\ UNCHANGED <<version, erased, password, begun, history, overlaps>>

(* The commit of a request that issues and revokes nothing.                *)
Settles(r) ==
    /\ r \in open
    /\ Finish(r)
    /\ status' \in {status, "active", "suspended"}
    /\ profile' = IF r.op = "update" THEN "own" ELSE profile
    /\ UNCHANGED <<version, erased, password, tokens, begun, history, overlaps>>

(* The commit of a request that revokes; whether it sweeps or not.         *)
Ends(r) ==
    /\ r \in open /\ r.op \in Revoking
    /\ Finish(r)
    /\ Revoke(r)
    /\ IF r.op = "suspend" THEN UNCHANGED <<refresh, sweeps, erased, password>> ELSE Sweep(r)
    /\ status' \in {status, "suspended"}
    /\ password' \in {"known", "random"} /\ profile' \in {"own", "blank"} /\ erased' \in BOOLEAN
    /\ erased' = (erased \/ r.op = "erase")
    /\ r.op = "erase" => password' = "random" /\ profile' = "blank"
    /\ r.op # "erase" => profile' = profile
    /\ UNCHANGED <<ver, born, begun, left, overlaps>>

(* Every step has one of the shapes, or is a logout.                       *)
LEMMA Shapes ==
    ASSUME IInv, Next
    PROVE  \/ \E r : Opens(r)
           \/ \E r \in open, t \in Token : Issues(r, t)
           \/ \E r \in open : Settles(r)
           \/ \E r \in open : Ends(r)
           \/ \E t \in Token : LogOut(t)
<1> USE DEF IInv
<1>1. CASE SignUp
  <2>1. Opens(Request("signup", NoToken))
    BY <1>1 DEF SignUp, Opens, Request, Ops, Issuing, Sweeping, Revoking
  <2>2. QED
    BY <2>1
<1>2. CASE LogIn
  <2>1. Opens(Request("login", NoToken))
    BY <1>2 DEF LogIn, Opens, Request, Ops, Issuing, Sweeping, Revoking
  <2>2. QED
    BY <2>1
<1>3. CASE Suspend
  <2>1. Opens(Request("suspend", NoToken))
    BY <1>3 DEF Suspend, Opens, Request, Ops, Issuing, Sweeping, Revoking
  <2>2. QED
    BY <2>1
<1>4. CASE Unsuspend
  <2>1. Opens(Request("unsuspend", NoToken))
    BY <1>4 DEF Unsuspend, Opens, Request, Ops, Issuing, Sweeping, Revoking
  <2>2. QED
    BY <2>1
<1>5. ASSUME NEW t \in Token, Rotate(t)
      PROVE  \E r : Opens(r)
  <2>1. Opens(Request("rotate", t))
    BY <1>5 DEF Rotate, Opens, Request, Ops, Issuing, Sweeping, Revoking
  <2>2. QED
    BY <2>1
<1>6. ASSUME NEW t \in Token, LogOutAll(t)
      PROVE  \E r : Opens(r)
  <2>1. Opens(Request("logout_all", t))
    BY <1>6 DEF LogOutAll, Accepted, Opens, Request, Ops, Issuing, Sweeping, Revoking
  <2>2. QED
    BY <2>1
<1>7. ASSUME NEW t \in Token, ChangePassword(t)
      PROVE  \E r : Opens(r)
  <2>1. Opens(Request("change_password", t))
    BY <1>7 DEF ChangePassword, Accepted, Opens, Request, Ops, Issuing, Sweeping, Revoking
  <2>2. QED
    BY <2>1
<1>8. ASSUME NEW t \in Token, Erase(t)
      PROVE  \E r : Opens(r)
  <2>1. Opens(Request("erase", t))
    BY <1>8 DEF Erase, Accepted, Opens, Request, Ops, Issuing, Sweeping, Revoking
  <2>2. QED
    BY <2>1
<1>9. ASSUME NEW t \in Token, UpdateProfile(t)
      PROVE  \E r : Opens(r)
  <2>1. Opens(Request("update", t))
    BY <1>9 DEF UpdateProfile, Accepted, Opens, Request, Ops, Issuing, Sweeping, Revoking
  <2>2. QED
    BY <2>1
<1>10. ASSUME NEW r \in open, NEW t \in Token, CommitSignUp(r, t)
       PROVE  Issues(r, t) \/ Settles(r)
  <2>1. CASE status = "absent"
    BY <1>10, <2>1 DEF CommitSignUp, Issues, Issuing, LoginOf, TableOf
  <2>2. CASE status # "absent"
    BY <1>10, <2>2 DEF CommitSignUp, Settles, row, tokens
  <2>3. QED
    BY <2>1, <2>2
<1>11. ASSUME NEW r \in open, NEW t \in Token, CommitLogIn(r, t)
       PROVE  Issues(r, t)
  BY <1>11 DEF CommitLogIn, Issues, Issuing, LoginOf, TableOf, row
<1>12. ASSUME NEW r \in open, NEW t \in Token, CommitRotate(r, t)
       PROVE  Issues(r, t)
  BY <1>12 DEF CommitRotate, Issues, Issuing, LoginOf, TableOf, row
<1>13. ASSUME NEW r \in open, CommitUpdate(r) \/ CommitUnsuspend(r)
       PROVE  Settles(r)
  <2>1. CASE CommitUpdate(r)
    BY <2>1 DEF CommitUpdate, Settles
  <2>2. CASE CommitUnsuspend(r)
    BY <2>2 DEF CommitUnsuspend, Written, Settles
  <2>3. QED
    BY <1>13, <2>1, <2>2
<1>14. ASSUME NEW r \in open,
              \/ CommitLogOutAll(r) \/ CommitChangePassword(r)
              \/ CommitErase(r) \/ CommitSuspend(r)
       PROVE  Ends(r)
  <2>1. CASE CommitLogOutAll(r)
    BY <2>1 DEF TypeOK, CommitLogOutAll, Ends, Revoking, Sweeping
  <2>2. CASE CommitChangePassword(r)
    BY <2>2 DEF TypeOK, CommitChangePassword, Ends, Revoking, Sweeping
  <2>3. CASE CommitErase(r)
    BY <2>3 DEF TypeOK, CommitErase, Ends, Revoking, Sweeping
  <2>4. CASE CommitSuspend(r)
    BY <2>4 DEF TypeOK, CommitSuspend, Written, Ends, Revoking, tokens
  <2>5. QED
    BY <1>14, <2>1, <2>2, <2>3, <2>4
<1>15. QED
  BY <1>1, <1>2, <1>3, <1>4, <1>5, <1>6, <1>7, <1>8, <1>9, <1>10, <1>11, <1>12, <1>13, <1>14
     DEF Next

-------------------------------------------------------------------------------
(* What the steps do to the tokens                                         *)

(* A token is issued for the first time, the one it replaces is revoked in *)
(* the same commit, and the others stay as they are (issue_token_pair,     *)
(* rotate_refresh_token).                                                  *)
LEMMA IssueFacts ==
    ASSUME IInv, NEW r \in open, NEW t \in Token, Issues(r, t)
    PROVE  /\ t \notin Issued /\ t \in Issued'
           /\ Issued' = Issued \cup {t}
           /\ Valid' = (Valid \ Spent(r)) \cup {t}
           /\ LoginOf(r, t) \in Token
           /\ refresh' \in [Token -> {"none", "valid", "revoked"}]
           /\ \A u \in Issued : ver'[u] = ver[u] /\ born'[u] = born[u]
           /\ ver'[t] = r.ver /\ born'[t].login = LoginOf(r, t)
           /\ born'[t].epoch = r.epoch /\ born'[t].sweep = r.sweep
<1>1. t \in Token /\ refresh[t] = "none" /\ t \notin Issued
  BY DEF Issues, Issue, Unused, Issued
<1>2. /\ refresh \in [Token -> {"none", "valid", "revoked"}]
      /\ ver \in [Token -> Nat]
      /\ born \in [Token -> [login : Token, epoch : Nat, sweep : Nat]]
  BY DEF IInv, TypeOK
<1>3. r.op = "rotate" => r.token \in Issued /\ r.token \in Token
  BY DEF IInv, RequestsOK, Issued
<1>4. TableOf(r) \in [Token -> {"none", "valid", "revoked"}] /\ LoginOf(r, t) \in Token
  BY <1>1, <1>2, <1>3 DEF LoginOf, TableOf
<1>5. /\ refresh' = [TableOf(r) EXCEPT ![t] = "valid"]
      /\ ver' = [ver EXCEPT ![t] = r.ver]
      /\ born' = [born EXCEPT ![t] = [login |-> LoginOf(r, t), epoch |-> r.epoch, sweep |-> r.sweep]]
  BY DEF Issues, Issue
<1>6. /\ ver'[t] = r.ver
      /\ born'[t].login = LoginOf(r, t) /\ born'[t].epoch = r.epoch /\ born'[t].sweep = r.sweep
      /\ \A u \in Issued : ver'[u] = ver[u] /\ born'[u] = born[u]
  BY <1>1, <1>2, <1>5 DEF Issued
<1>7. \A u \in Token : refresh'[u] = IF u = t THEN "valid"
                                    ELSE IF u \in Spent(r) THEN "revoked" ELSE refresh[u]
  <2>1. CASE r.op # "rotate"
    BY <2>1, <1>1, <1>2, <1>5 DEF Spent, TableOf
  <2>2. CASE r.op = "rotate"
    BY <2>2, <1>1, <1>2, <1>3, <1>5 DEF Spent, TableOf
  <2>3. QED
    BY <2>1, <2>2
<1>8. Issued' = Issued \cup {t}
  BY <1>1, <1>3, <1>7 DEF Issued, Spent
<1>9. Valid' = (Valid \ Spent(r)) \cup {t}
  BY <1>1, <1>7 DEF Valid
<1>10. QED
  BY <1>1, <1>2, <1>4, <1>5, <1>6, <1>8, <1>9

(* A revocation leaves no token of the present version, and with a sweep   *)
(* no valid one (revoke_all_refresh_tokens).                               *)
LEMMA EndFacts ==
    ASSUME IInv, NEW r \in open, Ends(r)
    PROVE  /\ Issued' = Issued
           /\ Valid' = IF r.op = "suspend" THEN Valid ELSE {}
           /\ refresh' \in [Token -> {"none", "valid", "revoked"}]
           /\ "revocations" \notin overlaps => version' = version + 1 /\ Live' = {}
<1>1. refresh \in [Token -> {"none", "valid", "revoked"}]
  BY DEF IInv, TypeOK
<1>2. /\ Issued' = Issued
      /\ Valid' = IF r.op = "suspend" THEN Valid ELSE {}
      /\ refresh' \in [Token -> {"none", "valid", "revoked"}]
  <2>1. CASE r.op = "suspend"
    BY <2>1, <1>1 DEF Ends, Issued, Valid
  <2>2. CASE r.op # "suspend"
    BY <2>2, <1>1 DEF Ends, Sweep, Issued, Valid
  <2>3. QED
    BY <2>1, <2>2
<1>3. ASSUME "revocations" \notin overlaps
      PROVE  version' = version + 1 /\ Live' = {}
  <2>1. r.ver = version /\ version \in Nat /\ ver \in [Token -> Nat] /\ ver' = ver
    BY <1>3 DEF IInv, TypeOK, Versions, Ends
  <2>2. version' = version + 1
    BY <2>1 DEF Ends, Revoke
  <2>3. \A t \in Issued : t \in Token /\ ver[t] <= version
    BY <1>3 DEF IInv, Versions, Issued
  <2>4. QED
    BY <1>2, <2>1, <2>2, <2>3 DEF Live
<1>4. QED
  BY <1>2, <1>3

(* A logout revokes one valid token.                                       *)
LEMMA LogOutFacts ==
    ASSUME IInv, NEW t \in Token, LogOut(t)
    PROVE  /\ Issued' = Issued
           /\ t \in Valid /\ Valid' = Valid \ {t}
           /\ refresh' \in [Token -> {"none", "valid", "revoked"}]
<1>1. refresh \in [Token -> {"none", "valid", "revoked"}]
  BY DEF IInv, TypeOK
<1>2. QED
  BY <1>1 DEF LogOut, Issued, Valid

-------------------------------------------------------------------------------
(* The parts of the invariant, one after the other                         *)

(* Each step keeps the variables in their ranges.                          *)
LEMMA TypeStep ==
    ASSUME IInv, Next
    PROVE  TypeOK'
<1>1. ASSUME NEW r, Opens(r)
      PROVE  TypeOK'
  <2>1. begun' \in 0..MaxRequests
    BY <1>1, SessionAssumption DEF IInv, TypeOK, Opens, Begin
  <2>2. overlaps' \subseteq OverlapKinds
    BY <1>1 DEF IInv, TypeOK, Opens, Begin
  <2>3. /\ version \in Nat /\ epoch \in Nat /\ sweeps \in Nat
        /\ status \in {"absent", "active", "suspended"}
    BY DEF IInv, TypeOK
  <2>4. \A o \in open' :
           /\ o.op \in Ops /\ o.token \in Token \cup {NoToken}
           /\ o.status \in {"absent", "active", "suspended"}
           /\ o.ver \in Nat /\ o.epoch \in Nat /\ o.sweep \in Nat
    BY <1>1, <2>3 DEF IInv, TypeOK, Opens, Begin
  <2>5. QED
    BY <1>1, <2>1, <2>2, <2>4 DEF IInv, TypeOK, Opens, Begin, row, tokens, history
<1>2. ASSUME NEW r \in open, NEW t \in Token, Issues(r, t)
      PROVE  TypeOK'
  <2>1. LoginOf(r, t) \in Token /\ refresh' \in [Token -> {"none", "valid", "revoked"}]
    BY <1>2, IssueFacts
  <2>2. ver' \in [Token -> Nat] /\ born' \in [Token -> [login : Token, epoch : Nat, sweep : Nat]]
    BY <1>2, <2>1 DEF IInv, TypeOK, Issues, Issue
  <2>3. /\ status' \in {"absent", "active", "suspended"} /\ profile' \in {"own", "blank"}
        /\ open' \subseteq open
    BY <1>2 DEF IInv, TypeOK, Issues, Finish
  <2>4. QED
    BY <1>2, <2>1, <2>2, <2>3 DEF IInv, TypeOK, Issues, history
<1>3. ASSUME NEW r \in open, Settles(r)
      PROVE  TypeOK'
  <2>1. /\ status' \in {"absent", "active", "suspended"} /\ profile' \in {"own", "blank"}
        /\ open' \subseteq open
    BY <1>3 DEF IInv, TypeOK, Settles, Finish
  <2>2. QED
    BY <1>3, <2>1 DEF IInv, TypeOK, Settles, tokens, history
<1>4. ASSUME NEW r \in open, Ends(r)
      PROVE  TypeOK'
  <2>1. refresh' \in [Token -> {"none", "valid", "revoked"}]
    BY <1>4, EndFacts
  <2>2. version' \in Nat /\ epoch' \in Nat /\ sweeps' \in Nat
    BY <1>4 DEF IInv, TypeOK, Ends, Revoke, Sweep
  <2>3. /\ status' \in {"absent", "active", "suspended"} /\ erased' \in BOOLEAN
        /\ password' \in {"known", "random"} /\ profile' \in {"own", "blank"}
        /\ open' \subseteq open
    BY <1>4 DEF IInv, TypeOK, Ends, Finish
  <2>4. QED
    BY <1>4, <2>1, <2>2, <2>3 DEF IInv, TypeOK, Ends
<1>5. ASSUME NEW t \in Token, LogOut(t)
      PROVE  TypeOK'
  <2>1. refresh' \in [Token -> {"none", "valid", "revoked"}]
    BY <1>5, LogOutFacts
  <2>2. left' \subseteq Token /\ overlaps' \subseteq OverlapKinds
    BY <1>5 DEF IInv, TypeOK, LogOut, OverlapKinds
  <2>3. QED
    BY <1>5, <2>1, <2>2 DEF IInv, TypeOK, LogOut, row
<1>6. QED
  BY <1>1, <1>2, <1>3, <1>4, <1>5, Shapes

(* A rotation under way holds an issued token of an existing account.      *)
LEMMA RequestsStep ==
    ASSUME IInv, Next
    PROVE  RequestsOK'
<1>1. ASSUME NEW r, Opens(r)
      PROVE  RequestsOK'
  BY <1>1 DEF IInv, RequestsOK, Opens, Begin, Issued, Valid, row, tokens
<1>2. ASSUME NEW r \in open, NEW t \in Token, Issues(r, t)
      PROVE  RequestsOK'
  <2>1. Issued \subseteq Issued'
    BY <1>2, IssueFacts
  <2>2. status # "absent" => status' # "absent"
    BY <1>2 DEF Issues
  <2>3. QED
    BY <1>2, <2>1, <2>2 DEF IInv, RequestsOK, Issues, Finish
<1>3. ASSUME NEW r \in open, Settles(r)
      PROVE  RequestsOK'
  <2>1. status # "absent" => status' # "absent"
    BY <1>3 DEF Settles
  <2>2. QED
    BY <1>3, <2>1 DEF IInv, RequestsOK, Settles, Finish, Issued, tokens
<1>4. ASSUME NEW r \in open, Ends(r)
      PROVE  RequestsOK'
  <2>1. status # "absent" => status' # "absent"
    BY <1>4 DEF Ends
  <2>2. QED
    BY <1>4, <2>1, EndFacts DEF IInv, RequestsOK, Ends, Finish
<1>5. ASSUME NEW t \in Token, LogOut(t)
      PROVE  RequestsOK'
  BY <1>5, LogOutFacts DEF IInv, RequestsOK, LogOut, row
<1>6. QED
  BY <1>1, <1>2, <1>3, <1>4, <1>5, Shapes

(* Logins stay known by their first tokens.                                *)
LEMMA LoginsStep ==
    ASSUME IInv, Next
    PROVE  LoginsOK'
<1>1. ASSUME NEW r, Opens(r)
      PROVE  LoginsOK'
  BY <1>1 DEF IInv, LoginsOK, Opens, Begin, Issued, tokens, history
<1>2. ASSUME NEW r \in open, NEW t \in Token, Issues(r, t)
      PROVE  LoginsOK'
  <2>1. LoginOf(r, t) \in Issued \cup {t}
    BY DEF LoginOf, IInv, RequestsOK, LoginsOK
  <2>2. QED
    BY <1>2, <2>1, IssueFacts DEF IInv, LoginsOK, Issues, history
<1>3. ASSUME NEW r \in open, Settles(r)
      PROVE  LoginsOK'
  BY <1>3 DEF IInv, LoginsOK, Settles, Issued, tokens, history
<1>4. ASSUME NEW r \in open, Ends(r)
      PROVE  LoginsOK'
  BY <1>4, EndFacts DEF IInv, LoginsOK, Ends
<1>5. ASSUME NEW t \in Token, LogOut(t)
      PROVE  LoginsOK'
  BY <1>5, LogOutFacts DEF IInv, LoginsOK, LogOut, Issued, Valid
<1>6. QED
  BY <1>1, <1>2, <1>3, <1>4, <1>5, Shapes

(* Versions count revocations as long as revocations do not overlap: the   *)
(* one that commits is the only one to have read the version, and it read  *)
(* the latest.                                                             *)
LEMMA VersionsStep ==
    ASSUME IInv, Next
    PROVE  Versions'
<1>1. ASSUME NEW r, Opens(r)
      PROVE  Versions'
  <2>1. "revocations" \notin overlaps' =>
          "revocations" \notin overlaps /\ \A o \in open : ~({o.op, r.op} \subseteq Revoking)
    BY <1>1 DEF Opens, Begin, OverlapKinds, Clash
  <2>2. version \in Nat
    BY DEF IInv, TypeOK
  <2>3. /\ UNCHANGED <<version, epoch, ver, born, Issued>> /\ open' = open \cup {r}
        /\ r.ver = version /\ r.epoch = epoch
    BY <1>1 DEF Opens, Begin, Issued, row, tokens, history
  <2>4. QED
    BY <2>1, <2>2, <2>3 DEF IInv, Versions
<1>2. ASSUME NEW r \in open, NEW t \in Token, Issues(r, t)
      PROVE  Versions'
  <2>1. open' \subseteq open /\ UNCHANGED <<version, epoch, overlaps>>
    BY <1>2 DEF Issues, Finish, history
  <2>2. /\ Issued' = Issued \cup {t}
        /\ \A u \in Issued : ver'[u] = ver[u] /\ born'[u] = born[u]
        /\ ver'[t] = r.ver /\ born'[t].epoch = r.epoch
    BY <1>2, IssueFacts
  <2>3. QED
    BY <2>1, <2>2 DEF IInv, Versions
<1>3. ASSUME NEW r \in open, Settles(r)
      PROVE  Versions'
  <2>1. open' \subseteq open /\ UNCHANGED <<version, epoch, overlaps, ver, born, Issued>>
    BY <1>3 DEF Settles, Finish, Issued, tokens, history
  <2>2. QED
    BY <2>1 DEF IInv, Versions
<1>4. ASSUME NEW r \in open, Ends(r)
      PROVE  Versions'
  <2>1. /\ open' = open \ {r} /\ UNCHANGED <<overlaps, ver, born, Issued>>
        /\ r.op \in Revoking /\ epoch' = epoch + 1
    BY <1>4, EndFacts DEF Ends, Finish, Revoke
  <2>2. "revocations" \notin overlaps => version' = version + 1
    BY <1>4, EndFacts
  <2>3. /\ version \in Nat /\ \A o \in open : o.ver \in Nat
        /\ \A u \in Issued : ver[u] \in Nat
    BY DEF IInv, TypeOK, Issued
  <2>4. QED
    BY <2>1, <2>2, <2>3 DEF IInv, Versions
<1>5. ASSUME NEW t \in Token, LogOut(t)
      PROVE  Versions'
  <2>1. /\ UNCHANGED <<version, epoch, ver, born, open, Issued>>
        /\ "revocations" \notin overlaps' => "revocations" \notin overlaps
    BY <1>5, LogOutFacts DEF LogOut, row
  <2>2. QED
    BY <2>1 DEF IInv, Versions
<1>6. QED
  BY <1>1, <1>2, <1>3, <1>4, <1>5, Shapes

(* No request that will issue a token is open while a sweep is.            *)
LEMMA SweepsStep ==
    ASSUME IInv, Next
    PROVE  Sweeps'
<1>1. ASSUME NEW r, Opens(r)
      PROVE  Sweeps'
  <2>1. "sweep" \notin overlaps' =>
          /\ "sweep" \notin overlaps
          /\ \A o \in open : /\ ~(o.op \in Issuing /\ r.op \in Sweeping)
                            /\ ~(r.op \in Issuing /\ o.op \in Sweeping)
    BY <1>1 DEF Opens, Begin, OverlapKinds, Clash
  <2>2. ~(r.op \in Issuing /\ r.op \in Sweeping)
    BY DEF Issuing, Sweeping
  <2>3. UNCHANGED <<sweeps, born, Valid>> /\ open' = open \cup {r} /\ r.sweep = sweeps
    BY <1>1 DEF Opens, Begin, Valid, tokens, history
  <2>4. QED
    BY <2>1, <2>2, <2>3 DEF IInv, Sweeps
<1>2. ASSUME NEW r \in open, NEW t \in Token, Issues(r, t)
      PROVE  Sweeps'
  <2>1. open' \subseteq open /\ UNCHANGED <<sweeps, overlaps>> /\ r.op \in Issuing
    BY <1>2 DEF Issues, Finish, history
  <2>2. /\ Valid' \subseteq Valid \cup {t} /\ born'[t].sweep = r.sweep
        /\ \A u \in Valid : born'[u] = born[u]
    <3>1. Valid \subseteq Issued
      BY DEF Valid, Issued
    <3>2. QED
      BY <1>2, <3>1, IssueFacts
  <2>3. QED
    BY <2>1, <2>2 DEF IInv, Sweeps
<1>3. ASSUME NEW r \in open, Settles(r)
      PROVE  Sweeps'
  <2>1. open' \subseteq open /\ UNCHANGED <<sweeps, overlaps, born, Valid>>
    BY <1>3 DEF Settles, Finish, Valid, tokens, history
  <2>2. QED
    BY <2>1 DEF IInv, Sweeps
<1>4. ASSUME NEW r \in open, Ends(r)
      PROVE  Sweeps'
  <2>1. CASE r.op = "suspend"
    <3>1. open' \subseteq open /\ UNCHANGED <<sweeps, overlaps, born>> /\ Valid' = Valid
      BY <1>4, <2>1, EndFacts DEF Ends, Finish
    <3>2. QED
      BY <3>1 DEF IInv, Sweeps
  <2>2. CASE r.op # "suspend"
    <3>1. open' \subseteq open /\ UNCHANGED overlaps /\ Valid' = {} /\ r.op \in Sweeping
      BY <1>4, <2>2, EndFacts DEF Ends, Finish, Revoking
    <3>2. QED
      BY <3>1 DEF IInv, Sweeps
  <2>3. QED
    BY <2>1, <2>2
<1>5. ASSUME NEW t \in Token, LogOut(t)
      PROVE  Sweeps'
  <2>1. /\ UNCHANGED <<sweeps, born, open>> /\ Valid' \subseteq Valid
        /\ "sweep" \notin overlaps' => "sweep" \notin overlaps
    BY <1>5, LogOutFacts DEF LogOut
  <2>2. QED
    BY <2>1 DEF IInv, Sweeps
<1>6. QED
  BY <1>1, <1>2, <1>3, <1>4, <1>5, Shapes

(* One token of a login is valid or being rotated, and never two.          *)
LEMMA MovesStep ==
    ASSUME IInv, Next
    PROVE  Moves'
<1>1. ASSUME NEW r, Opens(r)
      PROVE  Moves'
  <2> SUFFICES ASSUME "rotations" \notin overlaps'
               PROVE  Moves'
    BY DEF Moves
  <2>1. /\ "rotations" \notin overlaps
        /\ \A o \in open : ~(o.op = "rotate" /\ r.op = "rotate" /\ o.token = r.token)
    BY <1>1 DEF Opens, Begin, OverlapKinds, Clash
  <2>2. /\ UNCHANGED <<born, Valid>> /\ open' = open \cup {r}
        /\ r.op = "rotate" => r.token \in Valid
    BY <1>1 DEF Opens, Begin, Valid, tokens
  <2>3. QED
    BY <2>1, <2>2 DEF IInv, Moves
<1>2. ASSUME NEW r \in open, NEW t \in Token, Issues(r, t)
      PROVE  Moves'
  <2> SUFFICES ASSUME "rotations" \notin overlaps'
               PROVE  Moves'
    BY DEF Moves
  <2>1. /\ "rotations" \notin overlaps /\ open' = open \ {r}
    BY <1>2 DEF Issues, Finish, history
  <2>2. /\ Valid \subseteq Issued /\ \A u \in Issued : born[u].login \in Issued
        /\ \A s \in open : s.op = "rotate" => s.token \in Issued
    BY DEF IInv, LoginsOK, RequestsOK, Valid, Issued
  <2>3. /\ t \notin Issued
        /\ Valid' = (Valid \ Spent(r)) \cup {t} /\ born'[t].login = LoginOf(r, t)
        /\ \A u \in Issued : born'[u] = born[u]
    BY <1>2, IssueFacts
  <2>4. \A u \in Valid \ Spent(r) : born[u].login # LoginOf(r, t)
    BY <2>1, <2>2, <2>3 DEF IInv, Moves, Spent, LoginOf
  <2>5. \A s \in open' : s.op = "rotate" => born[s.token].login # LoginOf(r, t)
    BY <2>1, <2>2, <2>3 DEF IInv, Moves, LoginOf
  <2>6. \A u, v \in Valid' : born'[u].login = born'[v].login => u = v
    BY <2>1, <2>2, <2>3, <2>4 DEF IInv, Moves
  <2>7. \A s \in open' : s.op = "rotate" =>
           \A u \in Valid' : born'[u].login = born'[s.token].login => u = s.token
    BY <2>1, <2>2, <2>3, <2>5 DEF IInv, Moves
  <2>8. \A s, v \in open' : s.op = "rotate" /\ v.op = "rotate" /\ s # v =>
           born'[s.token].login # born'[v.token].login
    BY <2>1, <2>2, <2>3 DEF IInv, Moves
  <2>9. QED
    BY <2>6, <2>7, <2>8 DEF Moves
<1>3. ASSUME NEW r \in open, Settles(r)
      PROVE  Moves'
  <2>1. open' \subseteq open /\ UNCHANGED <<overlaps, born, Valid>>
    BY <1>3 DEF Settles, Finish, Valid, tokens, history
  <2>2. QED
    BY <2>1 DEF IInv, Moves
<1>4. ASSUME NEW r \in open, Ends(r)
      PROVE  Moves'
  <2>1. open' \subseteq open /\ UNCHANGED <<overlaps, born>> /\ Valid' \subseteq Valid
    BY <1>4, EndFacts DEF Ends, Finish
  <2>2. QED
    BY <2>1 DEF IInv, Moves
<1>5. ASSUME NEW t \in Token, LogOut(t)
      PROVE  Moves'
  <2>1. /\ UNCHANGED <<born, open>> /\ Valid' \subseteq Valid
        /\ "rotations" \notin overlaps' => "rotations" \notin overlaps
    BY <1>5, LogOutFacts DEF LogOut
  <2>2. QED
    BY <2>1 DEF IInv, Moves
<1>6. QED
  BY <1>1, <1>2, <1>3, <1>4, <1>5, Shapes

(* A login that logged out is over: its one token is revoked, and no       *)
(* rotation had that token in its hands.                                   *)
LEMMA DepartedStep ==
    ASSUME IInv, Next
    PROVE  Departed'
<1> SUFFICES ASSUME overlaps' \cap {"rotations", "logout"} = {}
             PROVE  Departed'
  BY DEF Departed
<1>1. ASSUME NEW r, Opens(r)
      PROVE  Departed'
  <2>1. overlaps \cap {"rotations", "logout"} = {}
    BY <1>1 DEF Opens, Begin
  <2>2. /\ UNCHANGED <<born, Valid, left>> /\ open' = open \cup {r}
        /\ r.op = "rotate" => r.token \in Valid
    BY <1>1 DEF Opens, Begin, Valid, tokens, history
  <2>3. QED
    BY <2>1, <2>2 DEF IInv, Departed
<1>2. ASSUME NEW r \in open, NEW t \in Token, Issues(r, t)
      PROVE  Departed'
  <2>1. overlaps \cap {"rotations", "logout"} = {} /\ open' \subseteq open /\ left' = left
    BY <1>2 DEF Issues, Finish, history
  <2>2. /\ Valid \subseteq Issued /\ left \subseteq Issued
        /\ \A s \in open : s.op = "rotate" => s.token \in Issued
    BY DEF IInv, LoginsOK, RequestsOK, Valid, Issued
  <2>3. /\ t \notin Issued
        /\ Valid' \subseteq Valid \cup {t} /\ born'[t].login = LoginOf(r, t)
        /\ \A u \in Issued : born'[u] = born[u]
    BY <1>2, IssueFacts
  <2>4. LoginOf(r, t) \notin left
    BY <2>1, <2>2, <2>3 DEF IInv, Departed, LoginOf
  <2>5. QED
    BY <2>1, <2>2, <2>3, <2>4 DEF IInv, Departed
<1>3. ASSUME NEW r \in open, Settles(r)
      PROVE  Departed'
  <2>1. open' \subseteq open /\ UNCHANGED <<overlaps, born, Valid, left>>
    BY <1>3 DEF Settles, Finish, Valid, tokens, history
  <2>2. QED
    BY <2>1 DEF IInv, Departed
<1>4. ASSUME NEW r \in open, Ends(r)
      PROVE  Departed'
  <2>1. open' \subseteq open /\ UNCHANGED <<overlaps, born, left>> /\ Valid' \subseteq Valid
    BY <1>4, EndFacts DEF Ends, Finish
  <2>2. QED
    BY <2>1 DEF IInv, Departed
<1>5. ASSUME NEW t \in Token, LogOut(t)
      PROVE  Departed'
  <2>1. overlaps \cap {"rotations", "logout"} = {}
        /\ \A r \in open : ~(r.op = "rotate" /\ r.token = t)
    BY <1>5 DEF LogOut
  <2>2. /\ UNCHANGED <<born, open>> /\ left' = left \cup {born[t].login}
        /\ t \in Valid /\ Valid' = Valid \ {t}
    BY <1>5, LogOutFacts DEF LogOut
  <2>3. QED
    BY <2>1, <2>2 DEF IInv, Departed, Moves
<1>6. QED
  BY <1>1, <1>2, <1>3, <1>4, <1>5, Shapes

(* Erasure and update do not overlap unseen.                               *)
LEMMA ProfilesStep ==
    ASSUME IInv, Next
    PROVE  Profiles'
<1>1. ASSUME NEW r, Opens(r)
      PROVE  Profiles'
  <2>1. "profile" \notin overlaps' =>
          /\ "profile" \notin overlaps
          /\ \A o \in open : {o.op, r.op} # {"update", "erase"}
    BY <1>1 DEF Opens, Begin, OverlapKinds, Clash
  <2>2. open' = open \cup {r}
    BY <1>1 DEF Opens, Begin
  <2>3. QED
    BY <2>1, <2>2 DEF IInv, Profiles
<1>2. ASSUME open' \subseteq open, "profile" \notin overlaps' => "profile" \notin overlaps
      PROVE  Profiles'
  BY <1>2 DEF IInv, Profiles
<1>3. QED
  BY <1>1, <1>2, Shapes DEF Issues, Settles, Ends, LogOut, Finish, history

(* After an erasure nothing is open that could issue a token or fill in a  *)
(* profile, and with no live token and no login nothing of it can begin.   *)
LEMMA ErasureStep ==
    ASSUME IInv, Next
    PROVE  Erasure'
<1> DEFINE Kinds == {"sweep", "revocations", "profile"}
<1> SUFFICES ASSUME erased', overlaps' \cap Kinds = {}
             PROVE  Erasure'
  BY DEF Erasure
<1>1. ASSUME NEW r, Opens(r)
      PROVE  Erasure'
  <2>1. erased /\ overlaps \cap Kinds = {}
    BY <1>1 DEF Opens, Begin, row
  <2>2. /\ UNCHANGED <<password, profile, status, Valid, Live>> /\ open' = open \cup {r}
    BY <1>1 DEF Opens, Begin, Valid, Live, Issued, row, tokens
  <2>3. r.op \notin Issuing \cup Sweeping \cup {"update"}
    BY <1>1, <2>1 DEF IInv, Erasure, Opens, Issuing
  <2>4. QED
    BY <2>1, <2>2, <2>3 DEF IInv, Erasure
<1>2. ASSUME NEW r \in open, NEW t \in Token, Issues(r, t)
      PROVE  Erasure'
  <2>1. erased /\ overlaps \cap Kinds = {} /\ r.op \in Issuing
    BY <1>2 DEF Issues, history
  <2>2. QED
    BY <2>1 DEF IInv, Erasure
<1>3. ASSUME NEW r \in open, Settles(r)
      PROVE  Erasure'
  <2>1. /\ erased /\ overlaps \cap Kinds = {} /\ open' \subseteq open
        /\ UNCHANGED <<password, Valid, Live>>
    BY <1>3 DEF Settles, Finish, Valid, Live, Issued, tokens, history
  <2>2. profile' = profile /\ (status # "absent" => status' # "absent")
    BY <1>3, <2>1 DEF IInv, Erasure, Settles
  <2>3. QED
    BY <2>1, <2>2 DEF IInv, Erasure
<1>4. ASSUME NEW r \in open, Ends(r)
      PROVE  Erasure'
  <2>1. /\ overlaps \cap Kinds = {} /\ "revocations" \notin overlaps /\ "sweep" \notin overlaps
        /\ open' = open \ {r} /\ r.op \in Revoking
    BY <1>4 DEF Ends, Finish
  <2>2. Live' = {} /\ (r.op # "suspend" => Valid' = {}) /\ (r.op = "suspend" => Valid' = Valid)
    BY <1>4, <2>1, EndFacts
  <2>3. CASE r.op = "erase"
    <3>1. password' = "random" /\ profile' = "blank" /\ status' # "absent"
      BY <1>4, <2>3 DEF Ends, IInv, RequestsOK
    <3>2. \A s \in open' : s.op \notin Issuing \cup Sweeping
      BY <2>1, <2>3 DEF IInv, Sweeps, Versions, Sweeping, Revoking
    <3>3. \A s \in open' : s.op # "update"
      BY <1>4, <2>1, <2>3 DEF IInv, Profiles, Ends
    <3>4. QED
      BY <2>2, <2>3, <3>1, <3>2, <3>3 DEF Erasure
  <2>4. CASE r.op # "erase"
    <3>1. erased /\ profile' = profile /\ status' \in {status, "suspended"}
      BY <1>4, <2>4 DEF Ends
    <3>2. r.op = "suspend"
      BY <2>1, <3>1 DEF IInv, Erasure, Revoking
    <3>3. password' = password
      BY <1>4, <3>2 DEF Ends
    <3>4. QED
      BY <2>1, <2>2, <3>1, <3>2, <3>3 DEF IInv, Erasure
  <2>5. QED
    BY <2>3, <2>4
<1>5. ASSUME NEW t \in Token, LogOut(t)
      PROVE  Erasure'
  <2>1. /\ erased /\ overlaps \cap Kinds = {} /\ t \in Valid
    BY <1>5, LogOutFacts DEF LogOut, row
  <2>2. QED
    BY <2>1 DEF IInv, Erasure
<1>6. QED
  BY <1>1, <1>2, <1>3, <1>4, <1>5, Shapes

(* The signup form satisfies the invariant.                                *)
LEMMA InitIInv == Init => IInv
<1> SUFFICES ASSUME Init
             PROVE  IInv
  OBVIOUS
<1>1. TypeOK
  <2>1. begun \in 0..MaxRequests /\ version \in Nat /\ epoch \in Nat /\ sweeps \in Nat
    BY SessionAssumption DEF Init
  <2>2. ver \in [Token -> Nat] /\ born \in [Token -> [login : Token, epoch : Nat, sweep : Nat]]
    BY DEF Init
  <2>3. erased \in BOOLEAN
    BY Zenon DEF Init
  <2>4. refresh \in [Token -> {"none", "valid", "revoked"}]
    BY DEF Init
  <2>5. /\ status \in {"absent", "active", "suspended"} /\ open = {}
        /\ password \in {"known", "random"} /\ profile \in {"own", "blank"}
        /\ left \subseteq Token /\ overlaps \subseteq OverlapKinds
    BY DEF Init
  <2>6. QED
    BY <2>1, <2>2, <2>3, <2>4, <2>5 DEF TypeOK
<1>2. Issued = {} /\ Valid = {} /\ open = {}
  BY DEF Init, Issued, Valid
<1>3. QED
  BY <1>1, <1>2 DEF Init, IInv, RequestsOK, LoginsOK, Versions, Sweeps, Moves, Departed,
                    Profiles, Erasure

(* A step that changes nothing keeps the invariant.                        *)
LEMMA Stutter ==
    ASSUME IInv, UNCHANGED vars
    PROVE  IInv'
<1>1. /\ UNCHANGED <<status, version, erased, password, profile, refresh, ver, born, open>>
      /\ UNCHANGED <<begun, epoch, sweeps, left, overlaps, Issued, Valid, Live>>
  BY DEF vars, row, tokens, history, Issued, Valid, Live
<1>2. TypeOK' /\ RequestsOK' /\ LoginsOK'
  BY <1>1 DEF IInv, TypeOK, RequestsOK, LoginsOK
<1>3. Versions' /\ Sweeps' /\ Moves' /\ Departed' /\ Profiles' /\ Erasure'
  BY <1>1 DEF IInv, Versions, Sweeps, Moves, Departed, Profiles, Erasure
<1>4. QED
  BY <1>2, <1>3 DEF IInv

(* The invariant is one.                                                   *)
LEMMA Invariance == Spec => []IInv
<1>1. IInv /\ [Next]_vars => IInv'
  <2> SUFFICES ASSUME IInv, [Next]_vars
               PROVE  IInv'
    OBVIOUS
  <2>1. CASE Next
    BY <2>1, TypeStep, RequestsStep, LoginsStep, VersionsStep, SweepsStep, MovesStep,
       DepartedStep, ProfilesStep, ErasureStep DEF IInv
  <2>2. QED
    BY <2>1, Stutter
<1>2. QED
  BY InitIInv, <1>1, PTL DEF Spec

-------------------------------------------------------------------------------

(* The rows and the requests keep their types.                             *)
THEOREM SessionsTypeCorrect == Spec => []TypeOK
<1>1. IInv => TypeOK
  BY DEF IInv
<1>2. QED
  BY <1>1, Invariance, PTL

(* get_current_user accepts no access token of before a revocation.        *)
THEOREM RevocationEndsAccess == Spec => []AccessEndsWithRevocation
<1>1. IInv => AccessEndsWithRevocation
  BY DEF IInv, Versions, AccessEndsWithRevocation, Live
<1>2. QED
  BY <1>1, Invariance, PTL

(* No refresh token survives a sweep, by whatever rotations.               *)
THEOREM SweepIsFinal == Spec => []SweepEndsSessions
<1>1. IInv => SweepEndsSessions
  BY DEF IInv, Sweeps, SweepEndsSessions
<1>2. QED
  BY <1>1, Invariance, PTL

(* Rotation moves a session and does not copy it.                          *)
THEOREM RotationMoves == Spec => []OneSessionPerLogin
<1>1. IInv => OneSessionPerLogin
  BY DEF IInv, Moves, OneSessionPerLogin
<1>2. QED
  BY <1>1, Invariance, PTL

(* What logged out is not carried on by rotation.                          *)
THEOREM LogOutIsFinal == Spec => []LoggedOutStaysOut
<1>1. IInv => LoggedOutStaysOut
  BY DEF IInv, Departed, LoggedOutStaysOut
<1>2. QED
  BY <1>1, Invariance, PTL

(* An erased account stays empty and closed.                               *)
THEOREM ErasureIsFinal == Spec => []ErasedLeavesNothing
<1>1. IInv => ErasedLeavesNothing
  BY DEF IInv, Erasure, ErasedLeavesNothing, Accepted
<1>2. QED
  BY <1>1, Invariance, PTL

-------------------------------------------------------------------------------
(* The refinement                                                          *)

(* A step of the implementation is a step of the promise or none.          *)
LEMMA PromiseStep ==
    ASSUME IInv, Next
    PROVE  [Promise!Next]_(Promise!promiseVars)
<1> DEFINE void == "revocations" \in overlaps
<1>1. Live \subseteq Token /\ Live' \subseteq Token /\ Issued \subseteq Token
      /\ Issued' \subseteq Token /\ Live \subseteq Issued
  BY DEF Live, Issued
<1>2. CASE void /\ void'
  BY <1>1, <1>2 DEF Promise!Next, Promise!Anything
<1>3. CASE ~void
  <2>1. ASSUME NEW r, Opens(r)
        PROVE  Promise!Void \/ UNCHANGED Promise!promiseVars
    <3>1. UNCHANGED <<Live, Issued>>
      BY <2>1 DEF Opens, Begin, Live, Issued, row, tokens
    <3>2. QED
      BY <3>1, <1>3 DEF Promise!Void, Promise!promiseVars
  <2>2. ASSUME NEW r \in open, NEW t \in Token, Issues(r, t)
        PROVE  Promise!Begin(t)
    <3>1. /\ t \notin Issued /\ Issued' = Issued \cup {t} /\ UNCHANGED <<version, overlaps>>
          /\ \A u \in Issued : ver'[u] = ver[u]
      BY <2>2, IssueFacts DEF Issues, history
    <3>2. \/ Live' = Live \cup {t} /\ (Issued \ Live)' = Issued \ Live
          \/ Live' = Live /\ (Issued \ Live)' = (Issued \ Live) \cup {t}
      BY <3>1 DEF Live
    <3>3. QED
      BY <1>1, <3>1, <3>2 DEF Promise!Begin
  <2>3. ASSUME NEW r \in open, Settles(r)
        PROVE  UNCHANGED Promise!promiseVars
    BY <2>3 DEF Settles, Live, Issued, tokens, history, Promise!promiseVars
  <2>4. ASSUME NEW r \in open, Ends(r)
        PROVE  Promise!EndAll
    <3>1. Live' = {} /\ Issued' = Issued /\ UNCHANGED overlaps
      BY <1>3, <2>4, EndFacts DEF Ends
    <3>2. QED
      BY <1>1, <3>1 DEF Promise!EndAll
  <2>5. ASSUME NEW t \in Token, LogOut(t)
        PROVE  UNCHANGED Promise!promiseVars
    <3>1. Issued' = Issued /\ UNCHANGED <<ver, version>> /\ (void' <=> void)
      BY <2>5, LogOutFacts DEF LogOut, row
    <3>2. QED
      BY <3>1 DEF Live, Promise!promiseVars
  <2>6. QED
    BY <2>1, <2>2, <2>3, <2>4, <2>5, Shapes DEF Promise!Next
<1>4. void => void'
  BY Shapes DEF Opens, Begin, Issues, Settles, Ends, LogOut, history
<1>5. QED
  BY <1>2, <1>3, <1>4

(* The version numbers implement the promise of SessionPromise: what has   *)
(* ended never resumes, until two revocations overlap.                     *)
THEOREM VersionsImplementPromise == Spec => ImplementsPromise
<1>1. Init => Promise!Init
  BY DEF Init, Promise!Init, Live, Issued
<1>2. IInv /\ [Next]_vars => [Promise!Next]_(Promise!promiseVars)
  <2> SUFFICES ASSUME IInv, [Next]_vars
               PROVE  [Promise!Next]_(Promise!promiseVars)
    OBVIOUS
  <2>1. CASE UNCHANGED vars
    BY <2>1 DEF vars, row, tokens, Live, Issued, Promise!promiseVars
  <2>2. QED
    BY <2>1, PromiseStep
<1>3. QED
  BY <1>1, <1>2, Invariance, PTL DEF Spec, ImplementsPromise, Promise!Spec

-------------------------------------------------------------------------------
(* The limit                                                               *)

(* As long as nobody is refused, everybody counted has been let through.   *)
CountedPass == count <= Limit => through >= count

(* More have been let through than counted only by failures of INCR.       *)
PassesCounted ==
    /\ count <= Limit => through <= count + unseen
    /\ count > Limit => through <= Limit + unseen

LimitIInv ==
    /\ LimitTypeOK
    /\ CountedPass
    /\ NotRefusedEarly
    /\ PassesCounted
    /\ ExpiryAssured

-------------------------------------------------------------------------------

(* The empty Redis satisfies the invariant.                                *)
LEMMA LimitInitIInv == LimitInit => LimitIInv
<1> SUFFICES ASSUME LimitInit
             PROVE  LimitIInv
  OBVIOUS
<1>1. LimitTypeOK
  <2>1. count \in 0..Cap /\ expiring \subseteq Client /\ through \in Nat /\ unseen \in 0..MaxErrors
    BY LimitAssumption DEF LimitInit, Cap
  <2>2. timed \in BOOLEAN /\ orphaned \in BOOLEAN
    BY LimitAssumption DEF LimitInit
  <2>3. QED
    BY <2>1, <2>2 DEF LimitTypeOK
<1>2. CountedPass /\ NotRefusedEarly /\ PassesCounted /\ ExpiryAssured
  BY LimitAssumption DEF LimitInit, CountedPass, NotRefusedEarly, PassesCounted, ExpiryAssured
<1>3. QED
  BY <1>1, <1>2 DEF LimitIInv

(* Capping keeps the three answers the code distinguishes: the request     *)
(* created the key, it passes, it is refused (Counted).                    *)
LEMMA CountedFacts ==
    ASSUME LimitTypeOK
    PROVE  /\ Counted \in 1..Cap
           /\ Counted = 1 <=> count = 0
           /\ count < Limit => Counted = count + 1
           /\ count >= Limit => Counted = Limit + 1
BY LimitAssumption DEF LimitTypeOK, Counted, Cap

(* A request that Redis answers keeps the invariant.                       *)
LEMMA IncrIInv ==
    ASSUME LimitIInv, NEW c \in Client, Incr(c)
    PROVE  LimitIInv'
<1>1. LimitTypeOK' /\ CountedPass' /\ NotRefusedEarly' /\ PassesCounted'
  BY CountedFacts, LimitAssumption
     DEF LimitIInv, Incr, Let, Passes, LimitTypeOK, CountedPass, NotRefusedEarly, PassesCounted, Cap
<1>2. ExpiryAssured'
  BY CountedFacts, LimitAssumption DEF LimitIInv, Incr, Creates, LimitTypeOK, ExpiryAssured
<1>3. QED
  BY <1>1, <1>2 DEF LimitIInv

(* A request whose INCR fails, executed or not, keeps the invariant.       *)
LEMMA IncrFailsIInv ==
    ASSUME LimitIInv, NEW c \in Client, IncrFails(c)
    PROVE  LimitIInv'
<1>1. CASE UNCHANGED <<count, orphaned>>
  BY <1>1, LimitAssumption
     DEF LimitIInv, IncrFails, Let, LimitTypeOK, CountedPass, NotRefusedEarly, PassesCounted,
         ExpiryAssured, Cap
<1>2. CASE count' = Counted /\ orphaned' = (orphaned \/ Creates(Counted))
  <2>1. LimitTypeOK'
    <3>1. count' \in 0..Cap /\ expiring' \subseteq Client /\ through' \in Nat /\ unseen' \in 0..MaxErrors
      BY <1>2, CountedFacts, LimitAssumption DEF LimitIInv, IncrFails, Let, Creates, LimitTypeOK, Cap
    <3>2. timed' \in BOOLEAN /\ orphaned' \in BOOLEAN
      BY <1>2, Zenon DEF LimitIInv, IncrFails, Creates, LimitTypeOK
    <3>3. QED
      BY <3>1, <3>2 DEF LimitTypeOK
  <2>2. CountedPass' /\ NotRefusedEarly' /\ PassesCounted'
    BY <1>2, CountedFacts, LimitAssumption
       DEF LimitIInv, IncrFails, Let, LimitTypeOK, CountedPass, NotRefusedEarly, PassesCounted, Cap
  <2>3. CASE count = 0
    BY <1>2, <2>1, <2>2, <2>3, CountedFacts DEF LimitIInv, Creates, ExpiryAssured
  <2>4. CASE count # 0
    <3>1. count > 0 /\ (orphaned' <=> orphaned)
      BY <1>2, <2>4, CountedFacts DEF LimitIInv, Creates, LimitTypeOK
    <3>2. ExpiryAssured'
      BY <1>2, <3>1 DEF LimitIInv, IncrFails, ExpiryAssured
    <3>3. QED
      BY <2>1, <2>2, <3>2 DEF LimitIInv
  <2>5. QED
    BY <2>3, <2>4
<1>3. QED
  BY <1>1, <1>2 DEF IncrFails

(* Each step keeps the invariant; EXPIRE touches its last part only, and   *)
(* with the key all that is counted goes.                                  *)
LEMMA LimitNextIInv ==
    ASSUME LimitIInv, [LimitNext]_limitVars
    PROVE  LimitIInv'
<1>1. ASSUME NEW c \in Client, Expire(c)
      PROVE  LimitIInv'
  <2>1. LimitTypeOK'
    <3>1. count' \in 0..Cap /\ expiring' \subseteq Client /\ through' \in Nat /\ unseen' \in 0..MaxErrors
      BY <1>1 DEF LimitIInv, Expire, LimitTypeOK, Cap
    <3>2. timed' \in BOOLEAN /\ orphaned' \in BOOLEAN
      <4>1. (count > 0) \in BOOLEAN
        BY SMT
      <4>2. QED
        BY <1>1, <4>1 DEF Expire
    <3>3. QED
      BY <3>1, <3>2 DEF LimitTypeOK
  <2>2. CountedPass' /\ NotRefusedEarly' /\ PassesCounted' /\ ExpiryAssured'
    BY <1>1 DEF LimitIInv, Expire, LimitTypeOK, CountedPass, NotRefusedEarly, PassesCounted, ExpiryAssured
  <2>3. QED
    BY <2>1, <2>2 DEF LimitIInv
<1>2. ASSUME NEW c \in Client, ExpireFails(c)
      PROVE  LimitIInv'
  <2>1. LimitTypeOK'
    BY <1>2 DEF LimitIInv, ExpireFails, LimitTypeOK, Cap
  <2>2. CountedPass' /\ NotRefusedEarly' /\ PassesCounted'
    BY <1>2 DEF LimitIInv, ExpireFails, CountedPass, NotRefusedEarly, PassesCounted
  <2>3. ExpiryAssured'
    BY <1>2 DEF LimitIInv, ExpireFails, LimitTypeOK, ExpiryAssured
  <2>4. QED
    BY <2>1, <2>2, <2>3 DEF LimitIInv
<1>3. CASE KeyGone
  <2>1. LimitTypeOK'
    <3>1. count' \in 0..Cap /\ expiring' \subseteq Client /\ through' \in Nat /\ unseen' \in 0..MaxErrors
      BY <1>3, LimitAssumption DEF LimitIInv, KeyGone, LimitTypeOK, Cap
    <3>2. timed' \in BOOLEAN /\ orphaned' \in BOOLEAN
      BY <1>3, LimitAssumption DEF LimitIInv, KeyGone, LimitTypeOK
    <3>3. QED
      BY <3>1, <3>2 DEF LimitTypeOK
  <2>2. CountedPass' /\ NotRefusedEarly' /\ PassesCounted' /\ ExpiryAssured'
    BY <1>3, LimitAssumption
       DEF KeyGone, CountedPass, NotRefusedEarly, PassesCounted, ExpiryAssured
  <2>3. QED
    BY <2>1, <2>2 DEF LimitIInv
<1>4. CASE UNCHANGED limitVars
  BY <1>4 DEF limitVars, LimitIInv, LimitTypeOK, CountedPass, NotRefusedEarly, PassesCounted, ExpiryAssured
<1>5. QED
  BY <1>1, <1>2, <1>3, <1>4, IncrIInv, IncrFailsIInv DEF LimitNext, WindowEnds, RedisRestarts

(* The invariant is one.                                                   *)
LEMMA LimitInvariance == LimitSpec => []LimitIInv
BY LimitInitIInv, LimitNextIInv, PTL DEF LimitSpec

-------------------------------------------------------------------------------

(* The variables of the limiter stay in their ranges (_incr_with_expire).  *)
THEOREM LimitTypeCorrect == LimitSpec => []LimitTypeOK
<1>1. LimitIInv => LimitTypeOK
  BY DEF LimitIInv
<1>2. QED
  BY <1>1, LimitInvariance, PTL

(* No window lets more through than the limit and the requests that failed *)
(* open (rate_limit, _check).                                              *)
THEOREM WindowsAreBounded == LimitSpec => []WindowBound
<1>1. LimitIInv => WindowBound
  BY LimitAssumption DEF LimitIInv, LimitTypeOK, PassesCounted, WindowBound, Cap
<1>2. QED
  BY <1>1, LimitInvariance, PTL

(* Requests are refused only once the limit is used up.                    *)
THEOREM NobodyRefusedEarly == LimitSpec => []NotRefusedEarly
<1>1. LimitIInv => NotRefusedEarly
  BY DEF LimitIInv
<1>2. QED
  BY <1>1, LimitInvariance, PTL

(* A key has an expiry or somebody about to set it, unless a failure fell  *)
(* between INCR and EXPIRE.                                                *)
THEOREM KeysExpire == LimitSpec => []ExpiryAssured
<1>1. LimitIInv => ExpiryAssured
  BY DEF LimitIInv
<1>2. QED
  BY <1>1, LimitInvariance, PTL

===============================================================================
