------------------------------ MODULE Moderation ------------------------------
(***************************************************************************)
(* Moderators at work: suspending, granting roles, hiding posts, writing   *)
(* labels, resolving reports, and the audit event that each of them        *)
(* writes in the same transaction.  Labels are also written by programs,   *)
(* the health refresh and the safety task, which write no event.           *)
(*                                                                         *)
(* A request is two actions: it is admitted and reads its target, then it  *)
(* commits.  The commit writes the columns whose new value differs from    *)
(* the value that was read, and no others.  Nothing is looked at again.    *)
(* Each report is about something of its own, which is what the event of   *)
(* its creation names.                                                     *)
(***************************************************************************)
EXTENDS Naturals, Sequences, FiniteSets, SequencesExt

CONSTANTS
    User, Post, Report,
    Label,       \* a label on a target: one row each
    InitialRole, \* roles are first given in the database itself
    MaxRequests  \* bound: requests in all

ASSUME ModerationAssumption ==
    /\ InitialRole \in [User -> {"user", "moderator", "admin"}]
    /\ MaxRequests \in Nat

Nobody == "nobody"

VARIABLES
    role,      \* users.role
    status,    \* users.status
    hidden,    \* posts whose deleted_at is set
    labels,    \* rows of safety_labels
    reports,   \* status and resolver of each report, "none" before it is made
    audit,     \* audit_events: those about one column of one row, in order
    writing,   \* sets of labels that a program has missed and is about to insert
    open,      \* requests that have read and not committed
    begun,     \* requests so far
    contended, \* history: columns that two open requests were about to write
    undercut,  \* history: did anyone lose power with a request of his open,
               \* or an admin give up his own role?
    unsigned   \* history: labels that a program inserted

tables == <<role, status, hidden, labels, reports>>
programs == <<writing, unsigned>>
vars == <<tables, programs, audit, open, begun, contended, undercut>>

-----------------------------------------------------------------------------
(* Who may do what, and what is written                                    *)

Permitted ==
    LET everyone  == {"report"}
        moderator == everyone \cup {"hide", "suspend", "unsuspend", "label", "resolve"}
    IN  [user |-> everyone, moderator |-> moderator, admin |-> moderator \cup {"grant"}]

Roles == DOMAIN Permitted

Outcomes == {"resolved", "dismissed"}

(* get_current_user and require_permissions.                               *)
Admitted(a, op) == status[a] = "active" /\ op \in Permitted[role[a]]

Column(op) ==
    CASE op \in {"suspend", "unsuspend"} -> "status"
      [] op = "grant"                    -> "role"
      [] op = "resolve"                  -> "outcome"
      [] op = "label"                    -> "label"
      [] OTHER                           -> op

(* What an audit event is about.                                           *)
About(r) == <<Column(r.op), r.target>>

Cells ==
    ({"status", "role"} \X User) \cup ({"outcome", "report"} \X Report)
        \cup ({"label"} \X Label) \cup ({"hide"} \X Post)

Init ==
    /\ role = InitialRole
    /\ status = [u \in User |-> "active"]
    /\ hidden = {} /\ labels = {}
    /\ reports = [x \in Report |-> [status |-> "none", resolver |-> Nobody]]
    /\ audit = [c \in Cells |-> <<>>]
    /\ open = {} /\ begun = 0 /\ contended = {} /\ undercut = FALSE
    /\ writing = {} /\ unsigned = {}

-----------------------------------------------------------------------------
(* The reads                                                               *)

(* A suspension, or a role that is not a moderator's.                      *)
Disempowers(r) == r.op = "suspend" \/ (r.op = "grant" /\ r.to = "user")

Undercuts(r, s) == Disempowers(r) /\ r.target = s.actor

(* One request of each moderator is open at a time.                        *)
Begin(a, op, target, to, was) ==
    LET r == [op |-> op, actor |-> a, target |-> target, to |-> to, was |-> was]
    IN  /\ Admitted(a, op)
        /\ \A s \in open : s.actor # a
        /\ begun < MaxRequests
        /\ begun' = begun + 1
        /\ open' = open \cup {r}
        /\ contended' = contended \cup {About(s) : s \in {s \in open : About(s) = About(r)}}
        /\ undercut' = (undercut \/ (op = "grant" /\ Undercuts(r, r))
                           \/ \E s \in open : Undercuts(r, s) \/ Undercuts(s, r))
        /\ UNCHANGED <<tables, programs, audit>>

HidePost(a, p) == Begin(a, "hide", p, "hidden", "any")

(* Mutant: a moderator may suspend himself.                                *)
SuspendUser_Self(a, u) == Begin(a, "suspend", u, "suspended", status[u])

SuspendUser(a, u) == u # a /\ Begin(a, "suspend", u, "suspended", status[u])

UnsuspendUser(a, u) == Begin(a, "unsuspend", u, "active", status[u])

(* An admin may take his own role away.                                    *)
GrantRole(a, u, to) == Begin(a, "grant", u, to, role[u])

(* upsert_label looks for the row.                                         *)
WriteLabel(a, l) ==
    Begin(a, "label", l, "present", IF l \in labels THEN "present" ELSE "absent")

CreateReport(a, x) ==
    /\ reports[x].status = "none"
    /\ \A s \in open : s.target # x
    /\ Begin(a, "report", x, "open", "none")

(* Open or not: a resolution may be revised.                               *)
ResolveReport(a, x, to) ==
    /\ reports[x].status # "none"
    /\ Begin(a, "resolve", x, to, reports[x])

-----------------------------------------------------------------------------
(* The commits                                                             *)

Finish(r) == open' = open \ {r} /\ UNCHANGED <<programs, begun, contended, undercut>>

(* write_audit_event, in the transaction of what it records: who left what *)
(* in which column.                                                        *)
Record(r) ==
    audit' = [audit EXCEPT ![About(r)] =
                 Append(@, [actor |-> r.actor, to |-> r.to])]

(* A column whose value did not change is not written.                     *)
Written(read, new, now) == IF read = new THEN now ELSE new

CommitHide(r) ==
    /\ r.op = "hide"
    /\ Finish(r) /\ Record(r)
    /\ hidden' = hidden \cup {r.target}
    /\ UNCHANGED <<role, status, labels, reports>>

CommitStatus(r) ==
    /\ r.op \in {"suspend", "unsuspend"}
    /\ Finish(r) /\ Record(r)
    /\ status' = [status EXCEPT ![r.target] = Written(r.was, r.to, @)]
    /\ UNCHANGED <<role, hidden, labels, reports>>

CommitGrant(r) ==
    /\ r.op = "grant"
    /\ Finish(r) /\ Record(r)
    /\ role' = [role EXCEPT ![r.target] = Written(r.was, r.to, @)]
    /\ UNCHANGED <<status, hidden, labels, reports>>

(* Mutant: a new row is returned before its event is written.             *)
CommitLabel_Early(r) ==
    /\ r.op = "label"
    /\ Finish(r)
    /\ labels' = labels \cup {r.target}
    /\ IF r.was = "absent" THEN UNCHANGED audit ELSE Record(r)
    /\ UNCHANGED <<role, status, hidden, reports>>

(* The row that was not there is inserted; if another inserted it first,   *)
(* the key conflicts and the transaction fails, its event with it.         *)
CommitLabel(r) ==
    /\ r.op = "label"
    /\ Finish(r)
    /\ IF r.was = "absent" /\ r.target \in labels
       THEN UNCHANGED <<labels, audit>>
       ELSE labels' = labels \cup {r.target} /\ Record(r)
    /\ UNCHANGED <<role, status, hidden, reports>>

CommitReport(r) ==
    /\ r.op = "report"
    /\ Finish(r) /\ Record(r)
    /\ reports' = [reports EXCEPT ![r.target].status = "open"]
    /\ UNCHANGED <<role, status, hidden, labels>>

(* Mutant: the first resolver keeps his name on it.                        *)
CommitResolve_FirstResolver(r) ==
    /\ r.op = "resolve"
    /\ Finish(r) /\ Record(r)
    /\ reports' = [reports EXCEPT ![r.target] =
          [status   |-> Written(r.was.status, r.to, @.status),
           resolver |-> IF @.resolver = Nobody THEN r.actor ELSE @.resolver]]
    /\ UNCHANGED <<role, status, hidden, labels>>

(* Status and resolver are written independently of each other.            *)
CommitResolve(r) ==
    /\ r.op = "resolve"
    /\ Finish(r) /\ Record(r)
    /\ reports' = [reports EXCEPT ![r.target] =
          [status   |-> Written(r.was.status, r.to, @.status),
           resolver |-> Written(r.was.resolver, r.actor, @.resolver)]]
    /\ UNCHANGED <<role, status, hidden, labels>>

-----------------------------------------------------------------------------
(* The programs                                                            *)

(* refresh_user_health and ApplyPostSafetyLabelsTask look for the rows of  *)
(* the labels that are due.                                                *)
DetectLabels(due) ==
    /\ due \ labels # {}
    /\ writing' = writing \cup {due \ labels}
    /\ UNCHANGED <<tables, audit, open, begun, contended, undercut, unsigned>>

(* They insert those that were not there in one transaction, which fails   *)
(* if another has inserted one of them first.                              *)
InsertLabels(missing) ==
    /\ writing' = writing \ {missing}
    /\ IF missing \cap labels = {}
       THEN labels' = labels \cup missing /\ unsigned' = unsigned \cup missing
       ELSE UNCHANGED <<labels, unsigned>>
    /\ UNCHANGED <<role, status, hidden, reports, audit, open, begun, contended, undercut>>

-----------------------------------------------------------------------------

Next ==
    \/ \E a \in User :
          \/ \E p \in Post : HidePost(a, p)
          \/ \E u \in User : SuspendUser(a, u) \/ UnsuspendUser(a, u)
          \/ \E u \in User, to \in Roles : GrantRole(a, u, to)
          \/ \E l \in Label : WriteLabel(a, l)
          \/ \E x \in Report : CreateReport(a, x)
          \/ \E x \in Report, to \in Outcomes : ResolveReport(a, x, to)
    \/ \E r \in open :
          \/ CommitHide(r) \/ CommitStatus(r) \/ CommitGrant(r) \/ CommitLabel(r)
          \/ CommitReport(r) \/ CommitResolve(r)
    \/ \E due \in SUBSET Label : DetectLabels(due)
    \/ \E missing \in writing : InsertLabels(missing)

Spec == Init /\ [][Next]_vars

-----------------------------------------------------------------------------
(* Properties                                                              *)

Reports == [status : {"none", "open"} \cup Outcomes, resolver : User \cup {Nobody}]

Values ==
    Roles \cup Outcomes \cup
        {"active", "suspended", "hidden", "present", "absent", "any", "none", "open"}

Event == [actor : User, to : Values]

(* What a request of each kind is about, and what it may write.            *)
RequestOK(r) ==
    /\ r.actor \in User
    /\ IF r.op = "resolve" THEN r.was \in Reports ELSE r.was \in Values
    /\ \/ r.op = "hide" /\ r.target \in Post /\ r.to = "hidden"
       \/ r.op = "suspend" /\ r.target \in User /\ r.to = "suspended"
       \/ r.op = "unsuspend" /\ r.target \in User /\ r.to = "active"
       \/ r.op = "grant" /\ r.target \in User /\ r.to \in Roles
       \/ r.op = "label" /\ r.target \in Label /\ r.to = "present"
       \/ r.op = "report" /\ r.target \in Report /\ r.to = "open"
       \/ r.op = "resolve" /\ r.target \in Report /\ r.to \in Outcomes

(* Every variable stays in its range.                                      *)
TypeOK ==
    /\ role \in [User -> Roles]
    /\ status \in [User -> {"active", "suspended"}]
    /\ hidden \subseteq Post /\ labels \subseteq Label
    /\ reports \in [Report -> Reports]
    /\ audit \in [Cells -> Seq(Event)]
    /\ \A r \in open : RequestOK(r)
    /\ begun \in 0..MaxRequests
    /\ contended \subseteq Cells /\ undercut \in BOOLEAN
    /\ writing \subseteq SUBSET Label /\ unsigned \subseteq Label

(* The value of a cell after the last of its events, or its first value.   *)
Outcome(c, first) == IF audit[c] = <<>> THEN first ELSE Last(audit[c]).to

Resolver(x) ==
    LET events == audit[<<"outcome", x>>]
    IN  IF events = <<>> THEN Nobody ELSE Last(events).actor

(* The audit trail tells the truth: for a column that no two requests were *)
(* about to write at once, the last event about it names the value in the  *)
(* table, and for a report also who is to be asked.                        *)
AuditReplays ==
    /\ \A u \in User :
          /\ <<"role", u>> \notin contended => role[u] = Outcome(<<"role", u>>, InitialRole[u])
          /\ <<"status", u>> \notin contended => status[u] = Outcome(<<"status", u>>, "active")
    /\ \A x \in Report : <<"outcome", x>> \notin contended =>
          /\ reports[x].status =
                Outcome(<<"outcome", x>>, Outcome(<<"report", x>>, "none"))
          /\ reports[x].resolver = Resolver(x)

(* Whatever overlaps, a label is there if and only if a moderator is on    *)
(* record for it or a program inserted it, which leaves no event: whoever  *)
(* loses a conflict is refused after he had prepared his event, and it is  *)
(* not kept, though the label is there.                                    *)
LabelsOnRecord ==
    \A l \in Label : l \in labels <=> l \in unsigned \/ audit[<<"label", l>>] # <<>>

InCharge == {u \in User : status[u] = "active" /\ role[u] # "user"}

(* The platform is never left without an active moderator, by any sequence *)
(* of suspensions and grants, as long as nobody loses power while a        *)
(* request of his is open, and no admin gives up his own role: nobody can  *)
(* suspend himself, and whoever acts is in charge.                         *)
SomeoneInCharge ==
    ~undercut /\ (\E u \in User : InitialRole[u] # "user") => InCharge # {}

================================================================================
