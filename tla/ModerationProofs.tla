--------------------------- MODULE ModerationProofs ---------------------------
(***************************************************************************)
(* What Moderation guarantees for any users, rows and number of requests.  *)
(* The invariant says what the open requests have read and who sent them;  *)
(* each step opens a request or commits one.                               *)
(***************************************************************************)
EXTENDS Moderation, TLAPS

(* Of the requests about one column, only one is open, unless the column   *)
(* is contended; what it has read is still there.                          *)
ReadsCurrent ==
    \A r \in open : About(r) \notin contended =>
        /\ \A s \in open : About(s) = About(r) => s = r
        /\ r.op \in {"suspend", "unsuspend"} => r.was = status[r.target]
        /\ r.op = "grant" => r.was = role[r.target]
        /\ r.op = "resolve" => r.was = reports[r.target]

(* A report is made once, and resolved after that.                         *)
ReportsInOrder ==
    /\ \A r \in open :
          /\ r.op = "report" => reports[r.target].status = "none"
          /\ r.op = "resolve" => reports[r.target].status # "none"
    /\ \A r, s \in open :
          r.op = "report" /\ s.op = "report" /\ r.target = s.target => r = s
    /\ \A x \in Report : reports[x].status = "none" =>
          /\ audit[<<"report", x>>] = <<>> /\ audit[<<"outcome", x>>] = <<>>
          /\ reports[x].resolver = Nobody

(* Whoever has a moderator's request open is in charge, and nobody is      *)
(* about to take that from him.                                            *)
ActorsInCharge ==
    ~undercut =>
        /\ \A r \in open : r.op # "report" => r.actor \in InCharge
        /\ \A r, s \in open : ~Undercuts(r, s)

IInv ==
    /\ TypeOK
    /\ ReadsCurrent /\ ReportsInOrder /\ ActorsInCharge
    /\ AuditReplays /\ LabelsOnRecord /\ SomeoneInCharge

-------------------------------------------------------------------------------
(* The shapes of the steps                                                 *)

(* What holds of a request as it is admitted.                              *)
Opens(r) ==
    /\ RequestOK(r)
    /\ Admitted(r.actor, r.op)
    /\ begun < MaxRequests /\ begun' = begun + 1
    /\ open' = open \cup {r}
    /\ contended' = contended \cup {About(s) : s \in {s \in open : About(s) = About(r)}}
    /\ undercut' = (undercut \/ (r.op = "grant" /\ Undercuts(r, r))
                       \/ \E s \in open : Undercuts(r, s) \/ Undercuts(s, r))
    /\ UNCHANGED <<role, status, hidden, labels, reports, audit, writing, unsigned>>
    /\ r.op = "suspend" => r.target # r.actor
    /\ r.op \in {"suspend", "unsuspend"} => r.was = status[r.target]
    /\ r.op = "grant" => r.was = role[r.target]
    /\ r.op = "report" => reports[r.target].status = "none" /\ \A s \in open : s.target # r.target
    /\ r.op = "resolve" => reports[r.target].status # "none" /\ r.was = reports[r.target]

Commits(r) ==
    \/ CommitHide(r) \/ CommitStatus(r) \/ CommitGrant(r) \/ CommitLabel(r)
    \/ CommitReport(r) \/ CommitResolve(r)

Programs ==
    \/ \E due \in SUBSET Label : DetectLabels(due)
    \/ \E missing \in writing : InsertLabels(missing)

(* Begin and the guards before it are an opening.                          *)
LEMMA BeginOpens ==
    ASSUME NEW a, NEW op, NEW target, NEW to, NEW was, Begin(a, op, target, to, was),
           RequestOK([op |-> op, actor |-> a, target |-> target, to |-> to, was |-> was]),
           op = "suspend" => target # a,
           op \in {"suspend", "unsuspend"} => was = status[target],
           op = "grant" => was = role[target],
           op = "report" => reports[target].status = "none" /\ \A s \in open : s.target # target,
           op = "resolve" => reports[target].status # "none" /\ was = reports[target]
    PROVE  \E r : Opens(r)
<1> DEFINE r == [op |-> op, actor |-> a, target |-> target, to |-> to, was |-> was]
<1>1. r.op = op /\ r.actor = a /\ r.target = target /\ r.to = to /\ r.was = was
  OBVIOUS
<1>2. /\ RequestOK(r) /\ Admitted(a, op)
      /\ begun < MaxRequests /\ begun' = begun + 1
      /\ open' = open \cup {r}
      /\ contended' = contended \cup {About(s) : s \in {s \in open : About(s) = About(r)}}
      /\ undercut' = (undercut \/ (op = "grant" /\ Undercuts(r, r))
                         \/ \E s \in open : Undercuts(r, s) \/ Undercuts(s, r))
      /\ UNCHANGED <<role, status, hidden, labels, reports, audit, writing, unsigned>>
  BY DEF Begin, tables, programs
<1> HIDE DEF r
<1>3. Opens(r)
  BY <1>1, <1>2 DEF Opens
<1>4. QED
  BY <1>3

(* Every step opens a request or commits one.                              *)
LEMMA Shapes ==
    ASSUME TypeOK, Next
    PROVE  (\E r : Opens(r)) \/ (\E r \in open : Commits(r)) \/ Programs
<1>1. status \in [User -> Values] /\ role \in [User -> Values] /\ reports \in [Report -> Reports]
  BY DEF TypeOK, Values
<1>2. ASSUME NEW a \in User, NEW p \in Post, HidePost(a, p)
      PROVE  \E r : Opens(r)
  BY <1>2, BeginOpens DEF HidePost, RequestOK, Values
<1>3. ASSUME NEW a \in User, NEW u \in User, SuspendUser(a, u)
      PROVE  \E r : Opens(r)
  BY <1>1, <1>3, BeginOpens DEF SuspendUser, RequestOK
<1>4. ASSUME NEW a \in User, NEW u \in User, UnsuspendUser(a, u)
      PROVE  \E r : Opens(r)
  BY <1>1, <1>4, BeginOpens DEF UnsuspendUser, RequestOK
<1>5. ASSUME NEW a \in User, NEW u \in User, NEW to \in Roles, GrantRole(a, u, to)
      PROVE  \E r : Opens(r)
  BY <1>1, <1>5, BeginOpens DEF GrantRole, RequestOK
<1>6. ASSUME NEW a \in User, NEW l \in Label, WriteLabel(a, l)
      PROVE  \E r : Opens(r)
  BY <1>6, BeginOpens DEF WriteLabel, RequestOK, Values
<1>7. ASSUME NEW a \in User, NEW x \in Report, CreateReport(a, x)
      PROVE  \E r : Opens(r)
  BY <1>7, BeginOpens DEF CreateReport, RequestOK, Values
<1>8. ASSUME NEW a \in User, NEW x \in Report, NEW to \in Outcomes, ResolveReport(a, x, to)
      PROVE  \E r : Opens(r)
  BY <1>1, <1>8, BeginOpens DEF ResolveReport, RequestOK
<1>9. QED
  BY <1>2, <1>3, <1>4, <1>5, <1>6, <1>7, <1>8 DEF Next, Commits, Programs

(* What a commit that records its event does to the trail.                 *)
LEMMA RecordFacts ==
    ASSUME TypeOK, NEW r, RequestOK(r), Record(r)
    PROVE  /\ About(r) \in Cells
           /\ audit' \in [Cells -> Seq(Event)]
           /\ audit'[About(r)] # <<>>
           /\ Last(audit'[About(r)]).to = r.to
           /\ Last(audit'[About(r)]).actor = r.actor
           /\ \A c \in Cells : c # About(r) => audit'[c] = audit[c]
<1> DEFINE e == [actor |-> r.actor, to |-> r.to]
<1>1. About(r) \in Cells
  BY DEF RequestOK, About, Column, Cells
<1>2. r.actor \in User /\ r.to \in Values
  BY DEF RequestOK, Values
<1>3. e \in Event /\ e.to = r.to /\ e.actor = r.actor
  BY <1>2 DEF Event
<1>4. audit \in [Cells -> Seq(Event)]
  BY DEF TypeOK
<1>5. audit' = [audit EXCEPT ![About(r)] = Append(@, e)]
  BY DEF Record
<1> HIDE DEF e
<1>6. audit[About(r)] \in Seq(Event)
  BY <1>1, <1>4
<1>7. audit'[About(r)] = Append(audit[About(r)], e)
  BY <1>1, <1>4, <1>5
<1>8. /\ Append(audit[About(r)], e) \in Seq(Event)
      /\ Append(audit[About(r)], e) # <<>>
      /\ Last(Append(audit[About(r)], e)) = e
  BY <1>3, <1>6 DEF Last
<1>9. \A c \in Cells : c # About(r) => audit'[c] = audit[c]
  BY <1>4, <1>5
<1>10. audit' \in [Cells -> Seq(Event)]
  BY <1>1, <1>4, <1>5, <1>8
<1>11. QED
  BY <1>1, <1>3, <1>7, <1>8, <1>9, <1>10

(* A commit closes its request, and writes one column of one row.          *)
LEMMA CommitFacts ==
    ASSUME TypeOK, NEW r \in open, Commits(r)
    PROVE  /\ RequestOK(r)
           /\ open' = open \ {r}
           /\ UNCHANGED <<begun, contended, undercut, writing, unsigned>>
           /\ Record(r) \/ UNCHANGED audit
<1>1. RequestOK(r)
  BY DEF TypeOK
<1>2. QED
  BY <1>1 DEF Commits, CommitHide, CommitStatus, CommitGrant, CommitLabel, CommitReport,
              CommitResolve, Finish, programs

(* No event but a request's own is written.                                *)
LEMMA TrailFacts ==
    ASSUME TypeOK, NEW r \in open, Commits(r)
    PROVE  /\ audit' \in [Cells -> Seq(Event)]
           /\ \A c \in Cells : c # About(r) => audit'[c] = audit[c]
<1>1. RequestOK(r) /\ (Record(r) \/ UNCHANGED audit)
  BY CommitFacts
<1>2. CASE Record(r)
  BY <1>1, <1>2, RecordFacts
<1>3. CASE UNCHANGED audit
  BY <1>3 DEF TypeOK
<1>4. QED
  BY <1>1, <1>2, <1>3

-------------------------------------------------------------------------------
(* Types                                                                   *)

LEMMA TypeInit == Init => TypeOK
<1> SUFFICES ASSUME Init PROVE TypeOK
  OBVIOUS
<1>1. role \in [User -> Roles] /\ status \in [User -> {"active", "suspended"}]
  BY ModerationAssumption DEF Init, Roles, Permitted
<1>2. reports \in [Report -> Reports]
  BY DEF Init, Reports
<1>3. audit \in [Cells -> Seq(Event)]
  BY DEF Init
<1>4. /\ hidden \subseteq Post /\ labels \subseteq Label /\ contended \subseteq Cells
      /\ \A r \in open : RequestOK(r)
  BY DEF Init
<1>5. begun \in 0..MaxRequests
  BY ModerationAssumption DEF Init
<1>6. undercut \in BOOLEAN /\ writing \subseteq SUBSET Label /\ unsigned \subseteq Label
  BY DEF Init
<1>7. QED
  BY <1>1, <1>2, <1>3, <1>4, <1>5, <1>6 DEF TypeOK

LEMMA TypeOpens ==
    ASSUME TypeOK, NEW r, Opens(r)
    PROVE  TypeOK'
<1>1. \A s \in open' : RequestOK(s)
  BY DEF TypeOK, Opens
<1>2. begun' \in 0..MaxRequests
  BY ModerationAssumption DEF TypeOK, Opens
<1>3. \A s \in open : About(s) \in Cells
  BY DEF TypeOK, RequestOK, About, Column, Cells
<1>4. contended' \subseteq Cells
  BY <1>3 DEF TypeOK, Opens
<1>5. undercut' \in BOOLEAN
  BY DEF Opens, TypeOK
<1>6. UNCHANGED <<role, status, hidden, labels, reports, audit, writing, unsigned>>
  BY DEF Opens
<1>7. QED
  BY <1>1, <1>2, <1>4, <1>5, <1>6 DEF TypeOK, RequestOK

LEMMA TypeCommits ==
    ASSUME TypeOK, NEW r \in open, Commits(r)
    PROVE  TypeOK'
<1>1. /\ RequestOK(r) /\ open' = open \ {r}
      /\ UNCHANGED <<begun, contended, undercut, writing, unsigned>>
  BY CommitFacts
<1>2. audit' \in [Cells -> Seq(Event)]
  BY TrailFacts
<1>3. role' \in [User -> Roles]
  BY <1>1 DEF TypeOK, RequestOK, Commits, CommitHide, CommitStatus, CommitGrant, CommitLabel,
              CommitReport, CommitResolve, Written
<1>4. status' \in [User -> {"active", "suspended"}]
  BY <1>1 DEF TypeOK, RequestOK, Commits, CommitHide, CommitStatus, CommitGrant, CommitLabel,
              CommitReport, CommitResolve, Written
<1>5. hidden' \subseteq Post /\ labels' \subseteq Label
  BY <1>1 DEF TypeOK, RequestOK, Commits, CommitHide, CommitStatus, CommitGrant, CommitLabel,
              CommitReport, CommitResolve
<1>6. reports' \in [Report -> Reports]
  <2>1. reports \in [Report -> Reports]
    BY DEF TypeOK
  <2>2. CASE CommitReport(r)
    <3>1. reports' = [reports EXCEPT ![r.target].status = "open"] /\ r.target \in Report
      BY <1>1, <2>2 DEF CommitReport, RequestOK
    <3>2. [reports[r.target] EXCEPT !.status = "open"] \in Reports
      BY <2>1, <3>1 DEF Reports
    <3>3. QED
      BY <2>1, <3>1, <3>2
  <2>3. CASE CommitResolve(r)
    <3>1. r.target \in Report /\ r.to \in Outcomes /\ r.actor \in User
      BY <1>1, <2>3 DEF CommitResolve, RequestOK
    <3> DEFINE new == [status   |-> Written(r.was.status, r.to, reports[r.target].status),
                       resolver |-> Written(r.was.resolver, r.actor, reports[r.target].resolver)]
    <3>2. reports' = [reports EXCEPT ![r.target] = new]
      BY <2>3 DEF CommitResolve
    <3>3. new \in Reports
      BY <2>1, <3>1 DEF Reports, Written
    <3> HIDE DEF new
    <3>4. QED
      BY <2>1, <3>1, <3>2, <3>3
  <2>4. CASE UNCHANGED reports
    BY <2>1, <2>4
  <2>5. QED
    BY <2>2, <2>3, <2>4 DEF Commits, CommitHide, CommitStatus, CommitGrant, CommitLabel
<1>7. (\A s \in open' : RequestOK(s)) /\ begun' \in 0..MaxRequests
  BY <1>1 DEF TypeOK
<1>8. /\ contended' \subseteq Cells /\ undercut' \in BOOLEAN
      /\ writing' \subseteq SUBSET Label /\ unsigned' \subseteq Label
  BY <1>1 DEF TypeOK
<1>9. QED
  BY <1>2, <1>3, <1>4, <1>5, <1>6, <1>7, <1>8 DEF TypeOK, RequestOK

-------------------------------------------------------------------------------
(* What the open requests have read, and the order of reports              *)

(* What an admitted request has read is what is there.                     *)
LEMMA ReadsOpens ==
    ASSUME TypeOK, ReadsCurrent, NEW r, Opens(r)
    PROVE  ReadsCurrent'
<1> SUFFICES ASSUME NEW s \in open', About(s) \notin contended'
             PROVE  /\ \A t \in open' : About(t) = About(s) => t = s
                    /\ s.op \in {"suspend", "unsuspend"} => s.was = status[s.target]
                    /\ s.op = "grant" => s.was = role[s.target]
                    /\ s.op = "resolve" => s.was = reports[s.target]
  BY DEF ReadsCurrent, Opens, About, Column
<1>1. /\ open' = open \cup {r}
      /\ contended' = contended \cup {About(t) : t \in {t \in open : About(t) = About(r)}}
  BY DEF Opens
<1>2. \A t \in open : About(t) # About(r) \/ About(s) # About(r)
  BY <1>1
<1>3. CASE s = r
  BY <1>1, <1>2, <1>3 DEF Opens
<1>4. CASE s \in open
  BY <1>1, <1>2, <1>4 DEF ReadsCurrent
<1>5. QED
  BY <1>1, <1>3, <1>4

(* The only request about a column still has its value as it commits; the  *)
(* making of a report and its resolution are never open together.          *)
LEMMA ReadsCommits ==
    ASSUME TypeOK, ReadsCurrent, ReportsInOrder, NEW r \in open, Commits(r)
    PROVE  ReadsCurrent'
<1>1. /\ RequestOK(r) /\ open' = open \ {r} /\ UNCHANGED contended
  BY CommitFacts
<1> SUFFICES ASSUME NEW s \in open, s # r, About(s) \notin contended
             PROVE  /\ s.op \in {"suspend", "unsuspend"} => s.was = status'[s.target]
                    /\ s.op = "grant" => s.was = role'[s.target]
                    /\ s.op = "resolve" => s.was = reports'[s.target]
  BY <1>1 DEF ReadsCurrent, About, Column
<1>2. About(r) # About(s)
  BY DEF ReadsCurrent
<1>3. RequestOK(s)
  BY DEF TypeOK
<1>4. /\ s.op \in {"suspend", "unsuspend"} => s.was = status[s.target] /\ s.target \in User
      /\ s.op = "grant" => s.was = role[s.target] /\ s.target \in User
      /\ s.op = "resolve" => s.was = reports[s.target] /\ s.target \in Report
  BY <1>3 DEF ReadsCurrent, RequestOK
<1>5. ASSUME s.op \in {"suspend", "unsuspend"}
      PROVE  status'[s.target] = status[s.target]
  BY <1>2, <1>4, <1>5 DEF TypeOK, About, Column, Commits, CommitHide, CommitStatus, CommitGrant,
                          CommitLabel, CommitReport, CommitResolve
<1>6. ASSUME s.op = "grant"
      PROVE  role'[s.target] = role[s.target]
  BY <1>2, <1>4, <1>6 DEF TypeOK, About, Column, Commits, CommitHide, CommitStatus, CommitGrant,
                          CommitLabel, CommitReport, CommitResolve
<1>7. ASSUME s.op = "resolve"
      PROVE  reports'[s.target] = reports[s.target]
  <2>1. CASE CommitReport(r)
    <3>1. r.target # s.target
      BY <1>7, <2>1 DEF ReportsInOrder, CommitReport
    <3>2. QED
      BY <1>4, <1>7, <2>1, <3>1 DEF CommitReport, TypeOK
  <2>2. CASE CommitResolve(r)
    <3>1. r.target # s.target
      BY <1>2, <1>7, <2>2 DEF CommitResolve, About, Column
    <3>2. QED
      BY <1>4, <1>7, <2>2, <3>1 DEF CommitResolve, TypeOK
  <2>3. CASE UNCHANGED reports
    BY <2>3
  <2>4. QED
    BY <2>1, <2>2, <2>3 DEF Commits, CommitHide, CommitStatus, CommitGrant, CommitLabel
<1>8. QED
  BY <1>4, <1>5, <1>6, <1>7

LEMMA ReportsOpens ==
    ASSUME ReportsInOrder, NEW r, Opens(r)
    PROVE  ReportsInOrder'
BY DEF ReportsInOrder, Opens

LEMMA ReportsCommits ==
    ASSUME TypeOK, ReportsInOrder, NEW r \in open, Commits(r)
    PROVE  ReportsInOrder'
<1>1. RequestOK(r) /\ open' = open \ {r}
  BY CommitFacts
<1>2. \A c \in Cells : c # About(r) => audit'[c] = audit[c]
  BY TrailFacts
<1>3. \A x \in Report : <<"report", x>> \in Cells /\ <<"outcome", x>> \in Cells
  BY DEF Cells
<1>4. \A x \in Report : reports'[x].status = "none" =>
          reports'[x] = reports[x] /\ (r.op \in {"report", "resolve"} => x # r.target)
  <2>1. CASE CommitReport(r)
    BY <1>1, <2>1 DEF CommitReport, TypeOK, Reports, RequestOK
  <2>2. CASE CommitResolve(r)
    <3>1. r.target \in Report /\ reports[r.target].status # "none" /\ r.to # "none"
      BY <1>1, <2>2 DEF CommitResolve, ReportsInOrder, RequestOK, Outcomes
    <3>2. reports'[r.target].status # "none"
      BY <2>2, <3>1 DEF CommitResolve, TypeOK, Written
    <3>3. \A x \in Report : x # r.target => reports'[x] = reports[x]
      BY <2>2, <3>1 DEF CommitResolve, TypeOK
    <3>4. QED
      BY <3>2, <3>3
  <2>3. CASE r.op \notin {"report", "resolve"} /\ UNCHANGED reports
    BY <2>3
  <2>4. QED
    BY <2>1, <2>2, <2>3 DEF Commits, CommitHide, CommitStatus, CommitGrant, CommitLabel
<1>5. \A x \in Report : reports'[x].status = "none" =>
          audit'[<<"report", x>>] = audit[<<"report", x>>]
            /\ audit'[<<"outcome", x>>] = audit[<<"outcome", x>>]
  <2>1. Column(r.op) \in {"report", "outcome"} => r.op \in {"report", "resolve"}
    BY <1>1 DEF RequestOK, Column
  <2>2. \A x : (r.op \in {"report", "resolve"} => x # r.target) =>
            <<"report", x>> # About(r) /\ <<"outcome", x>> # About(r)
    BY <2>1 DEF About
  <2>3. QED
    BY <1>2, <1>3, <1>4, <2>2
<1>6. \A s \in open : RequestOK(s) /\ s # r =>
          /\ s.op = "report" => reports'[s.target].status = "none"
          /\ s.op = "resolve" => reports'[s.target].status # "none"
  <2> SUFFICES ASSUME NEW s \in open, RequestOK(s), s # r
               PROVE  /\ s.op = "report" => reports'[s.target].status = "none"
                      /\ s.op = "resolve" => reports'[s.target].status # "none"
    OBVIOUS
  <2>1. ASSUME s.op = "resolve" PROVE reports'[s.target].status # "none"
    BY <1>4, <2>1 DEF RequestOK, ReportsInOrder
  <2>2. ASSUME s.op = "report" PROVE reports'[s.target].status = "none"
    <3>1. s.target \in Report /\ reports[s.target].status = "none"
      BY <2>2 DEF RequestOK, ReportsInOrder
    <3>2. r.op \in {"report", "resolve"} => r.target # s.target
      BY <2>2, <3>1 DEF ReportsInOrder
    <3>3. QED
      BY <3>1, <3>2 DEF Commits, CommitHide, CommitStatus, CommitGrant, CommitLabel, CommitReport,
                        CommitResolve, TypeOK
  <2>3. QED
    BY <2>1, <2>2
<1>7. \A s \in open' :
          /\ s.op = "report" => reports'[s.target].status = "none"
          /\ s.op = "resolve" => reports'[s.target].status # "none"
  BY <1>1, <1>6 DEF TypeOK
<1>8. \A x \in Report : reports'[x].status = "none" =>
          /\ audit'[<<"report", x>>] = <<>> /\ audit'[<<"outcome", x>>] = <<>>
          /\ reports'[x].resolver = Nobody
  BY <1>4, <1>5 DEF ReportsInOrder
<1>9. \A s, t \in open' :
          s.op = "report" /\ t.op = "report" /\ s.target = t.target => s = t
  BY <1>1 DEF ReportsInOrder
<1>10. QED
  BY <1>7, <1>8, <1>9 DEF ReportsInOrder

-------------------------------------------------------------------------------
(* Who is in charge                                                        *)

LEMMA ChargeOpens ==
    ASSUME TypeOK, ActorsInCharge, SomeoneInCharge, NEW r, Opens(r)
    PROVE  ActorsInCharge' /\ SomeoneInCharge'
<1>1. /\ open' = open \cup {r}
      /\ undercut' = (undercut \/ (r.op = "grant" /\ Undercuts(r, r))
                         \/ \E s \in open : Undercuts(r, s) \/ Undercuts(s, r))
      /\ InCharge' = InCharge
  BY DEF Opens, InCharge
<1>2. r.op # "report" => r.actor \in InCharge
  BY DEF Opens, RequestOK, Admitted, Permitted, InCharge
<1>3. ~undercut' => ~undercut /\ ~Undercuts(r, r)
  BY <1>1 DEF Opens, Undercuts, Disempowers
<1>4. ~undercut' => \A s \in open : ~Undercuts(r, s) /\ ~Undercuts(s, r)
  BY <1>1
<1>5. ActorsInCharge'
  BY <1>1, <1>2, <1>3, <1>4 DEF ActorsInCharge, Undercuts, Disempowers
<1>6. SomeoneInCharge'
  BY <1>1, <1>3 DEF SomeoneInCharge
<1>7. QED
  BY <1>5, <1>6

(* A commit takes power from its target only, who is neither its actor nor *)
(* the actor of any other open request.                                    *)
LEMMA ChargeCommits ==
    ASSUME TypeOK, ActorsInCharge, SomeoneInCharge, NEW r \in open, Commits(r)
    PROVE  ActorsInCharge' /\ SomeoneInCharge'
<1>1. RequestOK(r) /\ open' = open \ {r} /\ UNCHANGED undercut
  BY CommitFacts
<1>2. \A u \in InCharge : u \in InCharge' \/ (Disempowers(r) /\ r.target = u)
  <2>1. CASE CommitStatus(r)
    BY <1>1, <2>1 DEF CommitStatus, InCharge, Disempowers, TypeOK, Written, RequestOK
  <2>2. CASE CommitGrant(r)
    BY <1>1, <2>2 DEF CommitGrant, InCharge, Disempowers, TypeOK, Written, RequestOK
  <2>3. CASE UNCHANGED <<role, status>>
    BY <2>3 DEF InCharge
  <2>4. QED
    BY <2>1, <2>2, <2>3 DEF Commits, CommitHide, CommitLabel, CommitReport, CommitResolve
<1>3. ActorsInCharge'
  BY <1>1, <1>2 DEF ActorsInCharge, Undercuts, Disempowers
<1>4. ASSUME ~undercut, \E u \in User : InitialRole[u] # "user"
      PROVE  InCharge' # {}
  <2>1. CASE Disempowers(r)
    <3>1. r.actor \in InCharge /\ r.actor # r.target
      BY <1>1, <1>4, <2>1 DEF ActorsInCharge, Disempowers, Undercuts
    <3>2. QED
      BY <1>2, <3>1
  <2>2. CASE ~Disempowers(r)
    BY <1>2, <1>4, <2>2 DEF SomeoneInCharge
  <2>3. QED
    BY <2>1, <2>2
<1>5. QED
  BY <1>1, <1>3, <1>4 DEF SomeoneInCharge

-------------------------------------------------------------------------------
(* The trail                                                               *)

LEMMA TrailOpens ==
    ASSUME AuditReplays, LabelsOnRecord, NEW r, Opens(r)
    PROVE  AuditReplays' /\ LabelsOnRecord'
<1>1. \A c : c \notin contended' => c \notin contended
  BY DEF Opens
<1>2. UNCHANGED <<role, status, labels, reports, audit, unsigned>>
  BY DEF Opens
<1>3. LabelsOnRecord'
  BY <1>2 DEF LabelsOnRecord
<1>4. AuditReplays'
  BY <1>1, <1>2 DEF AuditReplays, Outcome, Resolver
<1>5. QED
  BY <1>3, <1>4

LEMMA LabelsCommits ==
    ASSUME TypeOK, LabelsOnRecord, NEW r \in open, Commits(r)
    PROVE  LabelsOnRecord'
<1>1. RequestOK(r) /\ UNCHANGED unsigned
  BY CommitFacts
<1>2. \A c \in Cells : c # About(r) => audit'[c] = audit[c]
  BY TrailFacts
<1>3. \A l \in Label : <<"label", l>> \in Cells
  BY DEF Cells
<1>4. CASE CommitLabel(r)
  <2>1. r.target \in Label /\ About(r) = <<"label", r.target>>
    BY <1>1, <1>4 DEF CommitLabel, RequestOK, About, Column
  <2>2. CASE r.was = "absent" /\ r.target \in labels
    BY <1>1, <1>4, <2>2 DEF CommitLabel, LabelsOnRecord
  <2>3. CASE ~(r.was = "absent" /\ r.target \in labels)
    <3>1. labels' = labels \cup {r.target} /\ Record(r)
      BY <1>4, <2>3 DEF CommitLabel
    <3>2. audit'[<<"label", r.target>>] # <<>>
      BY <1>1, <2>1, <3>1, RecordFacts
    <3>3. \A l \in Label : l # r.target => audit'[<<"label", l>>] = audit[<<"label", l>>]
      BY <1>2, <1>3, <2>1
    <3>4. QED
      BY <1>1, <2>1, <3>1, <3>2, <3>3 DEF LabelsOnRecord
  <2>4. QED
    BY <2>2, <2>3
<1>5. CASE ~CommitLabel(r)
  <2>1. UNCHANGED labels /\ Column(r.op) # "label"
    BY <1>1, <1>5 DEF Commits, CommitHide, CommitStatus, CommitGrant, CommitReport, CommitResolve,
                      Column
  <2>2. \A l \in Label : audit'[<<"label", l>>] = audit[<<"label", l>>]
    BY <1>2, <1>3, <2>1 DEF About
  <2>3. QED
    BY <1>1, <2>1, <2>2 DEF LabelsOnRecord
<1>6. QED
  BY <1>4, <1>5

(* The parts of what the trail says.                                       *)
RoleReplays(u) ==
    <<"role", u>> \notin contended => role[u] = Outcome(<<"role", u>>, InitialRole[u])

StatusReplays(u) ==
    <<"status", u>> \notin contended => status[u] = Outcome(<<"status", u>>, "active")

ReportReplays(x) ==
    <<"outcome", x>> \notin contended =>
        /\ reports[x].status = Outcome(<<"outcome", x>>, Outcome(<<"report", x>>, "none"))
        /\ reports[x].resolver = Resolver(x)

LEMMA ReplayParts ==
    AuditReplays <=>
        /\ \A u \in User : RoleReplays(u) /\ StatusReplays(u)
        /\ \A x \in Report : ReportReplays(x)
BY DEF AuditReplays, RoleReplays, StatusReplays, ReportReplays

(* What a commit writes of a column, unless two were about to write it, is *)
(* what its event says.                                                    *)
LEMMA UsersReplay ==
    ASSUME TypeOK, ReadsCurrent, AuditReplays, NEW r \in open, Commits(r)
    PROVE  \A u \in User : RoleReplays(u)' /\ StatusReplays(u)'
<1> SUFFICES ASSUME NEW u \in User PROVE RoleReplays(u)' /\ StatusReplays(u)'
  OBVIOUS
<1>1. RequestOK(r) /\ UNCHANGED contended
  BY CommitFacts
<1>2. \A c \in Cells : c # About(r) => audit'[c] = audit[c]
  BY TrailFacts
<1>3. <<"role", u>> \in Cells /\ <<"status", u>> \in Cells
  BY DEF Cells
<1>4. RoleReplays(u) /\ StatusReplays(u)
  BY ReplayParts
<1>5. RoleReplays(u)'
  <2>1. CASE CommitGrant(r) /\ r.target = u
    <3>1. About(r) = <<"role", u>> /\ r.op = "grant" /\ Record(r)
      BY <2>1 DEF CommitGrant, About, Column
    <3>2. audit'[<<"role", u>>] # <<>> /\ Last(audit'[<<"role", u>>]).to = r.to
      BY <1>1, <3>1, RecordFacts
    <3>3. <<"role", u>> \notin contended => role'[u] = r.to
      BY <2>1, <3>1 DEF ReadsCurrent, CommitGrant, Written, TypeOK
    <3>4. QED
      BY <1>1, <3>2, <3>3 DEF RoleReplays, Outcome
  <2>2. CASE ~(CommitGrant(r) /\ r.target = u)
    <3>1. role'[u] = role[u] /\ About(r) # <<"role", u>>
      BY <1>1, <2>2 DEF RequestOK, TypeOK, About, Column, Commits, CommitHide, CommitStatus,
                        CommitGrant, CommitLabel, CommitReport, CommitResolve
    <3>2. QED
      BY <1>1, <1>2, <1>3, <1>4, <3>1 DEF RoleReplays, Outcome
  <2>3. QED
    BY <2>1, <2>2
<1>6. StatusReplays(u)'
  <2>1. CASE CommitStatus(r) /\ r.target = u
    <3>1. /\ About(r) = <<"status", u>> /\ r.op \in {"suspend", "unsuspend"}
          /\ Record(r)
      BY <2>1 DEF CommitStatus, About, Column
    <3>2. audit'[<<"status", u>>] # <<>> /\ Last(audit'[<<"status", u>>]).to = r.to
      BY <1>1, <3>1, RecordFacts
    <3>3. <<"status", u>> \notin contended => status'[u] = r.to
      BY <2>1, <3>1 DEF ReadsCurrent, CommitStatus, Written, TypeOK
    <3>4. QED
      BY <1>1, <3>2, <3>3 DEF StatusReplays, Outcome
  <2>2. CASE ~(CommitStatus(r) /\ r.target = u)
    <3>1. status'[u] = status[u] /\ About(r) # <<"status", u>>
      BY <1>1, <2>2 DEF RequestOK, TypeOK, About, Column, Commits, CommitHide, CommitStatus,
                        CommitGrant, CommitLabel, CommitReport, CommitResolve
    <3>2. QED
      BY <1>1, <1>2, <1>3, <1>4, <3>1 DEF StatusReplays, Outcome
  <2>3. QED
    BY <2>1, <2>2
<1>7. QED
  BY <1>5, <1>6

LEMMA ReportsReplay ==
    ASSUME TypeOK, ReadsCurrent, ReportsInOrder, AuditReplays, NEW r \in open, Commits(r)
    PROVE  \A x \in Report : ReportReplays(x)'
<1> SUFFICES ASSUME NEW x \in Report PROVE ReportReplays(x)'
  OBVIOUS
<1>1. RequestOK(r) /\ UNCHANGED contended
  BY CommitFacts
<1>2. \A c \in Cells : c # About(r) => audit'[c] = audit[c]
  BY TrailFacts
<1>3. <<"report", x>> \in Cells /\ <<"outcome", x>> \in Cells
  BY DEF Cells
<1>4. ReportReplays(x)
  BY ReplayParts
<1>5. CASE CommitReport(r) /\ r.target = x
  <2>1. r.op = "report" /\ r.to = "open" /\ Record(r) /\ About(r) = <<"report", x>>
    BY <1>1, <1>5 DEF CommitReport, RequestOK, About, Column
  <2>2. audit'[<<"report", x>>] # <<>> /\ Last(audit'[<<"report", x>>]).to = "open"
    BY <1>1, <2>1, RecordFacts
  <2>3. reports[x].status = "none" /\ reports[x].resolver = Nobody
    BY <1>5, <2>1 DEF ReportsInOrder
  <2>4. audit[<<"outcome", x>>] = <<>>
    BY <2>3 DEF ReportsInOrder
  <2>5. audit'[<<"outcome", x>>] = <<>>
    BY <1>2, <1>3, <2>1, <2>4
  <2>6. reports'[x].status = "open" /\ reports'[x].resolver = reports[x].resolver
    BY <1>5 DEF CommitReport, TypeOK, Reports
  <2>7. QED
    BY <2>2, <2>3, <2>5, <2>6 DEF ReportReplays, Outcome, Resolver
<1>6. CASE CommitResolve(r) /\ r.target = x
  <2>1. r.op = "resolve" /\ Record(r) /\ About(r) = <<"outcome", x>>
    BY <1>1, <1>6 DEF CommitResolve, About, Column
  <2>2. /\ audit'[<<"outcome", x>>] # <<>>
        /\ Last(audit'[<<"outcome", x>>]).to = r.to
        /\ Last(audit'[<<"outcome", x>>]).actor = r.actor
    BY <1>1, <2>1, RecordFacts
  <2>3. reports'[x].status = Written(r.was.status, r.to, reports[x].status)
    BY <1>6 DEF CommitResolve, TypeOK
  <2>4. reports'[x].resolver = Written(r.was.resolver, r.actor, reports[x].resolver)
    BY <1>6 DEF CommitResolve, TypeOK
  <2>5. <<"outcome", x>> \notin contended => r.was = reports[x]
    BY <1>6, <2>1 DEF ReadsCurrent
  <2>6. QED
    BY <1>1, <2>2, <2>3, <2>4, <2>5 DEF ReportReplays, Outcome, Resolver, Written
<1>7. CASE ~(CommitReport(r) /\ r.target = x) /\ ~(CommitResolve(r) /\ r.target = x)
  <2>1. About(r) # <<"report", x>> /\ About(r) # <<"outcome", x>>
    BY <1>1, <1>7 DEF RequestOK, About, Column, Commits, CommitHide, CommitStatus, CommitGrant,
                      CommitLabel, CommitReport, CommitResolve
  <2>2. reports'[x] = reports[x]
    BY <1>1, <1>7 DEF TypeOK, RequestOK, Commits, CommitHide, CommitStatus, CommitGrant,
                      CommitLabel, CommitReport, CommitResolve
  <2>3. audit'[<<"report", x>>] = audit[<<"report", x>>]
          /\ audit'[<<"outcome", x>>] = audit[<<"outcome", x>>]
    BY <1>2, <1>3, <2>1
  <2>4. QED
    BY <1>1, <1>4, <2>2, <2>3 DEF ReportReplays, Outcome, Resolver
<1>8. QED
  BY <1>5, <1>6, <1>7

-------------------------------------------------------------------------------
(* The invariant                                                           *)

LEMMA InitIInv == Init => IInv
<1> SUFFICES ASSUME Init PROVE IInv
  OBVIOUS
<1>1. TypeOK
  BY TypeInit
<1>2. /\ open = {} /\ labels = {} /\ unsigned = {} /\ role = InitialRole
      /\ \A u \in User : status[u] = "active"
      /\ \A x \in Report : reports[x].status = "none" /\ reports[x].resolver = Nobody
      /\ \A c \in Cells : audit[c] = <<>>
  BY DEF Init
<1>3. /\ \A u \in User : <<"role", u>> \in Cells /\ <<"status", u>> \in Cells
      /\ \A x \in Report : <<"outcome", x>> \in Cells /\ <<"report", x>> \in Cells
      /\ \A l \in Label : <<"label", l>> \in Cells
  BY DEF Cells
<1>4. ReadsCurrent /\ ActorsInCharge
  BY <1>2 DEF ReadsCurrent, ActorsInCharge
<1>5. ReportsInOrder
  BY <1>2, <1>3 DEF ReportsInOrder
<1>6. AuditReplays
  BY <1>2, <1>3 DEF AuditReplays, Outcome, Resolver
<1>7. LabelsOnRecord
  BY <1>2, <1>3 DEF LabelsOnRecord
<1>8. SomeoneInCharge
  BY <1>2 DEF SomeoneInCharge, InCharge
<1>9. QED
  BY <1>1, <1>4, <1>5, <1>6, <1>7, <1>8 DEF IInv

(* A program inserts labels that are not there, and leaves the rest alone. *)
LEMMA ProgramsKeep ==
    ASSUME IInv, Programs
    PROVE  IInv'
<1> USE DEF IInv
<1>1. /\ UNCHANGED <<role, status, hidden, reports, audit, open, begun, contended, undercut>>
      /\ writing' \subseteq SUBSET Label
  BY DEF Programs, DetectLabels, InsertLabels, tables, TypeOK
<1>2. \/ UNCHANGED <<labels, unsigned>>
      \/ \E missing \in SUBSET Label :
            labels' = labels \cup missing /\ unsigned' = unsigned \cup missing
  BY DEF Programs, DetectLabels, InsertLabels, tables, TypeOK
<1>3. TypeOK'
  <2>1. labels' \subseteq Label /\ unsigned' \subseteq Label
    BY <1>2 DEF TypeOK
  <2>2. QED
    BY <1>1, <2>1 DEF TypeOK
<1>4. LabelsOnRecord'
  BY <1>1, <1>2 DEF LabelsOnRecord
<1>5. ReadsCurrent' /\ ReportsInOrder' /\ ActorsInCharge' /\ AuditReplays' /\ SomeoneInCharge'
  BY <1>1 DEF ReadsCurrent, ReportsInOrder, ActorsInCharge, InCharge, AuditReplays, Outcome,
              Resolver, SomeoneInCharge
<1>6. QED
  BY <1>3, <1>4, <1>5

LEMMA NextIInv == IInv /\ [Next]_vars => IInv'
<1> SUFFICES ASSUME IInv, [Next]_vars PROVE IInv'
  OBVIOUS
<1> USE DEF IInv
<1>1. CASE UNCHANGED vars
  BY <1>1 DEF vars, tables, programs, TypeOK, ReadsCurrent, ReportsInOrder, ActorsInCharge, InCharge,
              AuditReplays, Outcome, Resolver, LabelsOnRecord, SomeoneInCharge
<1>2. ASSUME NEW r, Opens(r) PROVE IInv'
  <2>1. TypeOK'
    BY <1>2, TypeOpens
  <2>2. ReadsCurrent' /\ ReportsInOrder'
    BY <1>2, ReadsOpens, ReportsOpens
  <2>3. ActorsInCharge' /\ SomeoneInCharge'
    BY <1>2, ChargeOpens
  <2>4. AuditReplays' /\ LabelsOnRecord'
    BY <1>2, TrailOpens
  <2>5. QED
    BY <2>1, <2>2, <2>3, <2>4
<1>3. ASSUME NEW r \in open, Commits(r) PROVE IInv'
  <2>1. TypeOK'
    BY <1>3, TypeCommits
  <2>2. ReadsCurrent' /\ ReportsInOrder'
    BY <1>3, ReadsCommits, ReportsCommits
  <2>3. ActorsInCharge' /\ SomeoneInCharge'
    BY <1>3, ChargeCommits
  <2>4. \A u \in User : RoleReplays(u)' /\ StatusReplays(u)'
    BY <1>3, UsersReplay
  <2>5. \A x \in Report : ReportReplays(x)'
    BY <1>3, ReportsReplay
  <2>6. AuditReplays'
    BY <2>4, <2>5 DEF AuditReplays, RoleReplays, StatusReplays, ReportReplays
  <2>7. LabelsOnRecord'
    BY <1>3, LabelsCommits
  <2>8. QED
    BY <2>1, <2>2, <2>3, <2>6, <2>7
<1>4. CASE Programs
  BY <1>4, ProgramsKeep
<1>5. QED
  BY <1>1, <1>2, <1>3, <1>4, Shapes

(* The invariant holds in every state of every behaviour.                  *)
THEOREM ModerationInvariance == Spec => []IInv
<1>1. QED
  BY InitIInv, NextIInv, PTL DEF Spec

(* Every variable stays in its range: a request commits what its handler   *)
(* may write, whatever was read in between.                                *)
THEOREM ModerationTypeCorrect == Spec => []TypeOK
<1>1. IInv => TypeOK
  BY DEF IInv
<1>2. QED
  BY <1>1, ModerationInvariance, PTL

(* The last event about a column names the value in the table, for any     *)
(* number of moderators, unless two were about to write it at once.        *)
THEOREM TrailTellsTheTruth == Spec => []AuditReplays
<1>1. IInv => AuditReplays
  BY DEF IInv
<1>2. QED
  BY <1>1, ModerationInvariance, PTL

(* A label is there if and only if a moderator is on record for it or a    *)
(* program inserted it, for any number of moderators and programs.         *)
THEOREM LabelsAreOnRecord == Spec => []LabelsOnRecord
<1>1. IInv => LabelsOnRecord
  BY DEF IInv
<1>2. QED
  BY <1>1, ModerationInvariance, PTL

(* An active moderator remains, unless someone lost power with a request   *)
(* open or gave up his own role.                                           *)
THEOREM NeverWithoutModerator == Spec => []SomeoneInCharge
<1>1. IInv => SomeoneInCharge
  BY DEF IInv
<1>2. QED
  BY <1>1, ModerationInvariance, PTL

===============================================================================
