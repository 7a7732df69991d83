-------------------------- MODULE ModerationProofs --------------------------
(***************************************************************************)
(* What holds of Moderation for any users, listings, reports and requests. *)
(* The properties are almost inductive: what is missing is what a request  *)
(* carries from the statement that read it, and that a decision to suspend *)
(* already taken counts like the suspension.                               *)
(***************************************************************************)
EXTENDS Moderation, TLAPS

\* A request carries what its statements need.
RequestFits(q) ==
  /\ q.op = "report" => q.target \in Users
  /\ q.op \in Decisions => q.id \in Ids
  /\ q.op \in {"publish", "withdraw"} => q.listing \in Listings

RequestsFit == \A r \in Requests : RequestFits(request[r])

\* An administrator who is suspended, or is about to be, was appointed after
\* the decision.
AdminsKnown ==
  \A u \in Users : user[u].admin /\ (user[u].suspended \/ About(u)) => u \in promoted

Inv == TypeOK /\ RequestsFit /\ AdminsKnown /\ RemovedWithdrawn /\ ReportsStand

-----------------------------------------------------------------------------
(* Requests.                                                               *)

LEMMA NoRequestFits == NoRequest \in Request /\ RequestFits(NoRequest)
BY DEF NoRequest, Request, RequestFits, Decisions, Ops, Stages

\* The requests after a step of one of them.
LEMMA OneRequest ==
  ASSUME TypeOK, RequestsFit, NEW r \in Requests, NEW x \in Request, RequestFits(x),
         request' = [request EXCEPT ![r] = x]
  PROVE  request' \in [Requests -> Request] /\ RequestsFit'
BY DEF TypeOK, RequestsFit

\* It goes on to another stage with what it has, or it is over.
LEMMA StageRequest ==
  ASSUME TypeOK, RequestsFit, NEW r \in Requests, NEW stage \in Stages,
         Goto(r, stage) \/ Finish(r)
  PROVE  request' \in [Requests -> Request] /\ RequestsFit'
<1>1. CASE Goto(r, stage)
  <2>. DEFINE x == [request[r] EXCEPT !.stage = stage]
  <2>1. request' = [request EXCEPT ![r] = x]
    BY <1>1 DEF Goto, TypeOK
  <2>2. x \in Request /\ RequestFits(x)
    BY DEF TypeOK, RequestsFit, Request, RequestFits
  <2>. HIDE DEF x
  <2>. QED
    BY <2>1, <2>2, OneRequest
<1>2. CASE Finish(r)
  BY <1>2, NoRequestFits, OneRequest DEF Finish
<1>. QED
  BY <1>1, <1>2

LEMMA ReceiveRequest ==
  ASSUME TypeOK, RequestsFit, NEW r \in Requests, NEW q \in Request, RequestFits(q), Receive(r, q)
  PROVE  request' \in [Requests -> Request] /\ RequestsFit'
BY OneRequest DEF Receive

\* The steps of the requests that only read.
Reads(r) ==
  \/ SendReport(r) \/ NameTarget(r) \/ CountReports(r) \/ FindReport(r)
  \/ SendDecision(r) \/ SendUndo(r) \/ RequireAdmin(r) \/ Decide(r)
  \/ SendActive(r) \/ RequireEditable(r) \/ Abort(r)

LEMMA ReadsRequest ==
  ASSUME TypeOK, RequestsFit, NEW r \in Requests, Reads(r)
  PROVE  request' \in [Requests -> Request] /\ RequestsFit'
<1>1. CASE SendReport(r)
  <2>1. PICK u, t \in Users, l \in Listings \cup {None} :
          Receive(r, [NoRequest EXCEPT !.op = "report", !.stage = "received",
                        !.user = u, !.target = t, !.listing = l])
    BY <1>1 DEF SendReport
  <2>. DEFINE q == [NoRequest EXCEPT !.op = "report", !.stage = "received",
                      !.user = u, !.target = t, !.listing = l]
  <2>2. q \in Request /\ RequestFits(q)
    BY NoRequestFits DEF Request, RequestFits, NoRequest, Ops, Stages, Decisions
  <2>. HIDE DEF q
  <2>. QED
    BY <2>1, <2>2, ReceiveRequest DEF q
<1>2. CASE SendDecision(r)
  <2>1. PICK u \in Users, i \in Ids, op \in Decisions :
          Receive(r, [NoRequest EXCEPT !.op = op, !.stage = "received", !.user = u, !.id = i])
    BY <1>2 DEF SendDecision
  <2>. DEFINE q == [NoRequest EXCEPT !.op = op, !.stage = "received", !.user = u, !.id = i]
  <2>2. q \in Request /\ RequestFits(q)
    BY NoRequestFits DEF Request, RequestFits, NoRequest, Ops, Stages, Decisions
  <2>. HIDE DEF q
  <2>. QED
    BY <2>1, <2>2, ReceiveRequest DEF q
<1>3. CASE SendUndo(r)
  <2>1. CASE \E u, t \in Users :
               Receive(r, [NoRequest EXCEPT !.op = "unsuspend", !.stage = "received",
                             !.user = u, !.target = t])
    <3>1. PICK u, t \in Users :
            Receive(r, [NoRequest EXCEPT !.op = "unsuspend", !.stage = "received",
                          !.user = u, !.target = t])
      BY <2>1
    <3>. DEFINE q == [NoRequest EXCEPT !.op = "unsuspend", !.stage = "received",
                        !.user = u, !.target = t]
    <3>2. q \in Request /\ RequestFits(q)
      BY NoRequestFits DEF Request, RequestFits, NoRequest, Ops, Stages, Decisions
    <3>. HIDE DEF q
    <3>. QED
      BY <3>1, <3>2, ReceiveRequest DEF q
  <2>2. CASE \E u \in Users, l \in Listings :
               Receive(r, [NoRequest EXCEPT !.op = "restore", !.stage = "received",
                             !.user = u, !.listing = l])
    <3>1. PICK u \in Users, l \in Listings :
            Receive(r, [NoRequest EXCEPT !.op = "restore", !.stage = "received",
                          !.user = u, !.listing = l])
      BY <2>2
    <3>. DEFINE q == [NoRequest EXCEPT !.op = "restore", !.stage = "received",
                        !.user = u, !.listing = l]
    <3>2. q \in Request /\ RequestFits(q)
      BY NoRequestFits DEF Request, RequestFits, NoRequest, Ops, Stages, Decisions
    <3>. HIDE DEF q
    <3>. QED
      BY <3>1, <3>2, ReceiveRequest DEF q
  <2>. QED
    BY <1>3, <2>1, <2>2 DEF SendUndo
<1>4. CASE SendActive(r)
  <2>1. PICK l \in Listings, op \in {"publish", "withdraw"} :
          Receive(r, [NoRequest EXCEPT !.op = op, !.stage = "received",
                        !.user = Owner[l], !.listing = l])
    BY <1>4 DEF SendActive
  <2>. DEFINE q == [NoRequest EXCEPT !.op = op, !.stage = "received",
                      !.user = Owner[l], !.listing = l]
  <2>2. q \in Request /\ RequestFits(q)
    BY NoRequestFits, ModerationAssumption
       DEF Request, RequestFits, NoRequest, Ops, Stages, Decisions
  <2>. HIDE DEF q
  <2>. QED
    BY <2>1, <2>2, ReceiveRequest DEF q
<1>5. CASE Decide(r)
  <2>1. CASE Finish(r)
    BY <2>1, StageRequest DEF Stages
  <2>2. CASE Open(request[r].id) /\ ~Finish(r)
    <3>. DEFINE p == report[request[r].id]
                x == [request[r] EXCEPT !.stage = "decided", !.target = p.target,
                                        !.listing = p.listing]
    <3>1. request' = [request EXCEPT ![r] = x]
      BY <1>5, <2>2 DEF Decide, TypeOK
    <3>2. request[r].id \in Ids /\ request[r].op \in Decisions
      BY <1>5 DEF Decide, RequestsFit, RequestFits
    <3>3. p \in Report
      BY <2>2, <3>2 DEF TypeOK, Open, NoReport
    <3>4. request[r] \in Request /\ p.target \in Users /\ p.listing \in Listings \cup {None}
      BY <3>3 DEF TypeOK, Report
    <3>5. x \in Request
      BY <3>4 DEF Request, Stages
    <3>6. RequestFits(x)
      BY <3>2, <3>4, <3>5 DEF RequestFits, Request, Decisions
    <3>. HIDE DEF x
    <3>. QED
      BY <3>1, <3>5, <3>6, OneRequest
  <2>. QED
    BY <1>5, <2>1, <2>2 DEF Decide
<1>6. CASE NameTarget(r) \/ CountReports(r) \/ FindReport(r) \/ RequireAdmin(r)
           \/ RequireEditable(r) \/ Abort(r)
  <2>1. "named" \in Stages /\ "counted" \in Stages /\ "admin" \in Stages /\ "editable" \in Stages
    BY DEF Stages
  <2>2. Finish(r) \/ Goto(r, "named") \/ Goto(r, "counted") \/ Goto(r, "admin")
          \/ Goto(r, "editable")
    BY <1>6, Zenon DEF NameTarget, CountReports, FindReport, RequireAdmin, RequireEditable, Abort,
                       Pass
  <2>. QED
    BY <2>1, <2>2, StageRequest
<1>. QED
  BY <1>1, <1>2, <1>3, <1>4, <1>5, <1>6 DEF Reads
-----------------------------------------------------------------------------
(* The steps.                                                              *)

\* A request that starts, goes on or ends takes no decision to suspend.
LEMMA NoNewSuspension ==
  ASSUME TypeOK, NEW r \in Requests, NEW q, q.stage # "decided",
         request' = [request EXCEPT ![r] = q]
  PROVE  \A u \in Users : About(u)' => About(u)
BY DEF TypeOK, About, At

LEMMA PassNoSuspension ==
  ASSUME TypeOK, NEW r \in Requests, NEW stage \in Stages \ {"decided"},
         Goto(r, stage) \/ Finish(r)
  PROVE  \A u \in Users : About(u)' => About(u)
<1>1. CASE Goto(r, stage)
  BY <1>1 DEF Goto, TypeOK, Request, About, At
<1>2. CASE Finish(r)
  BY <1>2, NoNewSuspension DEF Finish, NoRequest
<1>. QED
  BY <1>1, <1>2

\* The steps that only read keep it: a decision to suspend is about somebody
\* who is not an administrator.
LEMMA ReadsInv ==
  ASSUME Inv, NEW r \in Requests, Reads(r)
  PROVE  Inv'
<1>1. UNCHANGED <<user, listing, report, day, history>>
  BY DEF Reads, SendReport, NameTarget, CountReports, FindReport, SendDecision, SendUndo,
         RequireAdmin, Decide, SendActive, RequireEditable, Abort, Receive
<1>2. TypeOK' /\ RequestsFit'
  BY <1>1, ReadsRequest DEF Inv, TypeOK, history
<1>3. AdminsKnown'
  <2>1. CASE \A u \in Users : About(u)' => About(u)
    BY <1>1, <2>1 DEF Inv, AdminsKnown, history
  <2>2. CASE Decide(r)
    <3>1. ASSUME NEW u \in Users, About(u)', ~About(u)
          PROVE  ~user[u].admin
      <4>1. PICK s \in Requests : /\ request'[s].op = "suspend" /\ request'[s].stage = "decided"
                                  /\ request'[s].target = u
        BY <3>1 DEF About, At
      <4>2. s = r
        BY <3>1, <4>1, <2>2 DEF Inv, TypeOK, Decide, Finish, About, At
      <4>3. ~Finish(r)
        BY <4>1, <4>2 DEF Inv, TypeOK, Finish, NoRequest
      <4>4. /\ request'[r].op = request[r].op
            /\ request'[r].target = report[request[r].id].target
        <5>1. request'[r] = [request[r] EXCEPT !.stage = "decided",
                               !.target = report[request[r].id].target,
                               !.listing = report[request[r].id].listing]
          BY <2>2, <4>3 DEF Inv, TypeOK, Decide
        <5>. QED
          BY <5>1 DEF Inv, TypeOK, Request
      <4>5. ~user[report[request[r].id].target].admin
        BY <2>2, <4>1, <4>2, <4>3, <4>4 DEF Decide
      <4>. QED
        BY <4>1, <4>2, <4>4, <4>5
    <3>. QED
      BY <1>1, <3>1 DEF Inv, AdminsKnown, history
  <2>3. CASE SendReport(r) \/ SendDecision(r) \/ SendUndo(r) \/ SendActive(r)
    <3>1. \E q : q.stage = "received" /\ request' = [request EXCEPT ![r] = q]
      BY <2>3 DEF SendReport, SendDecision, SendUndo, SendActive, Receive, NoRequest
    <3>. QED
      BY <2>1, <3>1, NoNewSuspension DEF Inv
  <2>4. CASE NameTarget(r) \/ CountReports(r) \/ FindReport(r) \/ RequireAdmin(r)
             \/ RequireEditable(r) \/ Abort(r)
    <3>1. "named" \in Stages \ {"decided"} /\ "counted" \in Stages \ {"decided"}
          /\ "admin" \in Stages \ {"decided"} /\ "editable" \in Stages \ {"decided"}
      BY DEF Stages
    <3>2. Finish(r) \/ Goto(r, "named") \/ Goto(r, "counted") \/ Goto(r, "admin")
            \/ Goto(r, "editable")
      BY <2>4, Zenon DEF NameTarget, CountReports, FindReport, RequireAdmin, RequireEditable,
                         Abort, Pass
    <3>. QED
      BY <2>1, <3>1, <3>2, PassNoSuspension DEF Inv
  <2>. QED
    BY <2>2, <2>3, <2>4 DEF Reads
<1>. QED
  BY <1>1, <1>2, <1>3 DEF Inv, history, RemovedWithdrawn, ReportsStand, OneOpenReport,
                          NothingLeftOpen, SameKey, Open

\* What the last statement of a request leaves of the others.
LEMMA FinishKeeps ==
  ASSUME Inv, NEW r \in Requests, Finish(r)
  PROVE  /\ request' \in [Requests -> Request] /\ RequestsFit'
         /\ \A u \in Users : About(u)' => About(u)
BY StageRequest, PassNoSuspension DEF Inv, Stages

\* Reports that close, or go, leave the others as they were, if nobody and
\* nothing these are about is suspended or removed.
LEMMA FewerReports ==
  ASSUME Inv,
         \A i \in Ids : Open(i)' =>
           /\ Open(i) /\ report'[i] = report[i]
           /\ user'[report[i].target].suspended => user[report[i].target].suspended
           /\ report[i].listing # None /\ listing'[report[i].listing].removed
                => listing[report[i].listing].removed
  PROVE  ReportsStand'
BY DEF Inv, ReportsStand, OneOpenReport, NothingLeftOpen, SameKey, Open

LEMMA CloseReports ==
  ASSUME Inv, NEW r, NEW S, NEW status \in {"dismissed", "resolved"}, Close(r, S, status)
  PROVE  /\ report' \in [Ids -> Report \cup {NoReport}]
         /\ \A i \in Ids : Open(i)' => Open(i) /\ report'[i] = report[i] /\ i \notin S
<1>1. ASSUME NEW i \in Ids, Open(i)
      PROVE  /\ [report[i] EXCEPT !.status = status, !.closed = day] \in Report
             /\ [report[i] EXCEPT !.status = status, !.closed = day].status # "open"
  <2>1. report[i] \in Report /\ day \in Days
    BY <1>1 DEF Inv, TypeOK, Open, NoReport
  <2>. QED
    BY <2>1 DEF Report
<1>2. \A i \in Ids : report'[i] = IF i \in S /\ Open(i)
        THEN [report[i] EXCEPT !.status = status, !.closed = day] ELSE report[i]
  BY DEF Close
<1>3. report' \in [Ids -> Report \cup {NoReport}]
  BY <1>1 DEF Inv, TypeOK, Close
<1>. QED
  BY <1>1, <1>2, <1>3 DEF Open

\* The last statement of a request.
LEMMA InsertReportInv ==
  ASSUME Inv, NEW r \in Requests, InsertReport(r)
  PROVE  Inv'
<1>. DEFINE q == request[r]
<1>1. UNCHANGED <<user, listing, day, history>>
  BY DEF InsertReport
<1>2. request' \in [Requests -> Request] /\ RequestsFit' /\ \A u \in Users : About(u)' => About(u)
  <2>1. Finish(r) \/ Goto(r, "conflict")
    BY DEF InsertReport
  <2>2. "conflict" \in Stages \ {"decided"}
    BY DEF Stages
  <2>. QED
    BY <2>1, <2>2, StageRequest, PassNoSuspension DEF Inv
<1>3. report' \in [Ids -> Report \cup {NoReport}] /\ ReportsStand'
  <2>1. CASE UNCHANGED report
    BY <1>1, <2>1, FewerReports DEF Inv, TypeOK, history, Open
  <2>2. CASE ~UNCHANGED report
    <3>. DEFINE new == [by |-> q.user, target |-> q.target, listing |-> q.listing,
                        status |-> "open", sent |-> day, closed |-> 0,
                        late |-> \/ user[q.target].suspended
                                 \/ q.listing # None /\ listing[q.listing].removed]
    <3>1. PICK i \in Ids : Fresh(i) /\ report' = [report EXCEPT ![i] = new]
      BY <2>2 DEF InsertReport
    <3>2. q.target \in Users /\ q \in Request
      BY DEF InsertReport, At, Inv, TypeOK, RequestsFit, RequestFits
    <3>3. new.late \in BOOLEAN
      BY <3>2 DEF Request, Inv, TypeOK, User, Listing
    <3>4. new \in Report
      <4>1. q.user \in Users \cup {None} /\ q.listing \in Listings \cup {None}
        BY <3>2 DEF Request
      <4>2. day \in Days /\ 0 \in Days
        BY ModerationAssumption DEF Inv, TypeOK, Days
      <4>. QED
        BY <3>2, <3>3, <4>1, <4>2 DEF Report
    <3>5. ~\E j \in Ids : SameKey(j, q.user, q.target, q.listing)
      BY <2>2 DEF InsertReport
    <3>6. /\ report'[i] = new /\ \A j \in Ids \ {i} : report'[j] = report[j]
      BY <3>1 DEF Inv, TypeOK
    <3>7. /\ new.by = q.user /\ new.target = q.target /\ new.listing = q.listing
          /\ ~new.late => /\ ~user[q.target].suspended
                          /\ q.listing # None => ~listing[q.listing].removed
      OBVIOUS
    <3>. HIDE DEF new
    <3>8. report' \in [Ids -> Report \cup {NoReport}]
      BY <3>1, <3>4 DEF Inv, TypeOK
    <3>9. OneOpenReport'
      BY <3>5, <3>6, <3>7 DEF Inv, ReportsStand, OneOpenReport, SameKey, Open
    <3>10. NothingLeftOpen'
      <4>1. SUFFICES ASSUME NEW j \in Ids, Open(j)', ~report'[j].late
                     PROVE  /\ ~user[report'[j].target].suspended
                            /\ report'[j].listing # None => ~listing[report'[j].listing].removed
        BY <1>1 DEF NothingLeftOpen, history
      <4>2. CASE j = i
        <5>1. report'[j] = new
          BY <3>6, <4>2
        <5>2. ~new.late
          BY <4>1, <5>1, Zenon
        <5>. QED
          BY <3>7, <5>1, <5>2
      <4>3. CASE j # i
        <5>1. report'[j] = report[j]
          BY <3>6, <4>3
        <5>2. Open(j) /\ ~report[j].late
          BY <4>1, <5>1, Zenon DEF Open
        <5>. QED
          BY <5>1, <5>2, Zenon DEF Inv, ReportsStand, NothingLeftOpen
      <4>. QED
        BY <4>2, <4>3
    <3>. QED
      BY <3>8, <3>9, <3>10 DEF ReportsStand
  <2>. QED
    BY <2>1, <2>2
<1>. QED
  BY <1>1, <1>2, <1>3 DEF Inv, TypeOK, AdminsKnown, RemovedWithdrawn, history

LEMMA DismissInv ==
  ASSUME Inv, NEW r \in Requests, Dismiss(r)
  PROVE  Inv'
<1>1. UNCHANGED <<user, listing, day, history>> /\ Finish(r)
  BY DEF Dismiss
<1>2. report' \in [Ids -> Report \cup {NoReport}] /\ ReportsStand'
  <2>1. CASE UNCHANGED report
    BY <1>1, <2>1, FewerReports DEF Inv, TypeOK, history, Open
  <2>2. CASE Close(r, {request[r].id}, "dismissed")
    BY <1>1, <2>2, CloseReports, FewerReports DEF history
  <2>. QED
    BY <2>1, <2>2 DEF Dismiss
<1>. QED
  BY <1>1, <1>2, FinishKeeps DEF Inv, TypeOK, AdminsKnown, RemovedWithdrawn, history

LEMMA RemoveListingInv ==
  ASSUME Inv, NEW r \in Requests, RemoveListing(r)
  PROVE  Inv'
<1>. DEFINE l == request[r].listing
            S == {request[r].id} \cup {i \in Ids : report[i].listing = l}
<1>1. UNCHANGED <<user, day, history>> /\ Finish(r)
  BY DEF RemoveListing
<1>2. /\ listing' \in [Listings -> Listing]
      /\ \A k \in Listings : \/ listing'[k] = listing[k]
                             \/ k = l /\ ~listing'[k].active
  <2>1. \/ listing' = listing
        \/ listing' = [listing EXCEPT ![l].removed = TRUE, ![l].active = FALSE]
    BY DEF RemoveListing
  <2>2. listing \in [Listings -> Listing]
    BY DEF Inv, TypeOK
  <2>3. CASE listing' = [listing EXCEPT ![l].removed = TRUE, ![l].active = FALSE]
    <3>1. \A k \in Listings : listing'[k] = IF k = l
            THEN [listing[k] EXCEPT !.removed = TRUE, !.active = FALSE] ELSE listing[k]
      BY <2>2, <2>3
    <3>2. listing' \in [Listings -> Listing]
      BY <2>2, <2>3 DEF Listing
    <3>3. l \in Listings => ~listing'[l].active
      BY <2>2, <3>1 DEF Listing
    <3>4. \A k \in Listings : k = l \/ listing'[k] = listing[k]
      BY <3>1
    <3>. QED
      BY <3>2, <3>3, <3>4, Zenon
  <2>4. CASE listing' = listing
    BY <2>2, <2>4, Zenon
  <2>. QED
    BY <2>1, <2>3, <2>4, Zenon
<1>3. report' \in [Ids -> Report \cup {NoReport}] /\ ReportsStand'
  <2>1. CASE UNCHANGED <<listing, report>>
    BY <1>1, <2>1, FewerReports DEF Inv, TypeOK, history, Open
  <2>2. CASE Close(r, S, "resolved")
    <3>1. ASSUME NEW i \in Ids, Open(i)'
          PROVE  /\ Open(i) /\ report'[i] = report[i]
                 /\ report[i].listing # None => listing'[report[i].listing] = listing[report[i].listing]
      <4>1. Open(i) /\ report'[i] = report[i] /\ i \notin S
        BY <2>2, <3>1, CloseReports
      <4>2. report[i].listing # l /\ report[i].listing \in Listings \cup {None}
        BY <4>1 DEF Inv, TypeOK, Report, NoReport
      <4>. QED
        BY <1>2, <4>1, <4>2
    <3>. QED
      BY <1>1, <2>2, <3>1, CloseReports, FewerReports DEF history
  <2>. QED
    BY <2>1, <2>2 DEF RemoveListing
<1>. QED
  BY <1>1, <1>2, <1>3, FinishKeeps DEF Inv, TypeOK, AdminsKnown, RemovedWithdrawn, history

LEMMA SuspendUserInv ==
  ASSUME Inv, NEW r \in Requests, SuspendUser(r)
  PROVE  Inv'
<1>. DEFINE t == request[r].target
            S == {request[r].id} \cup {i \in Ids : report[i].target = t}
<1>1. UNCHANGED <<listing, day, history>> /\ Finish(r) /\ (t \in Users => About(t))
  BY DEF SuspendUser, About
<1>2. /\ user' \in [Users -> User]
      /\ \A u \in Users : /\ user'[u].admin => user[u].admin
                          /\ user'[u] = user[u] \/ u = t
  <2>1. user' = user \/ user' = [user EXCEPT ![t].suspended = TRUE]
    BY DEF SuspendUser
  <2>2. user \in [Users -> User]
    BY DEF Inv, TypeOK
  <2>3. CASE user' = [user EXCEPT ![t].suspended = TRUE]
    <3>1. \A u \in Users : user'[u] = IF u = t THEN [user[u] EXCEPT !.suspended = TRUE] ELSE user[u]
      BY <2>2, <2>3
    <3>2. user' \in [Users -> User]
      BY <2>2, <2>3 DEF User
    <3>. QED
      BY <2>2, <3>1, <3>2 DEF User
  <2>. QED
    BY <2>1, <2>2, <2>3
<1>3. report' \in [Ids -> Report \cup {NoReport}] /\ ReportsStand'
  <2>1. CASE UNCHANGED <<user, report>>
    BY <1>1, <2>1, FewerReports DEF Inv, TypeOK, history, Open
  <2>2. CASE Close(r, S, "resolved")
    <3>1. ASSUME NEW i \in Ids, Open(i)'
          PROVE  /\ Open(i) /\ report'[i] = report[i]
                 /\ user'[report[i].target] = user[report[i].target]
      <4>1. Open(i) /\ report'[i] = report[i] /\ i \notin S
        BY <2>2, <3>1, CloseReports
      <4>2. report[i].target # t /\ report[i].target \in Users
        BY <4>1 DEF Inv, TypeOK, Report, NoReport, Open
      <4>. QED
        BY <1>2, <4>1, <4>2
    <3>. QED
      BY <1>1, <2>2, <3>1, CloseReports, FewerReports DEF history
  <2>. QED
    BY <2>1, <2>2 DEF SuspendUser
<1>4. AdminsKnown'
  <2>1. ASSUME NEW u \in Users, user'[u].admin, user'[u].suspended \/ About(u)'
        PROVE  u \in promoted
    <3>1. user[u].admin
      BY <1>2, <2>1, Zenon
    <3>2. user[u].suspended \/ About(u)
      BY <1>1, <1>2, <2>1, FinishKeeps
    <3>. QED
      BY <3>1, <3>2 DEF Inv, AdminsKnown
  <2>. QED
    BY <1>1, <2>1 DEF AdminsKnown, history
<1>. QED
  BY <1>1, <1>2, <1>3, <1>4, FinishKeeps DEF Inv, TypeOK, RemovedWithdrawn, history

LEMMA UnsuspendInv ==
  ASSUME Inv, NEW r \in Requests, Unsuspend(r)
  PROVE  Inv'
<1>. DEFINE t == request[r].target
<1>1. UNCHANGED <<listing, report, day, history>> /\ Finish(r)
  BY DEF Unsuspend
<1>2. user' = [user EXCEPT ![t].suspended = FALSE] /\ user \in [Users -> User]
  BY DEF Unsuspend, Inv, TypeOK
<1>. HIDE DEF t
<1>3. user' \in [Users -> User]
  BY <1>2 DEF User
<1>4. \A u \in Users : user'[u].suspended => user[u].suspended
  BY <1>2 DEF User
<1>5. \A u \in Users : user'[u].admin => user[u].admin
  BY <1>2 DEF User
<1>6. ReportsStand'
  BY <1>1, <1>4, FewerReports DEF Inv, TypeOK, Open, Report, NoReport, history
<1>7. AdminsKnown'
  <2>1. ASSUME NEW u \in Users, user'[u].admin, user'[u].suspended \/ About(u)'
        PROVE  u \in promoted
    <3>1. user[u].admin /\ (user[u].suspended \/ About(u))
      BY <1>1, <1>4, <1>5, <2>1, FinishKeeps
    <3>. QED
      BY <3>1 DEF Inv, AdminsKnown
  <2>. QED
    BY <1>1, <2>1 DEF AdminsKnown, history
<1>. QED
  BY <1>1, <1>3, <1>6, <1>7, FinishKeeps DEF Inv, TypeOK, RemovedWithdrawn, history

LEMMA RestoreInv ==
  ASSUME Inv, NEW r \in Requests, Restore(r)
  PROVE  Inv'
<1>. DEFINE l == request[r].listing
<1>1. /\ UNCHANGED <<user, report, day, promoted>> /\ Finish(r)
      /\ republished' = republished \ {l}
  BY DEF Restore
<1>2. listing' = [listing EXCEPT ![l].removed = FALSE] /\ listing \in [Listings -> Listing]
  BY DEF Restore, Inv, TypeOK
<1>. HIDE DEF l
<1>3. listing' \in [Listings -> Listing]
  BY <1>2 DEF Listing
<1>4. \A k \in Listings : listing'[k].removed => k # l /\ listing'[k] = listing[k]
  BY <1>2 DEF Listing
<1>5. ReportsStand'
  BY <1>1, <1>4, FewerReports DEF Inv, TypeOK, Open, Report, NoReport
<1>6. RemovedWithdrawn'
  <2>1. ASSUME NEW k \in Listings, listing'[k].removed, listing'[k].active
        PROVE  k \in republished'
    <3>1. k # l /\ listing[k].removed /\ listing[k].active
      BY <1>4, <2>1
    <3>. QED
      BY <1>1, <3>1 DEF Inv, RemovedWithdrawn
  <2>. QED
    BY <2>1 DEF RemovedWithdrawn
<1>. QED
  BY <1>1, <1>3, <1>5, <1>6, FinishKeeps DEF Inv, TypeOK, AdminsKnown

LEMMA SetActiveInv ==
  ASSUME Inv, NEW r \in Requests, SetActive(r)
  PROVE  Inv'
<1>. DEFINE l == request[r].listing
            on == request[r].op = "publish"
<1>1. UNCHANGED <<user, report, day, promoted>> /\ Finish(r) /\ l \in Listings
  BY DEF SetActive, Inv, RequestsFit, RequestFits
<1>2. CASE UNCHANGED <<listing, republished>>
  BY <1>1, <1>2, FinishKeeps, FewerReports
     DEF Inv, TypeOK, Open, AdminsKnown, RemovedWithdrawn
<1>3. CASE /\ listing' = [listing EXCEPT ![l].active = on]
           /\ republished' = IF on /\ listing[l].removed
                               THEN republished \cup {l} ELSE republished \ {l}
  <2>. HIDE DEF l, on
  <2>1. on \in BOOLEAN /\ listing \in [Listings -> Listing]
    BY DEF on, Inv, TypeOK
  <2>2. listing' \in [Listings -> Listing]
    BY <1>3, <2>1 DEF Listing
  <2>3. /\ \A k \in Listings : listing'[k].removed => listing[k].removed
        /\ \A k \in Listings \ {l} : listing'[k] = listing[k]
        /\ listing'[l].active => on
    BY <1>1, <1>3, <2>1 DEF Listing
  <2>4. ReportsStand'
    BY <1>1, <2>3, FewerReports DEF Inv, TypeOK, Open, Report, NoReport
  <2>5. republished' \subseteq Listings
    BY <1>1, <1>3 DEF Inv, TypeOK
  <2>6. RemovedWithdrawn'
    <3>1. ASSUME NEW k \in Listings, listing'[k].removed, listing'[k].active
          PROVE  k \in republished'
      <4>1. CASE k = l
        <5>1. on /\ listing[l].removed
          BY <2>3, <3>1, <4>1
        <5>. QED
          BY <1>3, <4>1, <5>1
      <4>2. CASE k # l
        <5>1. listing[k].removed /\ listing[k].active
          BY <2>3, <3>1, <4>2
        <5>2. k \in republished
          BY <5>1 DEF Inv, RemovedWithdrawn
        <5>. QED
          BY <1>3, <4>2, <5>2
      <4>. QED
        BY <4>1, <4>2
    <3>. QED
      BY <3>1 DEF RemovedWithdrawn
  <2>. QED
    BY <1>1, <2>2, <2>4, <2>5, <2>6, FinishKeeps DEF Inv, TypeOK, AdminsKnown
<1>. QED
  BY <1>2, <1>3 DEF SetActive

(* The steps of nobody's request.                                          *)

LEMMA PurgeInv ==
  ASSUME Inv, Purge
  PROVE  Inv'
<1>1. UNCHANGED <<user, listing, request, day, history>>
  BY DEF Purge
<1>2. \A i \in Ids : report'[i] = report[i] \/ report'[i] = NoReport
  BY DEF Purge
<1>3. report' \in [Ids -> Report \cup {NoReport}]
  BY DEF Inv, TypeOK, Purge
<1>4. ReportsStand'
  BY <1>1, <1>2, FewerReports DEF Inv, Open, NoReport, history
<1>. QED
  BY <1>1, <1>3, <1>4
     DEF Inv, TypeOK, RequestsFit, AdminsKnown, About, At, RemovedWithdrawn, history

LEMMA SetAdminInv ==
  ASSUME Inv, NEW u \in Users, SetAdmin(u)
  PROVE  Inv'
<1>1. /\ UNCHANGED <<listing, report, request, day, republished>>
      /\ user' = [user EXCEPT ![u].admin = ~@] /\ user \in [Users -> User]
      /\ promoted' = IF ~user[u].admin /\ (user[u].suspended \/ About(u))
                       THEN promoted \cup {u} ELSE promoted \ {u}
  BY DEF SetAdmin, Inv, TypeOK
<1>2. user' \in [Users -> User] /\ promoted' \subseteq Users
  BY <1>1 DEF User, Inv, TypeOK
<1>3. /\ \A v \in Users : user'[v].suspended => user[v].suspended
      /\ \A v \in Users \ {u} : user'[v] = user[v]
      /\ user'[u].admin => ~user[u].admin
  BY <1>1 DEF User
<1>4. ReportsStand'
  BY <1>1, <1>3, FewerReports DEF Inv, TypeOK, Open, Report, NoReport
<1>5. AdminsKnown'
  <2>1. ASSUME NEW v \in Users, user'[v].admin, user'[v].suspended \/ About(v)'
        PROVE  v \in promoted'
    <3>1. user[v].suspended \/ About(v)
      BY <1>1, <1>3, <2>1 DEF About, At
    <3>2. CASE v = u
      <4>1. ~user[u].admin
        BY <1>3, <2>1, <3>2
      <4>. QED
        BY <1>1, <3>1, <3>2, <4>1
    <3>3. CASE v # u
      <4>1. user[v].admin
        BY <1>3, <2>1, <3>3
      <4>2. v \in promoted
        BY <3>1, <4>1 DEF Inv, AdminsKnown
      <4>. QED
        BY <1>1, <3>3, <4>2
    <3>. QED
      BY <3>2, <3>3
  <2>. QED
    BY <2>1 DEF AdminsKnown
<1>. QED
  BY <1>1, <1>2, <1>4, <1>5 DEF Inv, TypeOK, RequestsFit, RemovedWithdrawn

\* An id without a report has none after the deletion of a listing either.
LEMMA NoReportDetached == [NoReport EXCEPT !.listing = None] = NoReport
<1>. DEFINE fields == {"by", "target", "listing", "status", "sent", "closed", "late"}
            values == {NoReport[k] : k \in fields}
<1>1. NoReport = [k \in fields |-> NoReport[k]]
  BY DEF NoReport
<1>2. NoReport \in [fields -> values]
  BY <1>1, Zenon
<1>3. ASSUME NEW S, NEW T, NEW f \in [S -> T], NEW k \in S
      PROVE  [f EXCEPT ![k] = f[k]] = f
  OBVIOUS
<1>4. NoReport["listing"] = None
  BY DEF NoReport
<1>. HIDE DEF values
<1>5. [NoReport EXCEPT !["listing"] = NoReport["listing"]] = NoReport
  BY <1>2, <1>3
<1>. QED
  BY <1>4, <1>5

\* The reports of a deleted listing become reports of its owner alone; the
\* unique index refuses the deletion when that would make two of one.
LEMMA DeleteListingInv ==
  ASSUME Inv, NEW l \in Listings, DeleteListing(l)
  PROVE  Inv'
<1>1. /\ UNCHANGED <<user, request, day, history>>
      /\ listing' = [listing EXCEPT ![l] = NoListing] /\ listing \in [Listings -> Listing]
      /\ report' = [i \in Ids |-> [report[i] EXCEPT !.listing = Detached(i, l)]]
      /\ report \in [Ids -> Report \cup {NoReport}]
  BY DEF DeleteListing, Inv, TypeOK
<1>2. listing' \in [Listings -> Listing]
  BY <1>1 DEF Listing, NoListing
<1>3. \A k \in Listings : listing'[k].removed => k # l /\ listing'[k] = listing[k]
  BY <1>1 DEF NoListing
<1>4. ASSUME NEW i \in Ids
      PROVE  /\ report'[i] \in Report \cup {NoReport}
             /\ report'[i].by = report[i].by /\ report'[i].target = report[i].target
             /\ report'[i].status = report[i].status /\ report'[i].late = report[i].late
             /\ report'[i].listing = Detached(i, l)
             /\ Detached(i, l) # None => Detached(i, l) = report[i].listing
  <2>1. report'[i] = [report[i] EXCEPT !.listing = Detached(i, l)]
    BY <1>1
  <2>2. CASE report[i] = NoReport
    <3>1. Detached(i, l) = None
      BY <2>2 DEF Detached, NoReport
    <3>2. report'[i] = NoReport
      BY <2>1, <2>2, <3>1, NoReportDetached, Zenon
    <3>. QED
      BY <2>2, <3>1, <3>2 DEF NoReport
  <2>3. CASE report[i] \in Report
    <3>1. Detached(i, l) \in Listings \cup {None}
          /\ (Detached(i, l) # None => Detached(i, l) = report[i].listing)
      BY <2>3 DEF Detached, Report
    <3>. QED
      BY <2>1, <2>3, <3>1 DEF Report
  <2>. QED
    BY <1>1, <2>2, <2>3
<1>5. report' \in [Ids -> Report \cup {NoReport}]
  BY <1>1, <1>4
<1>6. OneOpenReport'
  <2>1. SUFFICES ASSUME NEW i \in Ids, NEW j \in Ids, Open(i)', Open(j)', i # j,
                        report'[i].by = report'[j].by, report'[j].by # None,
                        report'[i].target = report'[j].target,
                        report'[i].listing = report'[j].listing
                 PROVE  FALSE
    BY DEF OneOpenReport, SameKey
  <2>2. Open(i) /\ Open(j)
    BY <1>4, <2>1 DEF Open
  <2>3. Detached(i, l) # Detached(j, l)
    BY <1>4, <2>1, <2>2 DEF DeleteListing, Deletable
  <2>. QED
    BY <1>4, <2>1, <2>3
<1>7. NothingLeftOpen'
  <2>1. SUFFICES ASSUME NEW i \in Ids, Open(i)', ~report'[i].late
                 PROVE  /\ ~user[report'[i].target].suspended
                        /\ report'[i].listing # None => ~listing'[report'[i].listing].removed
    BY <1>1 DEF NothingLeftOpen, history
  <2>2. Open(i) /\ ~report[i].late
    BY <1>4, <2>1 DEF Open
  <2>3. /\ ~user[report[i].target].suspended
        /\ report[i].listing # None => ~listing[report[i].listing].removed
    BY <2>2, Zenon DEF Inv, ReportsStand, NothingLeftOpen
  <2>4. report[i].listing \in Listings \cup {None}
    BY <1>1 DEF Report, NoReport
  <2>. QED
    BY <1>3, <1>4, <2>3, <2>4
<1>8. RemovedWithdrawn'
  BY <1>1, <1>3 DEF Inv, RemovedWithdrawn, history
<1>. QED
  BY <1>1, <1>2, <1>5, <1>6, <1>7, <1>8
     DEF Inv, TypeOK, RequestsFit, AdminsKnown, About, At, ReportsStand, history

LEMMA DeleteAccountInv ==
  ASSUME Inv, NEW u \in Users, DeleteAccount(u)
  PROVE  Inv'
<1>. DEFINE nobody == [there |-> FALSE, admin |-> FALSE, suspended |-> FALSE]
<1>1. /\ UNCHANGED <<request, day, history>>
      /\ user' = [user EXCEPT ![u] = nobody]
      /\ listing' = [l \in Listings |-> IF Owner[l] = u THEN NoListing ELSE listing[l]]
      /\ report' = [i \in Ids |-> IF report[i].target = u THEN NoReport
                      ELSE IF report[i].by = u THEN [report[i] EXCEPT !.by = None] ELSE report[i]]
  BY DEF DeleteAccount
<1>2. /\ user \in [Users -> User] /\ listing \in [Listings -> Listing]
      /\ report \in [Ids -> Report \cup {NoReport}]
  BY DEF Inv, TypeOK
<1>3. /\ user' \in [Users -> User]
      /\ \A v \in Users : user'[v].suspended \/ user'[v].admin => user'[v] = user[v]
  BY <1>1, <1>2 DEF User
<1>4. /\ listing' \in [Listings -> Listing]
      /\ \A l \in Listings : listing'[l].removed => listing'[l] = listing[l]
  BY <1>1, <1>2 DEF Listing, NoListing
<1>5. ASSUME NEW i \in Ids
      PROVE  /\ report'[i] \in Report \cup {NoReport}
             /\ \/ report'[i] = NoReport
                \/ /\ report'[i].by = report[i].by \/ report'[i].by = None
                   /\ report'[i].target = report[i].target
                   /\ report'[i].listing = report[i].listing
                   /\ report'[i].status = report[i].status /\ report'[i].late = report[i].late
  <2>1. CASE report[i].target = u
    BY <1>1, <2>1
  <2>2. CASE report[i].target # u /\ report[i].by = u
    <3>1. report'[i] = [report[i] EXCEPT !.by = None]
      BY <1>1, <2>2
    <3>2. report[i] \in Report
      BY <1>2, <2>2, ModerationAssumption DEF NoReport
    <3>. QED
      BY <3>1, <3>2 DEF Report
  <2>3. CASE report[i].target # u /\ report[i].by # u
    BY <1>1, <1>2, <2>3
  <2>. QED
    BY <2>1, <2>2, <2>3
<1>6. report' \in [Ids -> Report \cup {NoReport}]
  BY <1>1, <1>5
<1>7. OneOpenReport'
  <2>1. SUFFICES ASSUME NEW i \in Ids, NEW j \in Ids, Open(i)', Open(j)', i # j,
                        report'[i].by = report'[j].by, report'[j].by # None,
                        report'[i].target = report'[j].target,
                        report'[i].listing = report'[j].listing
                 PROVE  FALSE
    BY DEF OneOpenReport, SameKey
  <2>2. report'[i] # NoReport /\ report'[j] # NoReport
    BY <2>1 DEF Open, NoReport
  <2>. QED
    BY <1>5, <2>1, <2>2 DEF Inv, ReportsStand, OneOpenReport, SameKey, Open
<1>8. NothingLeftOpen'
  <2>1. SUFFICES ASSUME NEW i \in Ids, Open(i)', ~report'[i].late
                 PROVE  /\ ~user'[report'[i].target].suspended
                        /\ report'[i].listing # None => ~listing'[report'[i].listing].removed
    BY DEF NothingLeftOpen
  <2>2. report'[i] # NoReport
    BY <2>1 DEF Open, NoReport
  <2>3. Open(i) /\ ~report[i].late
    BY <1>5, <2>1, <2>2 DEF Open
  <2>4. /\ ~user[report[i].target].suspended
        /\ report[i].listing # None => ~listing[report[i].listing].removed
    BY <2>3, Zenon DEF Inv, ReportsStand, NothingLeftOpen
  <2>5. report[i].target \in Users /\ report[i].listing \in Listings \cup {None}
    BY <1>2, <2>3 DEF Report, NoReport, Open
  <2>. QED
    BY <1>3, <1>4, <1>5, <2>2, <2>4, <2>5
<1>9. AdminsKnown'
  BY <1>1, <1>3 DEF Inv, AdminsKnown, About, At, history
<1>10. RemovedWithdrawn'
  BY <1>1, <1>4 DEF Inv, RemovedWithdrawn, history
<1>. QED
  BY <1>1, <1>3, <1>4, <1>6, <1>7, <1>8, <1>9, <1>10
     DEF Inv, TypeOK, RequestsFit, ReportsStand, history

LEMMA NextDayInv ==
  ASSUME Inv, NextDay
  PROVE  Inv'
BY ModerationAssumption
   DEF NextDay, Inv, TypeOK, Days, RequestsFit, AdminsKnown, About, At, RemovedWithdrawn,
       ReportsStand, OneOpenReport, NothingLeftOpen, SameKey, Open, Report, history

-----------------------------------------------------------------------------
(* The theorems.                                                           *)

LEMMA InitInv == Init => Inv
<1>. SUFFICES ASSUME Init
              PROVE  Inv
  OBVIOUS
<1>1. TypeOK
  <2>1. {[there |-> TRUE, admin |-> a, suspended |-> FALSE] : a \in BOOLEAN} \subseteq User
    <3>1. \A a \in BOOLEAN : [there |-> TRUE, admin |-> a, suspended |-> FALSE] \in User
      BY DEF User
    <3>. QED
      BY <3>1
  <2>2. user \in [Users -> User]
    BY <2>1 DEF Init
  <2>3. listing \in [Listings -> Listing]
    BY DEF Init, Listing
  <2>4. request \in [Requests -> Request]
    BY NoRequestFits DEF Init
  <2>. QED
    BY <2>2, <2>3, <2>4, ModerationAssumption DEF Init, TypeOK, Days
<1>2. RequestsFit
  BY NoRequestFits DEF Init, RequestsFit
<1>3. AdminsKnown
  BY DEF Init, AdminsKnown, About, At, NoRequest
<1>4. RemovedWithdrawn
  BY DEF Init, RemovedWithdrawn
<1>5. \A i \in Ids : ~Open(i)
  BY DEF Init, Open, NoReport
<1>. QED
  BY <1>1, <1>2, <1>3, <1>4, <1>5 DEF Inv, ReportsStand, OneOpenReport, NothingLeftOpen

LEMMA NextInv == Inv /\ [Next]_vars => Inv'
<1>. SUFFICES ASSUME Inv, [Next]_vars
              PROVE  Inv'
  OBVIOUS
<1>1. CASE UNCHANGED vars
  BY <1>1 DEF vars, history, Inv, TypeOK, RequestsFit, AdminsKnown, About, At,
              RemovedWithdrawn, ReportsStand, OneOpenReport, NothingLeftOpen, SameKey, Open
<1>2. ASSUME NEW r \in Requests,
             \/ Reads(r)
             \/ InsertReport(r) \/ Dismiss(r) \/ RemoveListing(r) \/ SuspendUser(r)
             \/ Unsuspend(r) \/ Restore(r) \/ SetActive(r)
      PROVE  Inv'
  BY <1>2, ReadsInv, InsertReportInv, DismissInv, RemoveListingInv, SuspendUserInv,
     UnsuspendInv, RestoreInv, SetActiveInv
<1>3. ASSUME NEW u \in Users, SetAdmin(u) \/ DeleteAccount(u)
      PROVE  Inv'
  BY <1>3, SetAdminInv, DeleteAccountInv
<1>4. ASSUME NEW l \in Listings, DeleteListing(l)
      PROVE  Inv'
  BY <1>4, DeleteListingInv
<1>5. CASE Purge \/ NextDay
  BY <1>5, PurgeInv, NextDayInv
<1>. QED
  BY <1>1, <1>2, <1>3, <1>4, <1>5 DEF Next, Reads

\* The invariant holds in every reachable state.
THEOREM Invariant == Spec => []Inv
BY InitInv, NextInv, PTL DEF Spec

\* The tables and the requests keep their shapes, whatever overtakes what.
THEOREM ModerationTyping == Spec => []TypeOK
<1>1. Inv => TypeOK
  BY DEF Inv
<1>. QED
  BY <1>1, Invariant, PTL

\* The open reports are one of each kind and none about what was decided
\* already (the unique index, and Store.Resolve closing them in the
\* transaction of its decision).
THEOREM ReportsAwaitDecision == Spec => []ReportsStand
<1>1. Inv => ReportsStand
  BY DEF Inv
<1>. QED
  BY <1>1, Invariant, PTL

\* A suspended administrator was appointed after the decision (the check of
\* Service.Resolve, made before the transaction that suspends).
THEOREM AdministratorsSpared == Spec => []AdminsSpared
<1>1. Inv => AdminsSpared
  BY DEF Inv, AdminsKnown, AdminsSpared
<1>. QED
  BY <1>1, Invariant, PTL

\* A removed listing is published only by a request of its owner that the
\* removal overtook (Store.SetActive after requireEditable).
THEOREM RemovedListingsHidden == Spec => []RemovedWithdrawn
<1>1. Inv => RemovedWithdrawn
  BY DEF Inv
<1>. QED
  BY <1>1, Invariant, PTL
=============================================================================
