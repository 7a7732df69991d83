----------------------------- MODULE Moderation -----------------------------
(***************************************************************************)
(* Reports about users and listings, and what administrators do with them: *)
(* dismiss, remove the listing, suspend the user, undo.  A request reads   *)
(* in statements of its own what it bases its last statement on, so that   *)
(* other reports, other decisions, the owner of a listing and deletions    *)
(* come in between.  A decision itself is one transaction.                 *)
(*                                                                         *)
(* A definition introduced by "Slip" is the definition below it with a     *)
(* mistake in it, which some property must notice.                         *)
(***************************************************************************)
EXTENDS Naturals, FiniteSets

CONSTANTS
  Users,
  Listings,
  Owner,        \* the owner of each listing
  Ids,          \* bound: ids of the reports there are at once
  Requests,     \* requests in flight at once
  MaxPerDay,    \* reports a user may send in a day
  Retention,    \* days a closed report is kept
  MaxDay,       \* bound: days
  None          \* "no value"

ASSUME ModerationAssumption ==
  /\ Owner \in [Listings -> Users]
  /\ None \notin Users \cup Listings \cup Ids
  /\ IsFiniteSet(Ids) /\ IsFiniteSet(Requests)
  /\ MaxPerDay \in Nat \ {0} /\ Retention \in Nat /\ MaxDay \in Nat

VARIABLES
  user,         \* users: is the account there, an administrator, suspended
  listing,      \* listings: there, published by the owner, removed
  report,       \* reports, by id
  request,      \* what each request has read so far
  day,
  promoted,     \* history: made administrator while suspended or about to be
  republished   \* history: listings published by a request older than their removal

history == <<promoted, republished>>
vars == <<user, listing, report, request, day, history>>

Days == 0 .. MaxDay
User == [there : BOOLEAN, admin : BOOLEAN, suspended : BOOLEAN]
Listing == [there : BOOLEAN, active : BOOLEAN, removed : BOOLEAN]

\* by and listing are NULL when none; since is the day of the report and then
\* of the decision on it.  late is history: the report is about someone
\* suspended, or something removed, already.
Report == [by : Users \cup {None}, target : Users, listing : Listings \cup {None},
           status : {"open", "dismissed", "resolved"}, sent : Days, closed : Days,
           late : BOOLEAN]
NoReport == [by |-> None, target |-> None, listing |-> None, status |-> "none",
             sent |-> 0, closed |-> 0, late |-> FALSE]

Stages == {"idle", "received", "named", "counted", "conflict", "admin", "decided", "editable"}
Ops == {"none", "report", "dismiss", "remove", "suspend", "unsuspend", "restore",
        "publish", "withdraw"}
Decisions == {"dismiss", "remove", "suspend"}

Request == [op : Ops, stage : Stages, user : Users \cup {None}, target : Users \cup {None},
            listing : Listings \cup {None}, id : Ids \cup {None}]
NoRequest == [op |-> "none", stage |-> "idle", user |-> None, target |-> None,
              listing |-> None, id |-> None]

Filed(i) == report[i].status # "none"
Open(i) == report[i].status = "open"
At(r, op, stage) == request[r].op = op /\ request[r].stage = stage
Goto(r, stage) == request' = [request EXCEPT ![r].stage = stage]
Finish(r) == request' = [request EXCEPT ![r] = NoRequest]
Pass(r, ok, stage) == IF ok THEN Goto(r, stage) ELSE Finish(r)

\* An id that no row has and nobody still refers to.
Fresh(i) == ~Filed(i) /\ \A r \in Requests : request[r].id # i

\* A call with an accepted session: the user is there and not suspended.
Receive(r, q) ==
  /\ request[r] = NoRequest
  /\ user[q.user].there /\ ~user[q.user].suspended
  /\ request' = [request EXCEPT ![r] = q]
  /\ UNCHANGED <<user, listing, report, day, history>>

-----------------------------------------------------------------------------
(* A report: of a user, or of a listing and so of its owner.               *)

SendReport(r) ==
  \E u, t \in Users, l \in Listings \cup {None} :
    /\ l # None => t = Owner[l]
    /\ Receive(r, [NoRequest EXCEPT !.op = "report", !.stage = "received",
                     !.user = u, !.target = t, !.listing = l])

\* existingUser or ListingOwner, and not one's own.
NameTarget(r) ==
  LET q == request[r] IN
  /\ At(r, "report", "received")
  /\ Pass(r, /\ IF q.listing = None THEN user[q.target].there ELSE listing[q.listing].there
             /\ q.target # q.user, "named")
  /\ UNCHANGED <<user, listing, report, day, history>>

SentToday(u) == {i \in Ids : Filed(i) /\ report[i].by = u /\ report[i].sent = day}

\* ReportsSince.
CountReports(r) ==
  /\ At(r, "report", "named")
  /\ Pass(r, Cardinality(SentToday(request[r].user)) < MaxPerDay, "counted")
  /\ UNCHANGED <<user, listing, report, day, history>>

\* The key of the partial unique index; NULL differs from NULL.
SameKey(i, u, t, l) ==
  /\ Open(i)
  /\ report[i].by = u /\ u # None
  /\ report[i].target = t /\ report[i].listing = l

\* CreateReport.  The foreign keys want the three rows; when the same report
\* is open already nothing is inserted.
InsertReport(r) ==
  LET q == request[r]
      rows == /\ user[q.user].there /\ user[q.target].there
              /\ q.listing # None => listing[q.listing].there
      open == \E i \in Ids : SameKey(i, q.user, q.target, q.listing) IN
  /\ At(r, "report", "counted")
  /\ \/ /\ rows /\ ~open
        /\ \E i \in Ids :
             /\ Fresh(i)
             /\ report' = [report EXCEPT ![i] =
                  [by |-> q.user, target |-> q.target, listing |-> q.listing,
                   status |-> "open", sent |-> day, closed |-> 0,
                   late |-> \/ user[q.target].suspended
                            \/ q.listing # None /\ listing[q.listing].removed]]
        /\ Finish(r)
     \/ rows /\ open /\ Goto(r, "conflict") /\ UNCHANGED report
     \/ ~rows /\ Finish(r) /\ UNCHANGED report
  /\ UNCHANGED <<user, listing, day, history>>

\* Then the open one is read, unless it is closed by now: that is an error.
FindReport(r) ==
  /\ At(r, "report", "conflict")
  /\ Finish(r)
  /\ UNCHANGED <<user, listing, report, day, history>>

-----------------------------------------------------------------------------
(* The administrators.                                                     *)

SendDecision(r) ==
  \E u \in Users, i \in {j \in Ids : Open(j)}, op \in Decisions :
    Receive(r, [NoRequest EXCEPT !.op = op, !.stage = "received", !.user = u, !.id = i])

SendUndo(r) ==
  \E u \in Users :
    \/ \E t \in Users :
         Receive(r, [NoRequest EXCEPT !.op = "unsuspend", !.stage = "received",
                       !.user = u, !.target = t])
    \/ \E l \in Listings :
         Receive(r, [NoRequest EXCEPT !.op = "restore", !.stage = "received",
                       !.user = u, !.listing = l])

\* IsAdmin.
RequireAdmin(r) ==
  LET u == request[r].user IN
  /\ request[r].op \in Decisions \cup {"unsuspend", "restore"}
  /\ request[r].stage = "received"
  /\ Pass(r, user[u].there /\ user[u].admin, "admin")
  /\ UNCHANGED <<user, listing, report, day, history>>

\* Slip: whom the report is about is not looked at.
DecideUnaware(r) ==
  LET q == request[r]
      p == report[q.id]
      ok == q.op = "remove" => p.listing # None IN
  /\ q.op \in Decisions /\ q.stage = "admin"
  /\ Open(q.id) /\ ok
  /\ request' = [request EXCEPT ![r].stage = "decided",
       ![r].target = p.target, ![r].listing = p.listing]
  /\ UNCHANGED <<user, listing, report, day, history>>

\* OpenReport, and whether the action is one for it.
Decide(r) ==
  LET q == request[r]
      p == report[q.id]
      ok == CASE q.op = "dismiss" -> TRUE
              [] q.op = "remove" -> p.listing # None
              [] q.op = "suspend" -> p.target # q.user /\ ~user[p.target].admin IN
  /\ q.op \in Decisions /\ q.stage = "admin"
  /\ \/ /\ Open(q.id) /\ ok
        /\ request' = [request EXCEPT ![r].stage = "decided",
             ![r].target = p.target, ![r].listing = p.listing]
     \/ ~(Open(q.id) /\ ok) /\ Finish(r)
  /\ UNCHANGED <<user, listing, report, day, history>>

\* closeReports, over those of S that are open: resolved_by must be there.
Close(r, S, status) ==
  report' = [i \in Ids |-> IF i \in S /\ Open(i)
               THEN [report[i] EXCEPT !.status = status, !.closed = day] ELSE report[i]]
Recorded(r, S) == user[request[r].user].there \/ \A i \in S : ~Open(i)

Dismiss(r) ==
  LET S == {request[r].id} IN
  /\ At(r, "dismiss", "decided")
  /\ IF Recorded(r, S) THEN Close(r, S, "dismissed") ELSE UNCHANGED report
  /\ Finish(r)
  /\ UNCHANGED <<user, listing, day, history>>

\* Slip: the listing is removed and left published.
RemoveListingActive(r) ==
  LET l == request[r].listing
      S == {request[r].id} \cup {i \in Ids : report[i].listing = l} IN
  /\ At(r, "remove", "decided")
  /\ Recorded(r, S)
  /\ listing' = [listing EXCEPT ![l].removed = @ \/ listing[l].there]
  /\ Close(r, S, "resolved")
  /\ Finish(r)
  /\ UNCHANGED <<user, day, history>>

\* A listing deleted meanwhile is not there to update.
RemoveListing(r) ==
  LET l == request[r].listing
      S == {request[r].id} \cup {i \in Ids : report[i].listing = l} IN
  /\ At(r, "remove", "decided")
  /\ IF Recorded(r, S)
       THEN /\ listing' = IF listing[l].there
                 THEN [listing EXCEPT ![l].removed = TRUE, ![l].active = FALSE] ELSE listing
            /\ Close(r, S, "resolved")
       ELSE UNCHANGED <<listing, report>>
  /\ Finish(r)
  /\ UNCHANGED <<user, day, history>>

SuspendUser(r) ==
  LET t == request[r].target
      S == {request[r].id} \cup {i \in Ids : report[i].target = t} IN
  /\ At(r, "suspend", "decided")
  /\ IF Recorded(r, S)
       THEN /\ user' = IF user[t].there THEN [user EXCEPT ![t].suspended = TRUE] ELSE user
            /\ Close(r, S, "resolved")
       ELSE UNCHANGED <<user, report>>
  /\ Finish(r)
  /\ UNCHANGED <<listing, day, history>>

Unsuspend(r) ==
  /\ At(r, "unsuspend", "admin")
  /\ user' = [user EXCEPT ![request[r].target].suspended = FALSE]
  /\ Finish(r)
  /\ UNCHANGED <<listing, report, day, history>>

\* RestoreListing: no longer removed, and as published as it is by then.
Restore(r) ==
  LET l == request[r].listing IN
  /\ At(r, "restore", "admin")
  /\ listing' = [listing EXCEPT ![l].removed = FALSE]
  /\ republished' = republished \ {l}
  /\ Finish(r)
  /\ UNCHANGED <<user, report, day, promoted>>

\* DeleteClosedReports, when the list is opened.
Purge ==
  /\ \E u \in Users : user[u].there /\ user[u].admin /\ ~user[u].suspended
  /\ report' = [i \in Ids |-> IF /\ report[i].status \in {"dismissed", "resolved"}
                                 /\ report[i].closed + Retention < day
                                THEN NoReport ELSE report[i]]
  /\ report' # report
  /\ UNCHANGED <<user, listing, request, day, history>>

\* grant-admin and revoke-admin, from the command line.
About(u) == \E r \in Requests : At(r, "suspend", "decided") /\ request[r].target = u

SetAdmin(u) ==
  /\ user[u].there
  /\ user' = [user EXCEPT ![u].admin = ~@]
  /\ promoted' = IF ~user[u].admin /\ (user[u].suspended \/ About(u))
                   THEN promoted \cup {u} ELSE promoted \ {u}
  /\ UNCHANGED <<listing, report, request, day, republished>>

-----------------------------------------------------------------------------
(* The owner of a listing.                                                 *)

SendActive(r) ==
  \E l \in Listings, op \in {"publish", "withdraw"} :
    Receive(r, [NoRequest EXCEPT !.op = op, !.stage = "received",
                  !.user = Owner[l], !.listing = l])

\* requireEditable.
RequireEditable(r) ==
  LET l == request[r].listing IN
  /\ request[r].op \in {"publish", "withdraw"} /\ request[r].stage = "received"
  /\ Pass(r, listing[l].there /\ ~listing[l].removed, "editable")
  /\ UNCHANGED <<user, listing, report, day, history>>

\* SetActive, on a listing that may have been removed meanwhile.
SetActive(r) ==
  LET l == request[r].listing
      on == request[r].op = "publish" IN
  /\ request[r].op \in {"publish", "withdraw"} /\ request[r].stage = "editable"
  /\ IF listing[l].there
       THEN /\ listing' = [listing EXCEPT ![l].active = on]
            /\ republished' = IF on /\ listing[l].removed
                                THEN republished \cup {l} ELSE republished \ {l}
       ELSE UNCHANGED <<listing, republished>>
  /\ Finish(r)
  /\ UNCHANGED <<user, report, day, promoted>>

NoListing == [there |-> FALSE, active |-> FALSE, removed |-> FALSE]

\* Reports of the listing become reports of its owner alone (ON DELETE SET
\* NULL), and then the unique index may refuse them.
Detached(i, l) == IF report[i].listing = l THEN None ELSE report[i].listing
Deletable(l) ==
  \A i, j \in Ids :
    /\ i # j /\ Open(i) /\ Open(j)
    /\ report[i].by = report[j].by /\ report[i].by # None
    /\ report[i].target = report[j].target
    => Detached(i, l) # Detached(j, l)

\* Slip: there is no unique index.
DeleteListingAnyway(l) ==
  /\ listing[l].there /\ user[Owner[l]].there /\ ~user[Owner[l]].suspended
  /\ listing' = [listing EXCEPT ![l] = NoListing]
  /\ report' = [i \in Ids |-> [report[i] EXCEPT !.listing = Detached(i, l)]]
  /\ UNCHANGED <<user, request, day, history>>

DeleteListing(l) ==
  /\ listing[l].there /\ user[Owner[l]].there /\ ~user[Owner[l]].suspended
  /\ Deletable(l)
  /\ listing' = [listing EXCEPT ![l] = NoListing]
  /\ report' = [i \in Ids |-> [report[i] EXCEPT !.listing = Detached(i, l)]]
  /\ UNCHANGED <<user, request, day, history>>

\* Slip: the reports about the user stay, about nobody.
DeleteAccountNulling(u) ==
  /\ user[u].there
  /\ user' = [user EXCEPT ![u] = [there |-> FALSE, admin |-> FALSE, suspended |-> FALSE]]
  /\ listing' = [l \in Listings |-> IF Owner[l] = u THEN NoListing ELSE listing[l]]
  /\ report' = [i \in Ids |->
       IF report[i].target = u THEN [report[i] EXCEPT !.target = None] ELSE report[i]]
  /\ UNCHANGED <<request, day, history>>

\* The reports about the user and the listings go, those the user sent stay
\* without an author.
DeleteAccount(u) ==
  /\ user[u].there
  /\ user' = [user EXCEPT ![u] = [there |-> FALSE, admin |-> FALSE, suspended |-> FALSE]]
  /\ listing' = [l \in Listings |-> IF Owner[l] = u THEN NoListing ELSE listing[l]]
  /\ report' = [i \in Ids |-> IF report[i].target = u THEN NoReport
                  ELSE IF report[i].by = u THEN [report[i] EXCEPT !.by = None] ELSE report[i]]
  /\ UNCHANGED <<request, day, history>>

-----------------------------------------------------------------------------
\* Whatever refuses a request or ends it early.
Abort(r) ==
  /\ request[r] # NoRequest
  /\ Finish(r)
  /\ UNCHANGED <<user, listing, report, day, history>>

NextDay ==
  /\ day < MaxDay
  /\ day' = day + 1
  /\ UNCHANGED <<user, listing, report, request, history>>

Init ==
  /\ user \in [Users -> {[there |-> TRUE, admin |-> a, suspended |-> FALSE] : a \in BOOLEAN}]
  /\ listing = [l \in Listings |-> [there |-> TRUE, active |-> TRUE, removed |-> FALSE]]
  /\ report = [i \in Ids |-> NoReport]
  /\ request = [r \in Requests |-> NoRequest]
  /\ day = 0
  /\ promoted = {} /\ republished = {}

Next ==
  \/ \E r \in Requests :
       \/ SendReport(r) \/ NameTarget(r) \/ CountReports(r) \/ InsertReport(r) \/ FindReport(r)
       \/ SendDecision(r) \/ SendUndo(r) \/ RequireAdmin(r) \/ Decide(r)
       \/ Dismiss(r) \/ RemoveListing(r) \/ SuspendUser(r) \/ Unsuspend(r) \/ Restore(r)
       \/ SendActive(r) \/ RequireEditable(r) \/ SetActive(r) \/ Abort(r)
  \/ \E u \in Users : SetAdmin(u) \/ DeleteAccount(u)
  \/ \E l \in Listings : DeleteListing(l)
  \/ Purge \/ NextDay

Spec == Init /\ [][Next]_vars

-----------------------------------------------------------------------------
(* Properties.                                                             *)

\* The tables and the requests have the shapes declared above.
TypeOK ==
  /\ user \in [Users -> User]
  /\ listing \in [Listings -> Listing]
  /\ report \in [Ids -> Report \cup {NoReport}]
  /\ request \in [Requests -> Request]
  /\ day \in Days
  /\ promoted \subseteq Users /\ republished \subseteq Listings

\* Nobody has two open reports about the same user or the same listing, also
\* when the deletion of a listing turns its reports into reports of its owner.
OneOpenReport ==
  \A i, j \in Ids : SameKey(i, report[j].by, report[j].target, report[j].listing)
                      /\ Open(j) => i = j

\* A decision is about everything known at that moment: while a user is
\* suspended or a listing removed, the reports still open about them came
\* later, also when the decision was overtaken by another (Store.Resolve).
NothingLeftOpen ==
  \A i \in Ids : Open(i) =>
    \/ report[i].late
    \/ /\ ~user[report[i].target].suspended
       /\ report[i].listing # None => ~listing[report[i].listing].removed

\* The open reports are those that wait for a decision: one of each, and none
\* about what was decided already.
ReportsStand == OneOpenReport /\ NothingLeftOpen

\* No administrator is suspended, except one appointed after the decision was
\* taken on a report read earlier (Service.Resolve).
AdminsSpared ==
  \A u \in Users : user[u].admin /\ user[u].suspended => u \in promoted

\* A removed listing is not published, so that restoring it leaves it hidden
\* until its owner publishes it (RestoreListing), except when the owner's own
\* request to publish it was overtaken by the removal.
RemovedWithdrawn ==
  \A l \in Listings : listing[l].removed /\ listing[l].active => l \in republished

=============================================================================
