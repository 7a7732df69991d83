------------------------------ MODULE Messages ------------------------------
(***************************************************************************)
(* Sending in one conversation of two users.  A send is a chain of         *)
(* statements: the reads that admit it each see the database as it is at   *)
(* that moment; then a transaction, whose now() is the instant it began,   *)
(* queues for the conversation's advisory lock, looks for the same message *)
(* and stores it; the announcements come after the commit.  The user's     *)
(* "read until" mark, blocks, suspensions, deletions of accounts, and the  *)
(* loss of the request's context happen between any two of them.           *)
(*                                                                         *)
(* A definition introduced by "Slip" is the definition below it with a     *)
(* mistake in it, which some property must notice.                         *)
(***************************************************************************)
EXTENDS Naturals, FiniteSets, Sequences, SequencesExt

CONSTANTS
  Users,      \* the two participants
  Keyed,      \* those with a public key
  Texts,      \* ciphertexts: each is random, and so of one author
  Author,     \* the author of each
  Requests,   \* sends in flight at once
  MaxNow,     \* bound: instants at which a transaction begins
  MaxDay      \* bound: days

Channels == {"live", "push"}
Instants == 1 .. MaxNow
Days == 0 .. MaxDay
Entry == [text : Texts, day : Days, at : Instants]

ASSUME MessagesAssumption ==
  /\ Keyed \subseteq Users
  /\ \A u \in Users : Users \ {u} # {}
  /\ Texts # {} /\ Author \in [Texts -> Users]
  /\ IsFiniteSet(Requests)
  /\ MaxNow \in Nat
  /\ MaxDay \in Nat

VARIABLES
  account,    \* users: active, suspended or deleted (their participation too)
  blockers,   \* who has blocked the other participant
  messages,   \* messages with their rows of message_keys
  lastRead,   \* conversation_participants.last_read_at; 0 when NULL
  request,    \* what each send has read so far
  queue,      \* sends waiting for the advisory lock; the head holds it
  now, day,   \* the database's clock
  seen,       \* history: instants of the messages there at each user's last reading
  told        \* history: announcements that went out

rows == <<account, blockers, messages, lastRead>>
clock == <<now, day>>
history == <<seen, told>>
vars == <<rows, request, queue, clock, history>>

Message == [entry : Entry, keys : SUBSET Users]

Stages == {"idle", "received", "member", "listed", "checked", "begun", "queued",
           "locked", "stored", "repeated"}

\* closed is history: why the conversation has been closed to the author ever
\* since the request came in.
Request == [stage : Stages, text : Texts, keys : SUBSET Users, others : SUBSET Users,
            at : {0} \cup Instants, day : Days, owed : SUBSET (Users \X Channels),
            closed : SUBSET {"block", "suspension"}]

Idle(r) == request[r].stage = "idle"
Exists(u) == account[u] # "deleted"
Participants == {u \in Users : Exists(u)}
Sender(r) == Author[request[r].text]
\* Slip: the date of the message is left to a default the table does not have.
EntryOfUndated(r) == [text |-> request[r].text, day |-> request[r].day, at |-> 0]

\* created_at is the now() of the transaction.
EntryOf(r) == [text |-> request[r].text, day |-> request[r].day, at |-> request[r].at]
Goto(r, stage) == request' = [request EXCEPT ![r].stage = stage]

\* The request is over: its fields no longer matter.
Over(r) == [request[r] EXCEPT !.stage = "idle", !.keys = {}, !.others = {},
                              !.at = 0, !.day = 0, !.owed = {}, !.closed = {}]
Finish(r) == request' = [request EXCEPT ![r] = Over(r)]
Leave(r) ==
  LET places == {i \in DOMAIN queue : queue[i] = r} IN
  queue' = IF places = {} THEN queue ELSE RemoveAt(queue, CHOOSE i \in places : TRUE)

\* Why u may not write: a block in either direction, the other's suspension.
Closures(u) ==
  {c \in {"block", "suspension"} :
     \/ c = "block" /\ blockers # {}
     \/ c = "suspension" /\ \E v \in Users \ {u} : account[v] = "suspended"}

Repeats(t, since) ==
  \E m \in messages : m.entry.text = t /\ m.entry.day >= since

\* Transactions that are going to take an instant of the clock.
ToBegin == {r \in Requests : request[r].stage \in {"received", "member", "listed", "checked"}}

-----------------------------------------------------------------------------
(* The send.                                                               *)

\* The author's browser sends a text, or sends it again.  It encrypts the
\* message key for itself and, unless it learns that the account is gone, for
\* the other participant.  The session is accepted: the author is active.
Send(r, t) ==
  LET u == Author[t] IN
  /\ Idle(r)
  /\ account[u] = "active"
  /\ now + Cardinality(ToBegin) < MaxNow
  /\ \E keys \in {Keyed, Keyed \cap {u}} :
       request' = [request EXCEPT ![r] = [Over(r) EXCEPT
         !.stage = "received", !.text = t, !.keys = keys, !.closed = Closures(u)]]
  /\ UNCHANGED <<rows, queue, clock, history>>

\* requireParticipantByID.
CheckMember(r) ==
  /\ request[r].stage = "received"
  /\ \/ Exists(Sender(r)) /\ Goto(r, "member")
     \/ ~Exists(Sender(r)) /\ Finish(r)
  /\ UNCHANGED <<rows, queue, clock, history>>

\* Participants, and the test of their suspension.  What is kept of the read
\* are the others and whether the keys are one for each that has a public key.
ReadParticipants(r) ==
  LET others == Participants \ {Sender(r)}
      open == \A v \in others : account[v] # "suspended"
      ok == open /\ request[r].keys = Participants \cap Keyed IN
  /\ request[r].stage = "member"
  /\ \/ ok /\ request' = [request EXCEPT ![r].stage = "listed", ![r].others = others]
     \/ ~ok /\ Finish(r)
  /\ UNCHANGED <<rows, queue, clock, history>>

\* Slip: the block is read only for the announcements.
CheckBlocksNever(r) ==
  /\ request[r].stage = "listed"
  /\ Goto(r, "checked")
  /\ UNCHANGED <<rows, queue, clock, history>>

\* requireNotBlocked, for each of the others that the first read returned.
\* The rows of a block go with either user.
CheckBlocks(r) ==
  LET open == request[r].others = {} \/ blockers = {} IN
  /\ request[r].stage = "listed"
  /\ \/ open /\ Goto(r, "checked")
     \/ ~open /\ Finish(r)
  /\ UNCHANGED <<rows, queue, clock, history>>

\* BEGIN fixes the now() of the whole transaction.
Begin(r) ==
  /\ request[r].stage = "checked"
  /\ now' = now + 1
  /\ request' = [request EXCEPT ![r].stage = "begun", ![r].at = now + 1, ![r].day = day]
  /\ UNCHANGED <<rows, queue, day, history>>

\* pg_advisory_xact_lock: first come, first served.
AskLock(r) ==
  /\ request[r].stage = "begun"
  /\ queue' = Append(queue, r)
  /\ Goto(r, "queued")
  /\ UNCHANGED <<rows, clock, history>>

\* Slip: the lock is not taken.
LookUpUnlocked(r) ==
  /\ request[r].stage = "queued"
  /\ \/ ~Repeats(request[r].text, request[r].day) /\ Goto(r, "locked") /\ UNCHANGED queue
     \/ Repeats(request[r].text, request[r].day) /\ Goto(r, "repeated") /\ Leave(r)
  /\ UNCHANGED <<rows, clock, history>>

\* Holding the lock, the search for the same message within a day.  Finding
\* it ends the transaction.
LookUp(r) ==
  /\ request[r].stage = "queued"
  /\ queue # <<>>
  /\ Head(queue) = r
  /\ \/ ~Repeats(request[r].text, request[r].day) /\ Goto(r, "locked") /\ UNCHANGED queue
     \/ Repeats(request[r].text, request[r].day) /\ Goto(r, "repeated") /\ Leave(r)
  /\ UNCHANGED <<rows, clock, history>>

\* Slip: the sender's copy of the key is the only one stored.
StoreOwnKey(r) ==
  /\ request[r].stage = "locked"
  /\ Exists(Sender(r))
  /\ messages' = messages \cup
       {[entry |-> EntryOf(r), keys |-> request[r].keys \cap {Sender(r)}]}
  /\ request' = [request EXCEPT ![r].stage = "stored",
       ![r].owed = request[r].others \X Channels]
  /\ Leave(r)
  /\ UNCHANGED <<account, blockers, lastRead, clock, history>>

\* The message and its keys are inserted and committed.  The foreign keys
\* hold the rows of the sender, of the users the keys are for and of the
\* conversation: if one is gone everything is rolled back.
Store(r) ==
  LET there == Sender(r) \in Participants /\ request[r].keys \subseteq Participants IN
  /\ request[r].stage = "locked"
  /\ \/ /\ there
        /\ messages' = messages \cup {[entry |-> EntryOf(r), keys |-> request[r].keys]}
        /\ request' = [request EXCEPT ![r].stage = "stored",
             ![r].owed = request[r].others \X Channels]
     \/ /\ ~there
        /\ Finish(r)
        /\ UNCHANGED messages
  /\ Leave(r)
  /\ UNCHANGED <<account, blockers, lastRead, clock, history>>

\* The other participant is told over the private channel.  The error of the
\* real-time service is logged, and the send goes on.
Publish(r) ==
  /\ request[r].stage = "stored"
  /\ \E u \in Users :
       LET n == <<u, "live">> IN
       /\ n \in request[r].owed
       /\ request' = [request EXCEPT ![r].owed = @ \ {n}]
       /\ told' \in {told, told \cup {<<EntryOf(r), n>>}}
  /\ UNCHANGED <<rows, queue, clock, seen>>

\* And then by push, on all the browsers at once.
Push(r) ==
  LET N == {EntryOf(r)} \X request[r].owed IN
  /\ request[r].stage = "stored"
  /\ request[r].owed # {}
  /\ \A n \in request[r].owed : n[2] = "push"
  /\ request' = [request EXCEPT ![r].owed = {}]
  /\ told' \in {told, told \cup N}
  /\ UNCHANGED <<rows, queue, clock, seen>>

\* 201 for a new message and 200 for a repeated one, which is announced to
\* nobody.
Answer(r) ==
  /\ \/ request[r].stage = "repeated"
     \/ request[r].stage = "stored" /\ request[r].owed = {}
  /\ Finish(r)
  /\ UNCHANGED <<rows, queue, clock, history>>

\* Slip: the transaction is not rolled back.
AbortHoldingLock(r) ==
  /\ ~Idle(r)
  /\ Finish(r)
  /\ UNCHANGED <<rows, queue, clock, history>>

\* The author's connection drops and takes the request's context with it, a
\* statement fails or the process dies.  A transaction is rolled back and its
\* lock released; what was committed stays, and is no longer announced.
Abort(r) ==
  /\ ~Idle(r)
  /\ Finish(r)
  /\ Leave(r)
  /\ UNCHANGED <<rows, clock, history>>

-----------------------------------------------------------------------------
(* What else happens to the conversation.                                  *)

\* Slip: only the first reading is recorded.
MarkReadOnce(u) ==
  /\ account[u] = "active"
  /\ now + Cardinality(ToBegin) < MaxNow
  /\ now' = now + 1
  /\ lastRead' = [lastRead EXCEPT ![u] = IF @ = 0 THEN now + 1 ELSE @]
  /\ seen' = [seen EXCEPT ![u] = {m.entry.at : m \in messages}]
  /\ UNCHANGED <<account, blockers, messages, request, queue, day, told>>

\* "Read until now": the now() of the UPDATE.
MarkRead(u) ==
  /\ account[u] = "active"
  /\ now + Cardinality(ToBegin) < MaxNow
  /\ now' = now + 1
  /\ lastRead' = [lastRead EXCEPT ![u] = now + 1]
  /\ seen' = [seen EXCEPT ![u] = {m.entry.at : m \in messages}]
  /\ UNCHANGED <<account, blockers, messages, request, queue, day, told>>

\* Whatever has opened again is no longer a closure the request came into.
StillClosed ==
  \E left \in {[u \in Users |-> Closures(u)']} :
    request' = [q \in Requests |-> [request[q] EXCEPT !.closed = @ \cap left[Sender(q)]]]

Block(u) ==
  /\ account[u] = "active"
  /\ Users \subseteq Participants
  /\ blockers' = blockers \cup {u}
  /\ UNCHANGED <<account, messages, lastRead, request, queue, clock, history>>

Unblock(u) ==
  /\ account[u] = "active"
  /\ u \in blockers
  /\ blockers' = blockers \ {u}
  /\ UNCHANGED account
  /\ StillClosed
  /\ UNCHANGED <<messages, lastRead, queue, clock, history>>

Suspend(u) ==
  /\ account[u] = "active"
  /\ account' = [account EXCEPT ![u] = "suspended"]
  /\ UNCHANGED <<blockers, messages, lastRead, request, queue, clock, history>>

Unsuspend(u) ==
  /\ account[u] = "suspended"
  /\ account' = [account EXCEPT ![u] = "active"]
  /\ UNCHANGED blockers
  /\ StillClosed
  /\ UNCHANGED <<messages, lastRead, queue, clock, history>>

\* users Store.Delete: participation, keys, blocks and last reading go with
\* the user, the conversation with the last participant.
Delete(u) ==
  /\ Exists(u)
  /\ account' = [account EXCEPT ![u] = "deleted"]
  /\ blockers' = {}
  /\ messages' = IF Participants = {u} THEN {}
                 ELSE {[m EXCEPT !.keys = @ \ {u}] : m \in messages}
  /\ lastRead' = [lastRead EXCEPT ![u] = 0]
  /\ seen' = [seen EXCEPT ![u] = {}]
  /\ StillClosed
  /\ UNCHANGED <<queue, clock, told>>

NextDay ==
  /\ day < MaxDay
  /\ day' = day + 1
  /\ UNCHANGED <<rows, request, queue, now, history>>

-----------------------------------------------------------------------------
Init ==
  /\ account = [u \in Users |-> "active"]
  /\ blockers = {}
  /\ messages = {}
  /\ lastRead = [u \in Users |-> 0]
  /\ request \in [Requests -> {[stage |-> "idle", text |-> t, keys |-> {}, others |-> {},
       at |-> 0, day |-> 0, owed |-> {}, closed |-> {}] : t \in {CHOOSE t \in Texts : TRUE}}]
  /\ queue = <<>>
  /\ now = 0
  /\ day = 0
  /\ seen = [u \in Users |-> {}]
  /\ told = {}

\* What the server does by itself once a request is in.
Serve(r) ==
  \/ CheckMember(r) \/ ReadParticipants(r) \/ CheckBlocks(r) \/ Begin(r) \/ AskLock(r)
  \/ LookUp(r) \/ Store(r) \/ Publish(r) \/ Push(r) \/ Answer(r)

Next ==
  \/ \E r \in Requests : Serve(r) \/ Abort(r) \/ \E t \in Texts : Send(r, t)
  \/ \E u \in Users : \/ MarkRead(u) \/ Block(u) \/ Unblock(u)
                      \/ Suspend(u) \/ Unsuspend(u) \/ Delete(u)
  \/ NextDay

Spec == Init /\ [][Next]_vars

\* A request that is being served goes on; nobody has to send, read, block or
\* abort.
Fairness == \A r \in Requests : WF_vars(Serve(r))

FairSpec == Spec /\ Fairness

-----------------------------------------------------------------------------
(* Properties.                                                             *)

\* The rows, the requests and the queue have the shapes declared above.
TypeOK ==
  /\ account \in [Users -> {"active", "suspended", "deleted"}]
  /\ blockers \subseteq Users
  /\ messages \subseteq Message
  /\ lastRead \in [Users -> 0 .. MaxNow]
  /\ request \in [Requests -> Request]
  /\ queue \in Seq(Requests)
  /\ now \in 0 .. MaxNow
  /\ day \in Days
  /\ seen \in [Users -> SUBSET Instants]

\* What is stored can be read: each message has one key for every participant
\* that has a public key, and none for anybody else, though the keys are
\* compared with a list of participants read before the transaction.
EveryoneCanRead == \A m \in messages : m.keys = Participants \cap Keyed

\* A send that arrives when the conversation is closed to its author, and
\* stays so for the same reason, is never stored: requireOpen runs after it
\* came in, on two separate reads.
ClosedSendsRefused ==
  \A r \in Requests :
    request[r].stage \in {"checked", "begun", "queued", "locked", "stored", "repeated"}
      => request[r].closed = {}

\* Nothing that was there when a user read the conversation counts as unread
\* for that user afterwards: the unread count compares the instant at which
\* the message's transaction began with the instant of the reading.
ReadStaysRead ==
  \A u \in Participants, m \in messages :
    m.entry.at \in seen[u] => ~(m.entry.at > lastRead[u])

\* Announcements in flight.
Owed == UNION {{EntryOf(r)} \X request[r].owed : r \in Requests}

\* The conversation keeps the promise of MessageLog.
Log == INSTANCE MessageLog WITH
  log <- {m.entry : m \in messages},
  owed <- Owed

LogKept == Log!LogSpec

\* Every send is answered or fails, however many wait for the lock and
\* whatever happens to the one that holds it.
EverySendEnds == \A r \in Requests : request[r].stage = "received" ~> Idle(r)
=============================================================================
