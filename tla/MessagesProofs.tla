--------------------------- MODULE MessagesProofs ---------------------------
(***************************************************************************)
(* What holds of Messages for any participants, texts, sends and bounds,   *)
(* and that it implements MessageLog.  A send keeps what it read while the *)
(* rows change, so the invariant says how old each reading may be: the     *)
(* keys cover the participants there still are, a closure of the           *)
(* conversation is still the one the request came into, and the search for *)
(* the same message stays true for the only request that holds the lock.   *)
(***************************************************************************)
EXTENDS Messages, FiniteSetTheorems, SequenceTheorems, TLAPS

Admitted == {"listed", "checked", "begun", "queued", "locked"}
Pending == {"begun", "queued", "locked"}
Dated == Pending \cup {"stored"}
Waiting == {"queued", "locked"}
Early == {"received", "member", "listed", "checked"}

\* The participants are the only readers, and a pair that is not complete
\* blocks nobody any more.
Alone == ~(Users \subseteq Participants)
BlocksGone == Alone => blockers = {}

Checked == {"checked", "begun", "queued", "locked", "stored", "repeated"}

\* What a request has read fits the rows as they are.  The keys are for every
\* participant still there that has a public key; what has closed the
\* conversation to the sender since before the send closes it still, and the
\* checks have found it; the holder of the lock has not found its message, and
\* nobody has stored it since; only what was stored is to be announced.
Fits(q) ==
  /\ q.stage \in Admitted =>
       Participants \cap Keyed \subseteq q.keys /\ q.keys \subseteq Keyed
  /\ q.closed \subseteq Closures(Author[q.text])
  /\ q.stage \notin {"idle", "received", "member"} => "suspension" \notin q.closed
  /\ q.stage = "listed" /\ q.others = {} => Alone
  /\ q.stage \in Checked => q.closed = {}
  /\ q.stage = "locked" => ~Repeats(q.text, q.day)
  /\ q.owed # {} => q.stage = "stored"

RequestsFit == \A r \in Requests : Fits(request[r])

\* The instants: none is in the future, and no two transactions have the same.
TimesFit ==
  /\ \A m \in messages : m.entry.at <= now
  /\ \A u \in Users : \A x \in seen[u] : x <= lastRead[u]
  /\ \A r \in Requests : request[r].stage \in Dated => request[r].at \in Instants /\ request[r].at <= now
  /\ \A r, s \in Requests : request[r].stage \in Dated /\ request[s].stage \in Dated
                              /\ request[r].at = request[s].at => r = s
  /\ \A r \in Requests, m \in messages : request[r].stage \in Pending => m.entry.at # request[r].at

\* There is an instant left for every transaction to come.
InstantsLeft == IsFiniteSet(ToBegin) /\ now + Cardinality(ToBegin) <= MaxNow

\* Those who wait are in the queue once, and the head alone holds the lock.
QueueFits ==
  /\ \A i, j \in 1 .. Len(queue) : queue[i] = queue[j] => i = j
  /\ \A i \in 1 .. Len(queue) : request[queue[i]].stage \in Waiting
  /\ \A r \in Requests : request[r].stage = "locked" => Len(queue) > 0 /\ queue[1] = r

Inv ==
  /\ TypeOK /\ BlocksGone /\ RequestsFit /\ TimesFit /\ InstantsLeft /\ QueueFits
  /\ EveryoneCanRead

-----------------------------------------------------------------------------
(* The queue.                                                              *)

\* A sequence without the element at one place.
LEMMA RemoveAtProperties ==
  ASSUME NEW S, NEW s \in Seq(S), NEW i \in 1 .. Len(s)
  PROVE  /\ RemoveAt(s, i) \in Seq(S) /\ Len(RemoveAt(s, i)) = Len(s) - 1
         /\ \A j \in 1 .. Len(s) - 1 : RemoveAt(s, i)[j] = IF j < i THEN s[j] ELSE s[j + 1]
<1>. DEFINE a == SubSeq(s, 1, i - 1)
            b == SubSeq(s, i + 1, Len(s))
<1>1. Len(s) \in Nat /\ \A j \in 1 .. Len(s) : s[j] \in S
  OBVIOUS
<1>2. /\ a \in Seq(S) /\ Len(a) = i - 1
      /\ \A j \in 1 .. i - 1 : a[j] = s[j]
  BY <1>1, SubSeqProperties
<1>3. /\ b \in Seq(S) /\ Len(b) = Len(s) - i
      /\ \A j \in 1 .. Len(s) - i : b[j] = s[i + j]
  BY <1>1, SubSeqProperties
<1>4. RemoveAt(s, i) = a \o b
  BY DEF RemoveAt
<1>. HIDE DEF a, b
<1>5. /\ a \o b \in Seq(S) /\ Len(a \o b) = Len(s) - 1
      /\ \A j \in 1 .. Len(s) - 1 : (a \o b)[j] = IF j <= i - 1 THEN a[j] ELSE b[j - (i - 1)]
  <2>1. /\ a \o b \in Seq(S) /\ Len(a \o b) = Len(a) + Len(b)
        /\ \A j \in 1 .. Len(a) + Len(b) : (a \o b)[j] = IF j <= Len(a) THEN a[j] ELSE b[j - Len(a)]
    BY <1>2, <1>3, ConcatProperties
  <2>. QED
    BY <1>1, <1>2, <1>3, <2>1
<1>. QED
  BY <1>1, <1>2, <1>3, <1>4, <1>5

\* What a request that leaves the queue leaves there.
LEMMA LeaveQueue ==
  ASSUME TypeOK, QueueFits, NEW r \in Requests, Leave(r)
  PROVE  /\ queue' \in Seq(Requests)
         /\ \A i, j \in 1 .. Len(queue') : queue'[i] = queue'[j] => i = j
         /\ \A i \in 1 .. Len(queue') :
              queue'[i] # r /\ \E j \in 1 .. Len(queue) : queue'[i] = queue[j]
         /\ Len(queue) > 0 /\ queue[1] # r => Len(queue') > 0 /\ queue'[1] = queue[1]
<1>. DEFINE places == {i \in DOMAIN queue : queue[i] = r}
<1>1. queue \in Seq(Requests) /\ Len(queue) \in Nat /\ DOMAIN queue = 1 .. Len(queue)
  BY DEF TypeOK
<1>2. CASE places = {}
  BY <1>1, <1>2 DEF Leave, QueueFits
<1>3. CASE places # {}
  <2>1. PICK k \in places : queue' = RemoveAt(queue, k)
    BY <1>3 DEF Leave
  <2>2. k \in 1 .. Len(queue) /\ queue[k] = r
    BY <1>1, <2>1
  <2>3. /\ queue' \in Seq(Requests) /\ Len(queue') = Len(queue) - 1
        /\ \A j \in 1 .. Len(queue) - 1 : queue'[j] = IF j < k THEN queue[j] ELSE queue[j + 1]
    BY <1>1, <2>1, <2>2, RemoveAtProperties
  <2>. QED
    BY <1>1, <2>2, <2>3, SMTT(30) DEF QueueFits
<1>. QED
  BY <1>2, <1>3

-----------------------------------------------------------------------------
(* The steps of a request.                                                 *)

\* The requests after a step of one of them.
LEMMA OneRequest ==
  ASSUME TypeOK, NEW r \in Requests, NEW x \in Request, request' = [request EXCEPT ![r] = x]
  PROVE  /\ request' \in [Requests -> Request]
         /\ request'[r] = x /\ \A s \in Requests \ {r} : request'[s] = request[s]
BY DEF TypeOK

\* A request that is over.
LEMMA OverFits ==
  ASSUME TypeOK, NEW r \in Requests
  PROVE  /\ Over(r) \in Request /\ Over(r).stage = "idle" /\ Over(r).text = request[r].text
         /\ Over(r).owed = {} /\ Over(r).closed = {} /\ Fits(Over(r))
<1>1. request[r] \in Request
  BY DEF TypeOK
<1>2. Over(r) \in Request
  <2>1. 0 \in Days
    BY MessagesAssumption DEF Days
  <2>. QED
    BY <1>1, <2>1 DEF Over, Request, Stages
<1>4. /\ Over(r).stage = "idle" /\ Over(r).text = request[r].text
       /\ Over(r).owed = {} /\ Over(r).closed = {}
  BY <1>1 DEF Over, Request
<1>3. Fits(Over(r))
  BY <1>4 DEF Fits, Admitted, Checked
<1>. QED
  BY <1>2, <1>4, <1>3

\* While the rows and the clock stay, a request may go on with what fits them.
LEMMA StepKeeps ==
  ASSUME Inv, NEW r \in Requests, NEW x \in Request, Fits(x),
         request' = [request EXCEPT ![r] = x], UNCHANGED <<rows, now, seen>>,
         x.stage \in Early => request[r].stage \in Early \/ now + Cardinality(ToBegin) < MaxNow,
         x.stage \in Dated => request[r].stage \in Dated /\ x.at = request[r].at,
         x.stage \in Pending => request[r].stage \in Pending
  PROVE  BlocksGone' /\ RequestsFit' /\ TimesFit' /\ InstantsLeft' /\ EveryoneCanRead'
<1>1. request'[r] = x /\ \A s \in Requests \ {r} : request'[s] = request[s]
  BY OneRequest DEF Inv
<1>2. BlocksGone' /\ EveryoneCanRead'
  BY DEF Inv, BlocksGone, EveryoneCanRead, Alone, Participants, Exists, rows
<1>3. RequestsFit'
  <2>1. \A s \in Requests : Fits(request'[s])
    BY <1>1 DEF Inv, RequestsFit
  <2>2. ASSUME NEW q, Fits(q)
        PROVE  Fits(q)'
    BY <2>2 DEF Fits, Closures, Alone, Participants, Exists, Repeats, rows
  <2>. QED
    BY <2>1, <2>2 DEF RequestsFit
<1>4. TimesFit'
  BY <1>1 DEF Inv, TimesFit, rows, Pending, Dated
<1>5. InstantsLeft'
  <2>1. ToBegin' \subseteq ToBegin \cup {r} /\ (x.stage \notin Early => ToBegin' \subseteq ToBegin)
        /\ (r \in ToBegin <=> request[r].stage \in Early) /\ (r \notin ToBegin => ~(request[r].stage \in Early))
    BY <1>1 DEF ToBegin, Early
  <2>2. CASE ToBegin' \subseteq ToBegin
    <3>1. IsFiniteSet(ToBegin') /\ Cardinality(ToBegin') <= Cardinality(ToBegin)
      BY <2>2, FS_Subset DEF Inv, InstantsLeft
    <3>2. Cardinality(ToBegin) \in Nat /\ Cardinality(ToBegin') \in Nat
      BY <3>1, FS_CardinalityType DEF Inv, InstantsLeft
    <3>3. now' = now /\ now \in Nat /\ now + Cardinality(ToBegin) <= MaxNow
      BY MessagesAssumption DEF Inv, InstantsLeft, TypeOK
    <3>. HIDE DEF ToBegin
    <3>4. now + Cardinality(ToBegin') <= MaxNow
      BY <3>1, <3>2, <3>3, MessagesAssumption
    <3>. QED
      BY <3>1, <3>3, <3>4 DEF InstantsLeft
  <2>3. CASE ToBegin' = ToBegin \cup {r} /\ r \notin ToBegin /\ now + Cardinality(ToBegin) < MaxNow
    <3>1. /\ IsFiniteSet(ToBegin') /\ Cardinality(ToBegin') = Cardinality(ToBegin) + 1
          /\ Cardinality(ToBegin) \in Nat
      BY <2>3, FS_AddElement, FS_CardinalityType DEF Inv, InstantsLeft
    <3>2. now' = now /\ now \in Nat
      BY MessagesAssumption DEF Inv, TypeOK
    <3>3. now + Cardinality(ToBegin') <= MaxNow
      BY <2>3, <3>1, <3>2, MessagesAssumption
    <3>. QED
      BY <3>1, <3>2, <3>3 DEF InstantsLeft
  <2>4. \/ ToBegin' \subseteq ToBegin
        \/ ToBegin' = ToBegin \cup {r} /\ r \notin ToBegin /\ now + Cardinality(ToBegin) < MaxNow
    BY <1>1, <2>1 DEF ToBegin, Early
  <2>. QED
    BY <2>2, <2>3, <2>4
<1>. QED
  BY <1>2, <1>3, <1>4, <1>5

\* Who is not waiting, and does not start to, leaves the queue as it is.
LEMMA QueueKept ==
  ASSUME Inv, NEW r \in Requests, NEW x \in Request, request' = [request EXCEPT ![r] = x],
         queue' = queue, request[r].stage \notin Waiting, x.stage \notin Waiting
  PROVE  QueueFits'
<1>1. request'[r] = x /\ \A s \in Requests \ {r} : request'[s] = request[s]
  BY OneRequest DEF Inv
<1>2. \A i \in 1 .. Len(queue) : queue[i] \in Requests
  BY DEF Inv, TypeOK
<1>. QED
  BY <1>1, <1>2 DEF Inv, QueueFits, Waiting

\* Who stops waiting leaves it.
LEMMA QueueLeft ==
  ASSUME Inv, NEW r \in Requests, NEW x \in Request, request' = [request EXCEPT ![r] = x],
         Leave(r), x.stage \notin Waiting
  PROVE  queue' \in Seq(Requests) /\ QueueFits'
<1>1. request'[r] = x /\ \A s \in Requests \ {r} : request'[s] = request[s]
  BY OneRequest DEF Inv
<1>2. /\ queue' \in Seq(Requests)
      /\ \A i, j \in 1 .. Len(queue') : queue'[i] = queue'[j] => i = j
      /\ \A i \in 1 .. Len(queue') :
           queue'[i] # r /\ \E j \in 1 .. Len(queue) : queue'[i] = queue[j]
      /\ Len(queue) > 0 /\ queue[1] # r => Len(queue') > 0 /\ queue'[1] = queue[1]
  BY LeaveQueue DEF Inv
<1>3. \A i \in 1 .. Len(queue) : queue[i] \in Requests
  BY DEF Inv, TypeOK
<1>4. \A i \in 1 .. Len(queue') : request'[queue'[i]].stage \in Waiting
  BY <1>1, <1>2, <1>3 DEF Inv, QueueFits
<1>5. \A s \in Requests : request'[s].stage = "locked" => Len(queue') > 0 /\ queue'[1] = s
  BY <1>1, <1>2 DEF Inv, QueueFits, Waiting
<1>. QED
  BY <1>2, <1>4, <1>5 DEF QueueFits

\* A request that goes on, while nothing else changes, to what fits the rows.
LEMMA Advance ==
  ASSUME Inv, NEW r \in Requests, NEW x \in Request, Fits(x),
         request' = [request EXCEPT ![r] = x], UNCHANGED <<rows, clock, seen>>,
         x.stage \in Early => request[r].stage \in Early \/ now + Cardinality(ToBegin) < MaxNow,
         x.stage \in Dated => request[r].stage \in Dated /\ x.at = request[r].at,
         x.stage \notin Pending,
         \/ queue' = queue /\ request[r].stage \notin Waiting
         \/ Leave(r)
  PROVE  Inv'
<1>1. /\ request' \in [Requests -> Request]
      /\ request'[r] = x /\ \A s \in Requests \ {r} : request'[s] = request[s]
  BY OneRequest DEF Inv
<1>2. UNCHANGED <<rows, now, seen>>
  BY DEF clock
<1>. x.stage \notin Waiting
  BY DEF Pending, Waiting
<1>3. queue' \in Seq(Requests) /\ QueueFits'
  <2>1. CASE queue' = queue /\ request[r].stage \notin Waiting
    BY <2>1, QueueKept DEF Inv, TypeOK
  <2>2. CASE Leave(r)
    BY <2>2, QueueLeft
  <2>. QED
    BY <2>1, <2>2
<1>4. TypeOK'
  BY <1>1, <1>3 DEF Inv, TypeOK, rows, clock
<1>5. BlocksGone' /\ RequestsFit' /\ TimesFit' /\ InstantsLeft' /\ EveryoneCanRead'
  BY <1>2, StepKeeps
<1>. QED
  BY <1>3, <1>4, <1>5 DEF Inv

\* A send that ends, by an answer or otherwise.
LEMMA Ends ==
  ASSUME Inv, NEW r \in Requests, Finish(r), UNCHANGED <<rows, clock, seen>>,
         \/ queue' = queue /\ request[r].stage \notin Waiting
         \/ Leave(r)
  PROVE  Inv'
<1>1. PICK x : x = Over(r)
  OBVIOUS
<1>2. x \in Request /\ x.stage = "idle" /\ Fits(x)
  BY <1>1, OverFits DEF Inv
<1>3. request' = [request EXCEPT ![r] = x]
  BY <1>1 DEF Finish
<1>4. x.stage \notin Early /\ x.stage \notin Dated /\ x.stage \notin Pending
  BY <1>2 DEF Early, Dated, Pending
<1>. QED
  BY <1>2, <1>3, <1>4, Advance

\* A request of which only the stage changes.
LEMMA Turned ==
  ASSUME TypeOK, NEW r \in Requests, NEW st \in Stages, Goto(r, st)
  PROVE  \E x \in Request :
           /\ x = [request[r] EXCEPT !.stage = st]
           /\ request' = [request EXCEPT ![r] = x]
           /\ x.stage = st
           /\ x.text = request[r].text /\ x.keys = request[r].keys
           /\ x.others = request[r].others /\ x.at = request[r].at /\ x.day = request[r].day
           /\ x.owed = request[r].owed /\ x.closed = request[r].closed
<1>1. request[r] \in Request
  BY DEF TypeOK
<1>2. PICK x : x = [request[r] EXCEPT !.stage = st]
  OBVIOUS
<1>3. x \in Request
  BY <1>1, <1>2 DEF Request
<1>4. request' = [request EXCEPT ![r] = x]
  BY <1>2 DEF Goto
<1>5. /\ x.stage = st
      /\ x.text = request[r].text /\ x.keys = request[r].keys
      /\ x.others = request[r].others /\ x.at = request[r].at /\ x.day = request[r].day
      /\ x.owed = request[r].owed /\ x.closed = request[r].closed
  BY <1>1, <1>2 DEF Request
<1>. QED
  BY <1>2, <1>3, <1>4, <1>5

LEMMA CheckMemberKeeps ==
  ASSUME Inv, NEW r \in Requests, CheckMember(r)
  PROVE  Inv'
<1>1. request[r].stage = "received" /\ UNCHANGED <<rows, clock, seen>> /\ queue' = queue
  BY DEF CheckMember, history
<1>2. CASE Goto(r, "member")
  <2>1. PICK x \in Request : /\ request' = [request EXCEPT ![r] = x] /\ x.stage = "member"
                             /\ x.owed = request[r].owed /\ x.closed = request[r].closed
                             /\ x.text = request[r].text
    BY <1>2, Turned DEF Inv, Stages
  <2>2. Fits(request[r])
    BY DEF Inv, RequestsFit
  <2>3. Fits(x)
    BY <1>1, <2>1, <2>2 DEF Fits, Admitted, Checked
  <2>. QED
    BY <1>1, <2>1, <2>3, Advance DEF Early, Dated, Pending, Waiting
<1>3. CASE Finish(r)
  BY <1>1, <1>3, Ends DEF Waiting
<1>. QED
  BY <1>2, <1>3 DEF CheckMember

LEMMA CheckBlocksKeeps ==
  ASSUME Inv, NEW r \in Requests, CheckBlocks(r)
  PROVE  Inv'
<1>1. request[r].stage = "listed" /\ UNCHANGED <<rows, clock, seen>> /\ queue' = queue
  BY DEF CheckBlocks, history
<1>2. CASE (request[r].others = {} \/ blockers = {}) /\ Goto(r, "checked")
  <2>1. PICK x \in Request : /\ request' = [request EXCEPT ![r] = x] /\ x.stage = "checked"
                             /\ x.owed = request[r].owed /\ x.closed = request[r].closed
                             /\ x.text = request[r].text /\ x.keys = request[r].keys
    BY <1>2, Turned DEF Inv, Stages
  <2>2. Fits(request[r])
    BY DEF Inv, RequestsFit
  <2>3. blockers = {}
    BY <1>1, <1>2, <2>2 DEF Fits, Inv, BlocksGone
  <2>4. request[r].closed = {}
    BY <1>1, <2>2, <2>3 DEF Fits, Closures
  <2>5. Fits(x)
    BY <1>1, <2>1, <2>2, <2>4 DEF Fits, Admitted, Checked
  <2>. QED
    BY <1>1, <2>1, <2>5, Advance DEF Early, Dated, Pending, Waiting
<1>3. CASE Finish(r)
  BY <1>1, <1>3, Ends DEF Waiting
<1>. QED
  BY <1>2, <1>3 DEF CheckBlocks

LEMMA ReadParticipantsKeeps ==
  ASSUME Inv, NEW r \in Requests, ReadParticipants(r)
  PROVE  Inv'
<1>1. request[r].stage = "member" /\ UNCHANGED <<rows, clock, seen>> /\ queue' = queue
  BY DEF ReadParticipants, history
<1>2. PICK others : others = Participants \ {Sender(r)}
  OBVIOUS
<1>3. CASE /\ \A v \in others : account[v] # "suspended"
           /\ request[r].keys = Participants \cap Keyed
           /\ request' = [request EXCEPT ![r].stage = "listed", ![r].others = others]
  <2>1. request[r] \in Request /\ Sender(r) \in Users /\ others \subseteq Users
    BY <1>2, MessagesAssumption DEF Inv, TypeOK, Request, Sender, Participants
  <2>2. PICK x : x = [request[r] EXCEPT !.stage = "listed", !.others = others]
    OBVIOUS
  <2>3. x \in Request
    BY <2>1, <2>2 DEF Request, Stages
  <2>4. /\ x.stage = "listed" /\ x.others = others /\ x.text = request[r].text
        /\ x.keys = request[r].keys /\ x.owed = request[r].owed /\ x.closed = request[r].closed
    BY <2>1, <2>2 DEF Request
  <2>5. request' = [request EXCEPT ![r] = x]
    BY <1>3, <2>1, <2>2 DEF Inv, TypeOK
  <2>6. Fits(request[r])
    BY DEF Inv, RequestsFit
  <2>7. "suspension" \notin x.closed
    BY <1>2, <1>3, <2>4, <2>6 DEF Fits, Closures, Sender, Participants, Exists
  <2>8. x.others = {} => Alone
    BY <1>2, <2>1, <2>4, MessagesAssumption DEF Alone
  <2>9. Fits(x)
    BY <1>1, <1>3, <2>4, <2>6, <2>7, <2>8, MessagesAssumption DEF Fits, Admitted, Checked
  <2>. QED
    BY <1>1, <2>3, <2>4, <2>5, <2>9, Advance DEF Early, Dated, Pending, Waiting
<1>4. CASE Finish(r)
  BY <1>1, <1>4, Ends DEF Waiting
<1>. QED
  BY <1>2, <1>3, <1>4 DEF ReadParticipants

LEMMA AnswerKeeps ==
  ASSUME Inv, NEW r \in Requests, Answer(r)
  PROVE  Inv'
BY Ends DEF Answer, Waiting, history

LEMMA AbortKeeps ==
  ASSUME Inv, NEW r \in Requests, Abort(r)
  PROVE  Inv'
BY Ends DEF Abort, history

LEMMA AnnounceKeeps ==
  ASSUME Inv, NEW r \in Requests, NEW left, left \subseteq request[r].owed,
         request[r].stage = "stored", request' = [request EXCEPT ![r].owed = left],
         UNCHANGED <<rows, clock, seen>>, queue' = queue
  PROVE  Inv'
<1>1. request[r] \in Request /\ Fits(request[r])
  BY DEF Inv, TypeOK, RequestsFit
<1>2. PICK x : x = [request[r] EXCEPT !.owed = left]
  OBVIOUS
<1>3. x \in Request
  BY <1>1, <1>2 DEF Request
<1>4. /\ x.stage = request[r].stage /\ x.owed = left /\ x.text = request[r].text
      /\ x.closed = request[r].closed /\ x.at = request[r].at
  BY <1>1, <1>2 DEF Request
<1>5. request' = [request EXCEPT ![r] = x]
  BY <1>2 DEF Inv, TypeOK
<1>6. Fits(x)
  BY <1>1, <1>4 DEF Fits, Admitted, Checked
<1>. QED
  BY <1>3, <1>4, <1>5, <1>6, Advance DEF Early, Dated, Pending, Waiting

LEMMA PublishKeeps ==
  ASSUME Inv, NEW r \in Requests, Publish(r)
  PROVE  Inv'
<1>1. PICK u \in Users : request' = [request EXCEPT ![r].owed = @ \ {<<u, "live">>}]
  BY DEF Publish
<1>2. PICK left : left = request[r].owed \ {<<u, "live">>}
  OBVIOUS
<1>3. request' = [request EXCEPT ![r].owed = left] /\ left \subseteq request[r].owed
  BY <1>1, <1>2
<1>. QED
  BY <1>3, AnnounceKeeps DEF Publish

LEMMA PushKeeps ==
  ASSUME Inv, NEW r \in Requests, Push(r)
  PROVE  Inv'
<1>1. PICK left : left = {}
  OBVIOUS
<1>2. /\ request' = [request EXCEPT ![r].owed = left] /\ left \subseteq request[r].owed
      /\ request[r].stage = "stored" /\ UNCHANGED <<rows, clock, seen>> /\ queue' = queue
  BY <1>1 DEF Push
<1>. QED
  BY <1>2, AnnounceKeeps

LEMMA SendKeeps ==
  ASSUME Inv, NEW r \in Requests, NEW t \in Texts, Send(r, t)
  PROVE  Inv'
<1>1. PICK keys \in {Keyed, Keyed \cap {Author[t]}} :
        request' = [request EXCEPT ![r] = [Over(r) EXCEPT
          !.stage = "received", !.text = t, !.keys = keys, !.closed = Closures(Author[t])]]
  BY DEF Send
<1>2. PICK x : x = [Over(r) EXCEPT !.stage = "received", !.text = t, !.keys = keys,
                                   !.closed = Closures(Author[t])]
  OBVIOUS
<1>3. Over(r) \in Request /\ Over(r).owed = {}
  BY OverFits DEF Inv
<1>4. keys \in SUBSET Users /\ Author[t] \in Users
  BY <1>1, MessagesAssumption
<1>5. x \in Request
  BY <1>2, <1>3, <1>4 DEF Request, Stages, Closures
<1>6. x.stage = "received" /\ x.text = t /\ x.closed = Closures(Author[t]) /\ x.owed = {}
  BY <1>2, <1>3 DEF Request
<1>7. Fits(x)
  BY <1>6 DEF Fits, Admitted, Checked
<1>8. /\ request' = [request EXCEPT ![r] = x] /\ UNCHANGED <<rows, clock, seen>>
      /\ queue' = queue /\ request[r].stage = "idle" /\ now + Cardinality(ToBegin) < MaxNow
  BY <1>1, <1>2 DEF Send, Idle, history
<1>. QED
  BY <1>5, <1>6, <1>7, <1>8, Advance DEF Early, Dated, Pending, Waiting

\* A transaction begins: its instant is new, and it was counted.
LEMMA BeginKeeps ==
  ASSUME Inv, NEW r \in Requests, Begin(r)
  PROVE  Inv'
<1>1. /\ request[r].stage = "checked" /\ now' = now + 1
      /\ UNCHANGED <<account, blockers, messages, lastRead, queue, day, seen>>
      /\ request[r] \in Request /\ Fits(request[r]) /\ now \in Nat /\ MaxNow \in Nat
  BY MessagesAssumption DEF Begin, rows, history, Inv, TypeOK, RequestsFit
<1>2. PICK x : x = [request[r] EXCEPT !.stage = "begun", !.at = now + 1, !.day = day]
  OBVIOUS
<1>3. /\ IsFiniteSet(ToBegin') /\ Cardinality(ToBegin') = Cardinality(ToBegin) - 1
      /\ Cardinality(ToBegin) \in Nat /\ Cardinality(ToBegin) > 0
  <2>1. IsFiniteSet(ToBegin) /\ r \in ToBegin
    BY <1>1 DEF Inv, InstantsLeft, ToBegin
  <2>2. ToBegin' = ToBegin \ {r}
    BY <1>1 DEF Begin, ToBegin, Inv, TypeOK, Request
  <2>3. Cardinality(ToBegin) \in Nat /\ Cardinality(ToBegin') \in Nat
    BY <2>1, <2>2, FS_CardinalityType, FS_RemoveElement
  <2>4. IsFiniteSet(ToBegin') /\ Cardinality(ToBegin') = Cardinality(ToBegin) - 1
    BY <2>1, <2>2, FS_RemoveElement
  <2>. QED
    BY <2>3, <2>4
<1>4. now + 1 <= MaxNow /\ InstantsLeft'
  BY <1>1, <1>3 DEF Inv, InstantsLeft
<1>5. x \in Request
  <2>1. now + 1 \in Instants /\ day \in Days
    BY <1>1, <1>4 DEF Instants, Inv, TypeOK
  <2>. QED
    BY <1>1, <1>2, <2>1 DEF Request, Stages
<1>6. /\ x.stage = "begun" /\ x.at = now + 1 /\ x.day = day /\ x.text = request[r].text
      /\ x.keys = request[r].keys /\ x.owed = request[r].owed /\ x.closed = request[r].closed
  BY <1>1, <1>2 DEF Request
<1>7. request' = [request EXCEPT ![r] = x]
  BY <1>1, <1>2 DEF Begin, Inv, TypeOK
<1>8. /\ request' \in [Requests -> Request]
      /\ request'[r] = x /\ \A s \in Requests \ {r} : request'[s] = request[s]
  BY <1>5, <1>7, OneRequest DEF Inv
<1>9. TypeOK'
  BY <1>1, <1>4, <1>8 DEF Inv, TypeOK
<1>10. BlocksGone' /\ EveryoneCanRead'
  BY <1>1 DEF Inv, BlocksGone, EveryoneCanRead, Alone, Participants, Exists
<1>11. RequestsFit'
  <2>1. Fits(x)
    BY <1>1, <1>6 DEF Fits, Admitted, Checked
  <2>2. \A s \in Requests : Fits(request'[s])
    BY <1>8, <2>1 DEF Inv, RequestsFit
  <2>3. ASSUME NEW q, Fits(q)
        PROVE  Fits(q)'
    BY <1>1, <2>3 DEF Fits, Closures, Alone, Participants, Exists, Repeats
  <2>. QED
    BY <2>2, <2>3 DEF RequestsFit
<1>12. TimesFit'
  <2>1. \A m \in messages : m.entry.at <= now /\ m.entry.at \in Nat
    BY DEF Inv, TimesFit, TypeOK, Message, Entry, Instants
  <2>2. \A s \in Requests : request[s].stage \in Dated => request[s].at \in Instants /\ request[s].at <= now
    BY DEF Inv, TimesFit
  <2>3. Instants \subseteq Nat /\ now + 1 \in Instants
    BY <1>1, <1>4 DEF Instants
  <2>4. (\A m \in messages : m.entry.at <= now)'
    BY <1>1, <2>1
  <2>5. (\A u \in Users : \A y \in seen[u] : y <= lastRead[u])'
    BY <1>1 DEF Inv, TimesFit
  <2>6. (\A s \in Requests : request[s].stage \in Dated => request[s].at \in Instants /\ request[s].at <= now)'
    <3>1. \A s \in Requests \ {r} : request[s].stage \in Dated
                                      => request[s].at \in Instants /\ request[s].at <= now + 1
      <4>. SUFFICES ASSUME NEW s \in Requests, request[s].stage \in Dated
                    PROVE  request[s].at \in Instants /\ request[s].at <= now + 1
        OBVIOUS
      <4>1. request[s].at \in Instants /\ request[s].at <= now
        BY <2>2
      <4>2. request[s].at \in Nat /\ now \in Nat
        BY <1>1, <2>3, <4>1
      <4>. QED
        BY <4>1, <4>2
    <3>2. x.at \in Instants /\ x.at <= now + 1
      BY <1>1, <1>6, <2>3
    <3>3. \A s \in Requests : request'[s].stage \in Dated
                                => request'[s].at \in Instants /\ request'[s].at <= now + 1
      BY <1>8, <3>1, <3>2
    <3>. QED
      BY <1>1, <3>3
  <2>7. (\A s, q \in Requests : request[s].stage \in Dated /\ request[q].stage \in Dated
                              /\ request[s].at = request[q].at => s = q)'
    BY <1>1, <1>6, <1>8, <2>2, <2>3 DEF Inv, TimesFit
  <2>8. (\A s \in Requests, m \in messages : request[s].stage \in Pending => m.entry.at # request[s].at)'
    BY <1>1, <1>6, <1>8, <2>1 DEF Inv, TimesFit
  <2>. QED
    BY <2>4, <2>5, <2>6, <2>7, <2>8 DEF TimesFit
<1>13. QueueFits'
  BY <1>1, <1>5, <1>6, <1>7, QueueKept DEF Waiting
<1>. QED
  BY <1>4, <1>9, <1>10, <1>11, <1>12, <1>13 DEF Inv

\* A send asks for the lock: it is last in the queue, and was not in it.
LEMMA AskLockKeeps ==
  ASSUME Inv, NEW r \in Requests, AskLock(r)
  PROVE  Inv'
<1>1. /\ request[r].stage = "begun" /\ UNCHANGED <<rows, now, day, seen>> /\ queue' = Append(queue, r)
      /\ Fits(request[r])
  BY DEF AskLock, clock, history, Inv, RequestsFit
<1>2. PICK x \in Request :
        /\ request' = [request EXCEPT ![r] = x] /\ x.stage = "queued"
        /\ x.owed = request[r].owed /\ x.closed = request[r].closed
        /\ x.text = request[r].text /\ x.keys = request[r].keys /\ x.at = request[r].at
  BY Turned DEF AskLock, Inv, Stages
<1>3. Fits(x)
  BY <1>1, <1>2 DEF Fits, Admitted, Checked
<1>4. BlocksGone' /\ RequestsFit' /\ TimesFit' /\ InstantsLeft' /\ EveryoneCanRead'
  BY <1>1, <1>2, <1>3, StepKeeps DEF Early, Dated, Pending
<1>5. /\ request' \in [Requests -> Request]
      /\ request'[r] = x /\ \A s \in Requests \ {r} : request'[s] = request[s]
  BY <1>2, OneRequest DEF Inv
<1>6. queue \in Seq(Requests) /\ Len(queue) \in Nat /\ \A i \in 1 .. Len(queue) : queue[i] \in Requests
  BY DEF Inv, TypeOK
<1>7. /\ queue' \in Seq(Requests) /\ Len(queue') = Len(queue) + 1 /\ queue'[Len(queue) + 1] = r
      /\ \A i \in 1 .. Len(queue) : queue'[i] = queue[i]
  BY <1>1, <1>6, AppendProperties
<1>8. \A i \in 1 .. Len(queue) : queue[i] # r
  BY <1>1 DEF Inv, QueueFits, Waiting
<1>9. QueueFits'
  <2>1. \A i, j \in 1 .. Len(queue') : queue'[i] = queue'[j] => i = j
    BY <1>6, <1>7, <1>8 DEF Inv, QueueFits
  <2>2. \A i \in 1 .. Len(queue') : request'[queue'[i]].stage \in Waiting
    BY <1>2, <1>5, <1>6, <1>7, <1>8 DEF Inv, QueueFits, Waiting
  <2>3. \A s \in Requests : request'[s].stage = "locked" => Len(queue') > 0 /\ queue'[1] = s
    BY <1>2, <1>5, <1>6, <1>7 DEF Inv, QueueFits
  <2>. QED
    BY <2>1, <2>2, <2>3 DEF QueueFits
<1>10. TypeOK'
  BY <1>1, <1>5, <1>7 DEF Inv, TypeOK, rows
<1>. QED
  BY <1>4, <1>9, <1>10 DEF Inv

LEMMA LookUpKeeps ==
  ASSUME Inv, NEW r \in Requests, LookUp(r)
  PROVE  Inv'
<1>1. /\ request[r].stage = "queued" /\ UNCHANGED <<rows, clock, seen>> /\ UNCHANGED <<rows, now, seen>>
      /\ queue # <<>> /\ Head(queue) = r /\ Fits(request[r])
  BY DEF LookUp, clock, history, Inv, RequestsFit
<1>2. queue \in Seq(Requests) /\ Len(queue) \in Nat /\ \A i \in 1 .. Len(queue) : queue[i] \in Requests
  BY DEF Inv, TypeOK
<1>3. Len(queue) > 0 /\ queue[1] = r
  BY <1>1, <1>2
<1>4. CASE ~Repeats(request[r].text, request[r].day) /\ Goto(r, "locked") /\ UNCHANGED queue
  <2>1. PICK x \in Request :
          /\ request' = [request EXCEPT ![r] = x] /\ x.stage = "locked"
          /\ x.owed = request[r].owed /\ x.closed = request[r].closed /\ x.day = request[r].day
          /\ x.text = request[r].text /\ x.keys = request[r].keys /\ x.at = request[r].at
    BY <1>4, Turned DEF Inv, Stages
  <2>2. Fits(x)
    BY <1>1, <1>4, <2>1 DEF Fits, Admitted, Checked
  <2>3. BlocksGone' /\ RequestsFit' /\ TimesFit' /\ InstantsLeft' /\ EveryoneCanRead'
    BY <1>1, <2>1, <2>2, StepKeeps DEF Early, Dated, Pending
  <2>4. /\ request' \in [Requests -> Request]
        /\ request'[r] = x /\ \A s \in Requests \ {r} : request'[s] = request[s]
    BY <2>1, OneRequest DEF Inv
  <2>5. QueueFits'
    BY <1>2, <1>3, <1>4, <2>1, <2>4 DEF Inv, QueueFits, Waiting
  <2>6. TypeOK'
    BY <1>1, <1>4, <2>4 DEF Inv, TypeOK, rows, clock
  <2>. QED
    BY <2>3, <2>5, <2>6 DEF Inv
<1>5. CASE Goto(r, "repeated") /\ Leave(r)
  <2>1. PICK x \in Request :
          /\ request' = [request EXCEPT ![r] = x] /\ x.stage = "repeated"
          /\ x.owed = request[r].owed /\ x.closed = request[r].closed
          /\ x.text = request[r].text /\ x.keys = request[r].keys /\ x.at = request[r].at
    BY <1>5, Turned DEF Inv, Stages
  <2>2. Fits(x)
    BY <1>1, <2>1 DEF Fits, Admitted, Checked
  <2>. QED
    BY <1>1, <1>5, <2>1, <2>2, Advance DEF Early, Dated, Pending
<1>. QED
  BY <1>4, <1>5 DEF LookUp

\* A message is stored by the only request that holds the lock, with the keys
\* of exactly those who are there.
LEMMA StoreKeeps ==
  ASSUME Inv, NEW r \in Requests, Store(r)
  PROVE  Inv'
<1>1. /\ request[r].stage = "locked" /\ Leave(r) /\ request[r] \in Request /\ Fits(request[r])
      /\ UNCHANGED <<account, blockers, lastRead, now, day, seen>>
  BY DEF Store, clock, history, Inv, TypeOK, RequestsFit
<1>2. CASE /\ Sender(r) \in Participants /\ request[r].keys \subseteq Participants
           /\ messages' = messages \cup {[entry |-> EntryOf(r), keys |-> request[r].keys]}
           /\ request' = [request EXCEPT ![r].stage = "stored",
                ![r].owed = request[r].others \X Channels]
  <2>1. PICK x : x = [request[r] EXCEPT !.stage = "stored", !.owed = request[r].others \X Channels]
    OBVIOUS
  <2>2. PICK m : m = [entry |-> EntryOf(r), keys |-> request[r].keys]
    OBVIOUS
  <2>3. x \in Request
    <3>1. request[r].others \X Channels \subseteq Users \X Channels
      BY <1>1 DEF Request
    <3>. QED
      BY <1>1, <2>1, <3>1 DEF Request, Stages
  <2>4. /\ x.stage = "stored" /\ x.text = request[r].text /\ x.at = request[r].at
        /\ x.closed = request[r].closed
    BY <1>1, <2>1 DEF Request
  <2>5. request' = [request EXCEPT ![r] = x]
    BY <1>1, <1>2, <2>1 DEF Inv, TypeOK
  <2>6. /\ request' \in [Requests -> Request]
        /\ request'[r] = x /\ \A s \in Requests \ {r} : request'[s] = request[s]
    BY <2>3, <2>5, OneRequest DEF Inv
  <2>7. request[r].at \in Instants /\ request[r].at <= now
    BY <1>1 DEF Inv, TimesFit, Dated, Pending
  <2>8. m \in Message /\ m.entry.at = request[r].at /\ m.keys = request[r].keys
    BY <1>1, <2>2, <2>7 DEF Message, Entry, EntryOf, Request
  <2>9. messages' = messages \cup {m}
    BY <1>2, <2>2
  <2>10. \A s \in Requests \ {r} : request[s].stage # "locked"
    BY <1>1 DEF Inv, QueueFits
  <2>11. queue' \in Seq(Requests) /\ QueueFits'
    BY <1>1, <2>3, <2>4, <2>5, QueueLeft DEF Waiting
  <2>12. TypeOK'
    BY <1>1, <2>6, <2>8, <2>9, <2>11 DEF Inv, TypeOK
  <2>13. BlocksGone'
    BY <1>1 DEF Inv, BlocksGone, Alone, Participants, Exists
  <2>14. EveryoneCanRead'
    <3>1. m.keys = Participants \cap Keyed
      BY <1>1, <1>2, <2>8 DEF Fits, Admitted
    <3>. QED
      BY <1>1, <2>9, <3>1 DEF Inv, EveryoneCanRead, Participants, Exists
  <2>15. RequestsFit'
    <3>1. ASSUME NEW q, Fits(q), q.stage # "locked"
          PROVE  Fits(q)'
      BY <1>1, <3>1 DEF Fits, Closures, Alone, Participants, Exists
    <3>2. Fits(x) /\ x.stage # "locked"
      BY <1>1, <2>4 DEF Fits, Admitted, Checked
    <3>3. \A s \in Requests : Fits(request'[s]) /\ request'[s].stage # "locked"
      BY <2>6, <2>10, <3>2 DEF Inv, RequestsFit
    <3>. QED
      BY <3>1, <3>3 DEF RequestsFit
  <2>16. TimesFit'
    <3>1. \A k \in messages' : k.entry.at <= now
      BY <2>7, <2>8, <2>9 DEF Inv, TimesFit
    <3>2. \A s \in Requests : request'[s].stage \in Dated
            => request[s].stage \in Dated /\ request'[s].at = request[s].at
      BY <1>1, <2>4, <2>6 DEF Dated, Pending
    <3>3. \A s \in Requests : request'[s].stage \in Pending
            => s # r /\ request[s].stage \in Pending /\ request'[s].at = request[s].at
      BY <2>4, <2>6 DEF Pending
    <3>4. r \in Requests /\ request[r].stage \in Dated /\ Pending \subseteq Dated
      BY <1>1 DEF Dated, Pending
    <3>5. \A s \in Requests, k \in messages' :
            request'[s].stage \in Pending => k.entry.at # request'[s].at
      BY <2>8, <2>9, <3>3, <3>4 DEF Inv, TimesFit
    <3>. QED
      BY <1>1, <3>1, <3>2, <3>5 DEF Inv, TimesFit
  <2>17. InstantsLeft'
    <3>1. ToBegin' = ToBegin
      BY <1>1, <2>4, <2>6 DEF ToBegin
    <3>. QED
      BY <1>1, <3>1 DEF Inv, InstantsLeft
  <2>. QED
    BY <2>11, <2>12, <2>13, <2>14, <2>15, <2>16, <2>17 DEF Inv
<1>3. CASE Finish(r) /\ UNCHANGED messages
  BY <1>1, <1>3, Ends DEF rows, clock
<1>. QED
  BY <1>2, <1>3 DEF Store

-----------------------------------------------------------------------------
(* The steps of everything else.                                           *)

\* The requests when something has opened again.
LEMMA Reopened ==
  ASSUME TypeOK, StillClosed
  PROVE  /\ request' \in [Requests -> Request]
         /\ \A q \in Requests :
              /\ request'[q].stage = request[q].stage /\ request'[q].text = request[q].text
              /\ request'[q].keys = request[q].keys /\ request'[q].others = request[q].others
              /\ request'[q].at = request[q].at /\ request'[q].day = request[q].day
              /\ request'[q].owed = request[q].owed
              /\ request'[q].closed = request[q].closed \cap Closures(Author[request[q].text])'
<1>1. PICK left : /\ left = [u \in Users |-> Closures(u)']
                  /\ request' = [q \in Requests |->
                       [request[q] EXCEPT !.closed = @ \cap left[Sender(q)]]]
  BY DEF StillClosed
<1>2. ASSUME NEW q \in Requests
      PROVE  /\ request'[q] \in Request
             /\ request'[q].stage = request[q].stage /\ request'[q].text = request[q].text
             /\ request'[q].keys = request[q].keys /\ request'[q].others = request[q].others
             /\ request'[q].at = request[q].at /\ request'[q].day = request[q].day
             /\ request'[q].owed = request[q].owed
             /\ request'[q].closed = request[q].closed \cap Closures(Author[request[q].text])'
  <2>1. request[q] \in Request /\ Sender(q) \in Users /\ Sender(q) = Author[request[q].text]
    BY MessagesAssumption DEF TypeOK, Request, Sender
  <2>2. PICK c : c = request[q].closed \cap left[Sender(q)]
    OBVIOUS
  <2>3. request'[q] = [request[q] EXCEPT !.closed = c]
    BY <1>1, <2>2
  <2>4. c = request[q].closed \cap Closures(Author[request[q].text])'
    <3>1. request'[q].text = request[q].text
      BY <2>1, <2>3 DEF Request
    <3>2. \A u \in Users : left[u] = Closures(u)'
      BY <1>1
    <3>3. left[Sender(q)] = Closures(Author[request[q].text])'
      BY <2>1, <3>1, <3>2 DEF Closures
    <3>. QED
      BY <2>2, <3>3 DEF Closures
  <2>5. c \in SUBSET {"block", "suspension"}
    BY <2>1, <2>2 DEF Request
  <2>. QED
    BY <2>1, <2>3, <2>4, <2>5 DEF Request
<1>3. request' \in [Requests -> Request]
  BY <1>1, <1>2
<1>. QED
  BY <1>2, <1>3

\* What may happen around the sends: no participant comes, no message comes,
\* and what has opened is no longer counted as a closure.
LEMMA Around ==
  ASSUME Inv, TypeOK', queue' = queue, now' = now,
         \A q \in Requests :
           /\ request'[q].stage = request[q].stage /\ request'[q].text = request[q].text
           /\ request'[q].keys = request[q].keys /\ request'[q].others = request[q].others
           /\ request'[q].at = request[q].at /\ request'[q].day = request[q].day
           /\ request'[q].owed = request[q].owed
           /\ request'[q].closed \subseteq request[q].closed
           /\ request'[q].closed \subseteq Closures(Author[request[q].text])',
         Participants' \subseteq Participants,
         BlocksGone',
         \A m \in messages' : \E k \in messages : m.entry = k.entry,
         \A u \in Users : seen'[u] = {} \/ (seen'[u] = seen[u] /\ lastRead'[u] = lastRead[u]),
         EveryoneCanRead'
  PROVE  Inv'
<1>1. RequestsFit'
  <2>. SUFFICES ASSUME NEW q \in Requests
                PROVE  Fits(request[q])'
    BY DEF RequestsFit
  <2>1. Fits(request[q])
    BY DEF Inv, RequestsFit
  <2>2. (request[q].stage \in Admitted =>
          Participants \cap Keyed \subseteq request[q].keys /\ request[q].keys \subseteq Keyed)'
    BY <2>1 DEF Fits
  <2>3. (request[q].closed \subseteq Closures(Author[request[q].text]))'
    OBVIOUS
  <2>4. (request[q].stage \notin {"idle", "received", "member"} => "suspension" \notin request[q].closed)'
    BY <2>1 DEF Fits
  <2>5. (request[q].stage = "listed" /\ request[q].others = {} => Alone)'
    BY <2>1 DEF Fits, Alone
  <2>6. (request[q].stage \in Checked => request[q].closed = {})'
    BY <2>1 DEF Fits
  <2>7. (request[q].stage = "locked" => ~Repeats(request[q].text, request[q].day))'
    BY <2>1 DEF Fits, Repeats
  <2>8. (request[q].owed # {} => request[q].stage = "stored")'
    BY <2>1 DEF Fits
  <2>. QED
    BY <2>2, <2>3, <2>4, <2>5, <2>6, <2>7, <2>8 DEF Fits
<1>2. TimesFit'
  <2>1. (\A m \in messages : m.entry.at <= now)'
    BY DEF Inv, TimesFit
  <2>2. (\A u \in Users : \A x \in seen[u] : x <= lastRead[u])'
    BY DEF Inv, TimesFit
  <2>3. (\A r \in Requests : request[r].stage \in Dated => request[r].at \in Instants /\ request[r].at <= now)'
    BY DEF Inv, TimesFit
  <2>4. (\A r, s \in Requests : request[r].stage \in Dated /\ request[s].stage \in Dated
                              /\ request[r].at = request[s].at => r = s)'
    BY DEF Inv, TimesFit
  <2>5. (\A r \in Requests, m \in messages : request[r].stage \in Pending => m.entry.at # request[r].at)'
    BY DEF Inv, TimesFit
  <2>. QED
    BY <2>1, <2>2, <2>3, <2>4, <2>5 DEF TimesFit
<1>3. InstantsLeft'
  <2>1. ToBegin' = ToBegin
    BY DEF ToBegin
  <2>. QED
    BY <2>1 DEF Inv, InstantsLeft
<1>4. QueueFits'
  <2>1. \A i \in 1 .. Len(queue) : queue[i] \in Requests
    BY DEF Inv, TypeOK
  <2>. QED
    BY <2>1 DEF Inv, QueueFits
<1>. QED
  BY <1>1, <1>2, <1>3, <1>4 DEF Inv

LEMMA MarkReadKeeps ==
  ASSUME Inv, NEW u \in Users, MarkRead(u)
  PROVE  Inv'
<1>1. /\ now' = now + 1 /\ now + Cardinality(ToBegin) < MaxNow
      /\ lastRead' = [lastRead EXCEPT ![u] = now + 1]
      /\ seen' = [seen EXCEPT ![u] = {m.entry.at : m \in messages}]
      /\ UNCHANGED <<account, blockers, messages, request, queue, day>>
  BY DEF MarkRead
<1>2. /\ now \in Nat /\ MaxNow \in Nat /\ IsFiniteSet(ToBegin)
      /\ Cardinality(ToBegin) \in Nat /\ ToBegin' = ToBegin
  BY <1>1, MessagesAssumption, FS_CardinalityType DEF Inv, TypeOK, InstantsLeft, ToBegin
<1>3. now + 1 \in 0 .. MaxNow /\ InstantsLeft'
  <2>. HIDE DEF ToBegin
  <2>1. now + 1 \in 0 .. MaxNow /\ now + 1 + Cardinality(ToBegin) <= MaxNow
    BY <1>1, <1>2
  <2>. QED
    BY <1>1, <1>2, <2>1 DEF InstantsLeft
<1>4. \A m \in messages : m.entry.at \in Instants /\ m.entry.at <= now
  BY DEF Inv, TypeOK, Message, Entry, TimesFit
<1>5. TypeOK'
  BY <1>1, <1>3, <1>4 DEF Inv, TypeOK
<1>6. BlocksGone' /\ EveryoneCanRead'
  BY <1>1 DEF Inv, BlocksGone, EveryoneCanRead, Alone, Participants, Exists
<1>7. RequestsFit'
  <2>1. ASSUME NEW q, Fits(q)
        PROVE  Fits(q)'
    BY <1>1, <2>1 DEF Fits, Closures, Alone, Participants, Exists, Repeats
  <2>. QED
    BY <1>1, <2>1 DEF Inv, RequestsFit
<1>8. TimesFit'
  <2>. Instants \subseteq Nat
    BY DEF Instants
  <2>1. (\A m \in messages : m.entry.at <= now)'
    <3>. SUFFICES ASSUME NEW m \in messages
                  PROVE  m.entry.at <= now + 1
      BY <1>1
    <3>1. m.entry.at \in Nat /\ m.entry.at <= now /\ now \in Nat
      BY <1>2, <1>4
    <3>. QED
      BY <3>1
  <2>2. (\A v \in Users : \A x \in seen[v] : x <= lastRead[v])'
    BY <1>1, <1>2, <1>4 DEF Inv, TimesFit, TypeOK
  <2>3. (\A r \in Requests : request[r].stage \in Dated => request[r].at \in Instants /\ request[r].at <= now)'
    <3>. SUFFICES ASSUME NEW r \in Requests, request[r].stage \in Dated
                  PROVE  request[r].at \in Instants /\ request[r].at <= now + 1
      BY <1>1
    <3>1. request[r].at \in Instants /\ request[r].at <= now
      BY DEF Inv, TimesFit
    <3>2. request[r].at \in Nat /\ now \in Nat
      BY <1>2, <3>1
    <3>. QED
      BY <3>1, <3>2
  <2>4. (\A r, s \in Requests : request[r].stage \in Dated /\ request[s].stage \in Dated
                              /\ request[r].at = request[s].at => r = s)'
    BY <1>1 DEF Inv, TimesFit
  <2>5. (\A r \in Requests, m \in messages : request[r].stage \in Pending => m.entry.at # request[r].at)'
    BY <1>1 DEF Inv, TimesFit
  <2>. QED
    BY <2>1, <2>2, <2>3, <2>4, <2>5 DEF TimesFit
<1>9. QueueFits'
  BY <1>1 DEF Inv, QueueFits
<1>. QED
  BY <1>3, <1>5, <1>6, <1>7, <1>8, <1>9 DEF Inv

LEMMA BlockKeeps ==
  ASSUME Inv, NEW u \in Users, Block(u)
  PROVE  Inv'
<1>1. /\ Users \subseteq Participants /\ blockers' = blockers \cup {u}
      /\ UNCHANGED <<account, messages, lastRead, request, queue, now, day, seen>>
  BY DEF Block, clock, history
<1>2. TypeOK'
  BY <1>1 DEF Inv, TypeOK
<1>3. BlocksGone' /\ EveryoneCanRead' /\ Participants' = Participants
  BY <1>1 DEF Inv, BlocksGone, EveryoneCanRead, Alone, Participants, Exists
<1>4. \A v : Closures(v) \subseteq Closures(v)'
  BY <1>1 DEF Closures
<1>5. \A q \in Requests : request[q].closed \subseteq Closures(Author[request[q].text])'
  BY <1>1, <1>4 DEF Inv, RequestsFit, Fits
<1>. QED
  BY <1>1, <1>2, <1>3, <1>5, Around

LEMMA UnblockKeeps ==
  ASSUME Inv, NEW u \in Users, Unblock(u)
  PROVE  Inv'
<1>1. /\ blockers' = blockers \ {u} /\ StillClosed
      /\ UNCHANGED <<account, messages, lastRead, queue, now, day, seen>>
  BY DEF Unblock, clock, history
<1>2. /\ request' \in [Requests -> Request]
      /\ \A q \in Requests :
           /\ request'[q].stage = request[q].stage /\ request'[q].text = request[q].text
           /\ request'[q].keys = request[q].keys /\ request'[q].others = request[q].others
           /\ request'[q].at = request[q].at /\ request'[q].day = request[q].day
           /\ request'[q].owed = request[q].owed
           /\ request'[q].closed \subseteq request[q].closed
           /\ request'[q].closed \subseteq Closures(Author[request[q].text])'
  BY <1>1, Reopened DEF Inv
<1>3. TypeOK'
  BY <1>1, <1>2 DEF Inv, TypeOK
<1>4. BlocksGone' /\ EveryoneCanRead' /\ Participants' = Participants
  BY <1>1 DEF Inv, BlocksGone, EveryoneCanRead, Alone, Participants, Exists
<1>. QED
  BY <1>1, <1>2, <1>3, <1>4, Around

LEMMA SuspendKeeps ==
  ASSUME Inv, NEW u \in Users, Suspend(u)
  PROVE  Inv'
<1>1. /\ account[u] = "active" /\ account' = [account EXCEPT ![u] = "suspended"]
      /\ UNCHANGED <<blockers, messages, lastRead, request, queue, now, day, seen>>
  BY DEF Suspend, clock, history
<1>2. TypeOK'
  BY <1>1 DEF Inv, TypeOK
<1>3. Participants' = Participants
  BY <1>1 DEF Inv, TypeOK, Participants, Exists
<1>4. BlocksGone' /\ EveryoneCanRead'
  BY <1>1, <1>3 DEF Inv, BlocksGone, EveryoneCanRead, Alone
<1>5. \A v : Closures(v) \subseteq Closures(v)'
  BY <1>1 DEF Closures, Inv, TypeOK
<1>6. \A q \in Requests : request[q].closed \subseteq Closures(Author[request[q].text])'
  BY <1>1, <1>5 DEF Inv, RequestsFit, Fits
<1>. QED
  BY <1>1, <1>2, <1>3, <1>4, <1>6, Around

LEMMA UnsuspendKeeps ==
  ASSUME Inv, NEW u \in Users, Unsuspend(u)
  PROVE  Inv'
<1>1. /\ account[u] = "suspended" /\ account' = [account EXCEPT ![u] = "active"] /\ StillClosed
      /\ UNCHANGED <<blockers, messages, lastRead, queue, now, day, seen>>
  BY DEF Unsuspend, clock, history
<1>2. /\ request' \in [Requests -> Request]
      /\ \A q \in Requests :
           /\ request'[q].stage = request[q].stage /\ request'[q].text = request[q].text
           /\ request'[q].keys = request[q].keys /\ request'[q].others = request[q].others
           /\ request'[q].at = request[q].at /\ request'[q].day = request[q].day
           /\ request'[q].owed = request[q].owed
           /\ request'[q].closed \subseteq request[q].closed
           /\ request'[q].closed \subseteq Closures(Author[request[q].text])'
  BY <1>1, Reopened DEF Inv
<1>3. TypeOK'
  BY <1>1, <1>2 DEF Inv, TypeOK
<1>4. Participants' = Participants
  BY <1>1 DEF Inv, TypeOK, Participants, Exists
<1>5. BlocksGone' /\ EveryoneCanRead'
  BY <1>1, <1>4 DEF Inv, BlocksGone, EveryoneCanRead, Alone
<1>. QED
  BY <1>1, <1>2, <1>3, <1>4, <1>5, Around

LEMMA DeleteKeeps ==
  ASSUME Inv, NEW u \in Users, Delete(u)
  PROVE  Inv'
<1>1. /\ Exists(u) /\ account' = [account EXCEPT ![u] = "deleted"] /\ blockers' = {}
      /\ messages' = IF Participants = {u} THEN {}
                     ELSE {[m EXCEPT !.keys = @ \ {u}] : m \in messages}
      /\ lastRead' = [lastRead EXCEPT ![u] = 0] /\ seen' = [seen EXCEPT ![u] = {}]
      /\ StillClosed /\ UNCHANGED <<queue, now, day>>
  BY DEF Delete, clock
<1>2. /\ request' \in [Requests -> Request]
      /\ \A q \in Requests :
           /\ request'[q].stage = request[q].stage /\ request'[q].text = request[q].text
           /\ request'[q].keys = request[q].keys /\ request'[q].others = request[q].others
           /\ request'[q].at = request[q].at /\ request'[q].day = request[q].day
           /\ request'[q].owed = request[q].owed
           /\ request'[q].closed \subseteq request[q].closed
           /\ request'[q].closed \subseteq Closures(Author[request[q].text])'
  BY <1>1, Reopened DEF Inv
<1>3. Participants' = Participants \ {u}
  BY <1>1 DEF Inv, TypeOK, Participants, Exists
<1>4. \A m \in messages' : \E k \in messages :
        m \in Message /\ m.entry = k.entry /\ m.keys = k.keys \ {u}
  BY <1>1 DEF Inv, TypeOK, Message
<1>5. TypeOK'
  <2>1. messages' \subseteq Message
    BY <1>4
  <2>2. lastRead' \in [Users -> 0 .. MaxNow]
    BY <1>1, MessagesAssumption DEF Inv, TypeOK
  <2>. QED
    BY <1>1, <1>2, <2>1, <2>2 DEF Inv, TypeOK
<1>6. BlocksGone'
  BY <1>1 DEF BlocksGone
<1>7. EveryoneCanRead'
  BY <1>3, <1>4 DEF Inv, EveryoneCanRead
<1>8. \A v \in Users : seen'[v] = {} \/ (seen'[v] = seen[v] /\ lastRead'[v] = lastRead[v])
  BY <1>1 DEF Inv, TypeOK
<1>9. Participants' \subseteq Participants /\ \A m \in messages' : \E k \in messages : m.entry = k.entry
  BY <1>3, <1>4
<1>. QED
  BY <1>1, <1>2, <1>5, <1>6, <1>7, <1>8, <1>9, Around

LEMMA NextDayKeeps ==
  ASSUME Inv, NextDay
  PROVE  Inv'
<1>1. /\ day' = day + 1 /\ day < MaxDay
      /\ UNCHANGED <<account, blockers, messages, lastRead, request, queue, now, seen>>
  BY DEF NextDay, rows, history
<1>2. TypeOK'
  BY <1>1, MessagesAssumption DEF Inv, TypeOK, Days
<1>3. BlocksGone' /\ EveryoneCanRead' /\ Participants' = Participants
  BY <1>1 DEF Inv, BlocksGone, EveryoneCanRead, Alone, Participants, Exists
<1>4. \A q \in Requests : request[q].closed \subseteq Closures(Author[request[q].text])'
  BY <1>1 DEF Inv, RequestsFit, Fits, Closures
<1>. QED
  BY <1>1, <1>2, <1>3, <1>4, Around

-----------------------------------------------------------------------------
LEMMA InitInv == Init => Inv
<1>. SUFFICES ASSUME Init
              PROVE  Inv
  OBVIOUS
<1>1. PICK t : t = CHOOSE text \in Texts : TRUE
  OBVIOUS
<1>2. t \in Texts
  BY <1>1, MessagesAssumption
<1>3. PICK x : x = [stage |-> "idle", text |-> t, keys |-> {}, others |-> {},
                    at |-> 0, day |-> 0, owed |-> {}, closed |-> {}]
  OBVIOUS
<1>4. x \in Request
  BY <1>2, <1>3, MessagesAssumption DEF Request, Stages, Days
<1>5. x.stage = "idle" /\ x.owed = {} /\ x.closed = {}
  BY <1>3
<1>6. request \in [Requests -> {x}]
  BY <1>1, <1>3 DEF Init
<1>7. \A r \in Requests : request[r] = x
  BY <1>6
<1>8. TypeOK
  BY <1>4, <1>6, MessagesAssumption DEF Init, TypeOK, Days
<1>9. RequestsFit
  BY <1>5, <1>7 DEF RequestsFit, Fits, Admitted, Checked
<1>10. BlocksGone /\ EveryoneCanRead
  BY DEF Init, BlocksGone, EveryoneCanRead
<1>11. TimesFit /\ QueueFits
  BY <1>5, <1>7 DEF Init, TimesFit, QueueFits, Pending, Dated
<1>12. InstantsLeft
  <2>1. ToBegin = {}
    BY <1>5, <1>7 DEF ToBegin
  <2>. QED
    BY <2>1, FS_EmptySet, MessagesAssumption DEF Init, InstantsLeft
<1>. QED
  BY <1>8, <1>9, <1>10, <1>11, <1>12 DEF Inv

LEMMA NextInv == Inv /\ [Next]_vars => Inv'
<1>. SUFFICES ASSUME Inv, [Next]_vars
              PROVE  Inv'
  OBVIOUS
<1>1. ASSUME NEW r \in Requests, CheckMember(r) PROVE Inv'
  BY <1>1, CheckMemberKeeps
<1>2. ASSUME NEW r \in Requests, ReadParticipants(r) PROVE Inv'
  BY <1>2, ReadParticipantsKeeps
<1>3. ASSUME NEW r \in Requests, CheckBlocks(r) PROVE Inv'
  BY <1>3, CheckBlocksKeeps
<1>4. ASSUME NEW r \in Requests, Begin(r) PROVE Inv'
  BY <1>4, BeginKeeps
<1>5. ASSUME NEW r \in Requests, AskLock(r) PROVE Inv'
  BY <1>5, AskLockKeeps
<1>6. ASSUME NEW r \in Requests, LookUp(r) PROVE Inv'
  BY <1>6, LookUpKeeps
<1>7. ASSUME NEW r \in Requests, Store(r) PROVE Inv'
  BY <1>7, StoreKeeps
<1>8. ASSUME NEW r \in Requests, Publish(r) PROVE Inv'
  BY <1>8, PublishKeeps
<1>9. ASSUME NEW r \in Requests, Push(r) PROVE Inv'
  BY <1>9, PushKeeps
<1>10. ASSUME NEW r \in Requests, Answer(r) PROVE Inv'
  BY <1>10, AnswerKeeps
<1>11. ASSUME NEW r \in Requests, Abort(r) PROVE Inv'
  BY <1>11, AbortKeeps
<1>12. ASSUME NEW r \in Requests, NEW t \in Texts, Send(r, t) PROVE Inv'
  BY <1>12, SendKeeps
<1>13. ASSUME NEW u \in Users, MarkRead(u) PROVE Inv'
  BY <1>13, MarkReadKeeps
<1>14. ASSUME NEW u \in Users, Block(u) PROVE Inv'
  BY <1>14, BlockKeeps
<1>15. ASSUME NEW u \in Users, Unblock(u) PROVE Inv'
  BY <1>15, UnblockKeeps
<1>16. ASSUME NEW u \in Users, Suspend(u) PROVE Inv'
  BY <1>16, SuspendKeeps
<1>17. ASSUME NEW u \in Users, Unsuspend(u) PROVE Inv'
  BY <1>17, UnsuspendKeeps
<1>18. ASSUME NEW u \in Users, Delete(u) PROVE Inv'
  BY <1>18, DeleteKeeps
<1>19. CASE NextDay
  BY <1>19, NextDayKeeps
<1>20. CASE UNCHANGED vars
  <2>1. UNCHANGED <<account, blockers, messages, lastRead, request, queue, now, day, seen>>
    BY <1>20 DEF vars, rows, clock, history
  <2>2. TypeOK' /\ BlocksGone' /\ TimesFit' /\ InstantsLeft' /\ QueueFits' /\ EveryoneCanRead'
    BY <2>1 DEF Inv, TypeOK, BlocksGone, TimesFit, InstantsLeft, ToBegin, QueueFits,
                EveryoneCanRead, Alone, Participants, Exists
  <2>3. ASSUME NEW q, Fits(q)
        PROVE  Fits(q)'
    BY <2>1, <2>3 DEF Fits, Closures, Alone, Participants, Exists, Repeats
  <2>4. RequestsFit'
    BY <2>1, <2>3 DEF Inv, RequestsFit
  <2>. QED
    BY <2>2, <2>4 DEF Inv
<1>. QED
  BY <1>1, <1>2, <1>3, <1>4, <1>5, <1>6, <1>7, <1>8, <1>9, <1>10, <1>11, <1>12, <1>13,
     <1>14, <1>15, <1>16, <1>17, <1>18, <1>19, <1>20 DEF Next, Serve

\* Inv holds in every state.
THEOREM Invariant == Spec => []Inv
BY InitInv, NextInv, PTL DEF Spec

\* The rows, the requests and the queue keep their shapes.
THEOREM MessagesTyping == Spec => []TypeOK
<1>1. Inv => TypeOK
  BY DEF Inv
<1>. QED
  BY <1>1, Invariant, PTL

\* Each stored message has one key for every participant that has a public
\* key, and none for anybody else, though the list that the keys were compared
\* with was read before the transaction (SendMessage).
THEOREM MessagesReadable == Spec => []EveryoneCanRead
<1>1. Inv => EveryoneCanRead
  BY DEF Inv
<1>. QED
  BY <1>1, Invariant, PTL

\* A send that came into a conversation closed to its author, and closed ever
\* since for the same reason, does not pass the two reads of requireOpen.
THEOREM ClosedStaysClosed == Spec => []ClosedSendsRefused
<1>1. Inv => ClosedSendsRefused
  BY DEF Inv, RequestsFit, Fits, Checked, ClosedSendsRefused
<1>. QED
  BY <1>1, Invariant, PTL

\* What was there when a user read the conversation is never unread for that
\* user again (MarkRead and the counting of unread messages).
THEOREM ReadNeverUnread == Spec => []ReadStaysRead
<1>1. ASSUME Inv, NEW u \in Participants, NEW m \in messages, m.entry.at \in seen[u]
      PROVE  ~(m.entry.at > lastRead[u])
  <2>1. u \in Users /\ m.entry.at \in Nat /\ lastRead[u] \in Nat
    BY <1>1 DEF Participants, Inv, TypeOK, Message, Entry, Instants
  <2>2. m.entry.at <= lastRead[u]
    BY <1>1, <2>1 DEF Inv, TimesFit
  <2>. QED
    BY <2>1, <2>2
<1>2. Inv => ReadStaysRead
  BY <1>1 DEF ReadStaysRead
<1>. QED
  BY <1>2, Invariant, PTL

-----------------------------------------------------------------------------
(* MessageLog is implemented.  A step of Store posts, one of Publish, Push   *)
(* or Abort tells or loses announcements, the deletion of the last           *)
(* participant drops the messages, and every other step is a stutter.        *)

logged == {m.entry : m \in messages}

\* What is owed, one announcement at a time.
LEMMA OwedIs ==
  /\ \A x : x \in Owed <=> \E r \in Requests : \E n \in request[r].owed : x = <<EntryOf(r), n>>
  /\ \A x : x \in Owed' <=> \E r \in Requests : \E n \in request'[r].owed : x = <<EntryOf(r)', n>>
<1>1. \A x : x \in Owed <=> \E r \in Requests : x \in {EntryOf(r)} \X request[r].owed
  BY DEF Owed
<1>2. \A x : x \in Owed' <=> \E r \in Requests : x \in {EntryOf(r)'} \X request'[r].owed
  BY DEF Owed
<1>. QED
  BY <1>1, <1>2

\* Only what changes in the announcements of a request changes what is owed.
LEMMA OwedLeft ==
  ASSUME NEW r \in Requests,
         \A s \in Requests \ {r} : request'[s] = request[s],
         request'[r].owed \subseteq request[r].owed,
         request'[r].owed # {} => EntryOf(r)' = EntryOf(r)
  PROVE  Owed' \subseteq Owed
<1>1. \A s \in Requests \ {r} : EntryOf(s)' = EntryOf(s)
  BY DEF EntryOf
<1>. SUFFICES ASSUME NEW x \in Owed'
              PROVE  x \in Owed
  OBVIOUS
<1>2. PICK s \in Requests : \E n \in request'[s].owed : x = <<EntryOf(s)', n>>
  BY OwedIs
<1>3. PICK n \in request'[s].owed : x = <<EntryOf(s)', n>>
  BY <1>2
<1>4. n \in request[s].owed /\ EntryOf(s)' = EntryOf(s)
  BY <1>1, <1>3
<1>. QED
  BY <1>3, <1>4, OwedIs

\* While the announcements and the entries they are of stay, so does what is
\* owed.
LEMMA OwedKept ==
  ASSUME \A r \in Requests : request'[r].owed = request[r].owed,
         \A r \in Requests : request[r].owed # {} => EntryOf(r)' = EntryOf(r)
  PROVE  Owed' = Owed
<1>1. ASSUME NEW x \in Owed'
      PROVE  x \in Owed
  BY <1>1, OwedIs
<1>2. ASSUME NEW x \in Owed
      PROVE  x \in Owed'
  BY <1>2, OwedIs
<1>. QED
  BY <1>1, <1>2

\* Announcements are of different entries for different requests.
LEMMA EntriesDiffer ==
  ASSUME Inv, NEW r \in Requests, NEW s \in Requests,
         request[r].stage = "stored", request[s].owed # {}, EntryOf(r) = EntryOf(s)
  PROVE  r = s
<1>1. request[s].stage = "stored"
  BY DEF Inv, RequestsFit, Fits
<1>2. request[r].at = request[s].at
  BY DEF EntryOf
<1>. QED
  BY <1>1, <1>2 DEF Inv, TimesFit, Dated

\* Nothing is announced by a request that has not stored its message.
LEMMA Quiet ==
  ASSUME Inv, NEW r \in Requests, request[r].stage # "stored",
         \A s \in Requests \ {r} : request'[s] = request[s],
         request'[r].owed = {}, UNCHANGED <<messages, told>>
  PROVE  UNCHANGED Log!logVars
<1>1. request[r].owed = {}
  BY DEF Inv, RequestsFit, Fits
<1>2. \A s \in Requests \ {r} : EntryOf(s)' = EntryOf(s)
  BY DEF EntryOf
<1>3. Owed' = Owed
  BY <1>1, <1>2, OwedKept
<1>. QED
  BY <1>3 DEF Log!logVars

\* A request that ends makes no more announcements.
LEMMA EndsLose ==
  ASSUME Inv, NEW r \in Requests, Finish(r), UNCHANGED <<messages, told>>
  PROVE  Log!LogNext
<1>1. /\ request'[r].owed = {} /\ \A s \in Requests \ {r} : request'[s] = request[s]
  <2>1. PICK x \in Request : x = Over(r) /\ x.owed = {}
    BY OverFits DEF Inv
  <2>2. request' = [request EXCEPT ![r] = x]
    BY <2>1 DEF Finish
  <2>. QED
    BY <2>1, <2>2, OneRequest DEF Inv
<1>2. Owed' \subseteq Owed
  BY <1>1, OwedLeft
<1>3. PICK N : N = Owed \ Owed'
  OBVIOUS
<1>4. N \in SUBSET Owed /\ Owed' = Owed \ N
  BY <1>2, <1>3
<1>5. Log!Lose(N)
  BY <1>4 DEF Log!Lose
<1>. QED
  BY <1>4, <1>5 DEF Log!LogNext

\* Announcements of a request that are made, or not.
LEMMA Announces ==
  ASSUME Inv, NEW r \in Requests, NEW gone, gone \subseteq request[r].owed,
         request[r].stage = "stored",
         request' = [request EXCEPT ![r].owed = request[r].owed \ gone],
         UNCHANGED messages,
         told' = told \/ told' = told \cup ({EntryOf(r)} \X gone)
  PROVE  Log!LogNext
<1>1. PICK x : x = [request[r] EXCEPT !.owed = request[r].owed \ gone]
  OBVIOUS
<1>2. request[r] \in Request
  BY DEF Inv, TypeOK
<1>3. /\ request' = [request EXCEPT ![r] = x] /\ x \in Request
      /\ x.owed = request[r].owed \ gone /\ x.text = request[r].text /\ x.at = request[r].at
      /\ x.day = request[r].day
  BY <1>1, <1>2 DEF Inv, TypeOK, Request
<1>4. request'[r] = x /\ \A s \in Requests \ {r} : request'[s] = request[s]
  BY <1>3, OneRequest DEF Inv
<1>5. \A s \in Requests : EntryOf(s)' = EntryOf(s)
  BY <1>3, <1>4 DEF EntryOf
<1>6. PICK N : N = {EntryOf(r)} \X gone
  OBVIOUS
<1>7. N \in SUBSET Owed
  BY <1>6, OwedIs
<1>8. Owed' = Owed \ N
  <2>1. ASSUME NEW y \in Owed'
        PROVE  y \in Owed \ N
    <3>1. PICK s \in Requests : \E n \in request'[s].owed : y = <<EntryOf(s)', n>>
      BY <2>1, OwedIs
    <3>2. PICK n \in request'[s].owed : y = <<EntryOf(s), n>>
      BY <1>5, <3>1
    <3>3. n \in request[s].owed
      BY <1>3, <1>4, <3>2
    <3>4. y \in Owed
      BY <3>2, <3>3, OwedIs
    <3>5. ASSUME y \in N
          PROVE  FALSE
      <4>1. EntryOf(r) = EntryOf(s) /\ n \in gone
        BY <1>6, <3>2, <3>5
      <4>2. r = s
        BY <3>3, <4>1, EntriesDiffer
      <4>. QED
        BY <1>3, <1>4, <3>2, <4>1, <4>2
    <3>. QED
      BY <3>4, <3>5
  <2>2. ASSUME NEW y \in Owed \ N
        PROVE  y \in Owed'
    <3>1. PICK s \in Requests : \E n \in request[s].owed : y = <<EntryOf(s), n>>
      BY <2>2, OwedIs
    <3>2. PICK n \in request[s].owed : y = <<EntryOf(s), n>>
      BY <3>1
    <3>3. n \in request'[s].owed
      BY <1>3, <1>4, <1>6, <2>2, <3>2
    <3>. QED
      BY <1>5, <3>2, <3>3, OwedIs
  <2>. QED
    BY <2>1, <2>2
<1>9. CASE told' = told
  BY <1>7, <1>8, <1>9 DEF Log!LogNext, Log!Lose
<1>10. CASE told' = told \cup N
  BY <1>7, <1>8, <1>10 DEF Log!LogNext, Log!Tell
<1>. QED
  BY <1>6, <1>9, <1>10

\* What is stored was not there, at an instant that no message has.
LEMMA StorePosts ==
  ASSUME Inv, NEW r \in Requests, Store(r)
  PROVE  [Log!LogNext]_(Log!logVars)
<1>1. /\ request[r].stage = "locked" /\ told' = told /\ request[r] \in Request
      /\ Fits(request[r]) /\ request[r].owed = {} /\ request[r].at \in Instants
  BY DEF Store, history, Inv, TypeOK, RequestsFit, Fits, TimesFit, Dated, Pending
<1>2. CASE /\ messages' = messages \cup {[entry |-> EntryOf(r), keys |-> request[r].keys]}
           /\ request' = [request EXCEPT ![r].stage = "stored",
                ![r].owed = request[r].others \X Channels]
  <2>1. PICK e, others : e = EntryOf(r) /\ others = request[r].others
    OBVIOUS
  <2>2. e \in Entry /\ others \in SUBSET Users /\ e.text = request[r].text
        /\ e.day = request[r].day /\ e.at = request[r].at
    BY <1>1, <2>1 DEF EntryOf, Entry, Request
  <2>3. /\ request'[r].owed = others \X Channels /\ request'[r].text = request[r].text
        /\ request'[r].at = request[r].at /\ request'[r].day = request[r].day
        /\ \A s \in Requests \ {r} : request'[s] = request[s]
    BY <1>1, <1>2, <2>1 DEF Inv, TypeOK, Request
  <2>4. \A s \in Requests : EntryOf(s)' = EntryOf(s)
    BY <2>3 DEF EntryOf
  <2>5. Owed' = Owed \cup ({e} \X (others \X Channels))
    <3>1. ASSUME NEW y \in Owed'
          PROVE  y \in Owed \cup ({e} \X (others \X Channels))
      <4>1. PICK s \in Requests : \E n \in request'[s].owed : y = <<EntryOf(s), n>>
        BY <2>4, <3>1, OwedIs
      <4>2. CASE s = r
        BY <2>1, <2>3, <4>1, <4>2
      <4>3. CASE s # r
        BY <2>3, <4>1, <4>3, OwedIs
      <4>. QED
        BY <4>2, <4>3
    <3>2. ASSUME NEW y \in Owed
          PROVE  y \in Owed'
      <4>1. PICK s \in Requests : \E n \in request[s].owed : y = <<EntryOf(s), n>>
        BY <3>2, OwedIs
      <4>2. s # r
        BY <1>1, <4>1
      <4>. QED
        BY <2>3, <2>4, <4>1, <4>2, OwedIs
    <3>3. ASSUME NEW y \in {e} \X (others \X Channels)
          PROVE  y \in Owed'
      <4>1. PICK n \in others \X Channels : y = <<e, n>>
        BY <3>3
      <4>. QED
        BY <2>1, <2>3, <2>4, <4>1, OwedIs
    <3>. QED
      BY <3>1, <3>2, <3>3
  <2>6. logged' = logged \cup {e}
    <3>1. PICK m : m = [entry |-> EntryOf(r), keys |-> request[r].keys]
      OBVIOUS
    <3>2. messages' = messages \cup {m} /\ m.entry = e
      BY <1>2, <2>1, <3>1
    <3>. QED
      BY <3>2 DEF logged
  <2>7. \A f \in logged : f.at # e.at
    BY <1>1, <2>2 DEF logged, Inv, TimesFit, Pending
  <2>8. ~\E f \in logged : f.text = e.text /\ f.day >= e.day
    BY <1>1, <2>2 DEF logged, Fits, Repeats
  <2>9. Log!Post(e, others)
    BY <1>1, <2>5, <2>6, <2>7, <2>8 DEF Log!Post, Log!Repeats, logged
  <2>10. e \in Log!Entry
    BY <2>2 DEF Entry, Log!Entry
  <2>. QED
    BY <2>2, <2>9, <2>10 DEF Log!LogNext
<1>3. CASE Finish(r) /\ UNCHANGED messages
  BY <1>1, <1>3, EndsLose
<1>. QED
  BY <1>2, <1>3 DEF Store

\* The steps of a request that is not at its announcements are stutters, or
\* end it.
LEMMA TurnsQuiet ==
  ASSUME Inv, NEW r \in Requests, NEW st \in Stages, Goto(r, st),
         request[r].stage # "stored", UNCHANGED <<messages, told>>
  PROVE  UNCHANGED Log!logVars
<1>1. PICK x \in Request : request' = [request EXCEPT ![r] = x] /\ x.owed = request[r].owed
  BY Turned DEF Inv
<1>2. request'[r] = x /\ \A s \in Requests \ {r} : request'[s] = request[s]
  BY <1>1, OneRequest DEF Inv
<1>3. request[r].owed = {}
  BY DEF Inv, RequestsFit, Fits
<1>. QED
  BY <1>1, <1>2, <1>3, Quiet

\* What changes neither the messages nor what is announced of them.
LEMMA AsideQuiet ==
  ASSUME \A r \in Requests :
           /\ request'[r].owed = request[r].owed /\ request'[r].text = request[r].text
           /\ request'[r].at = request[r].at /\ request'[r].day = request[r].day,
         logged' = logged, UNCHANGED told
  PROVE  UNCHANGED Log!logVars
<1>1. \A r \in Requests : EntryOf(r)' = EntryOf(r)
  BY DEF EntryOf
<1>2. Owed' = Owed
  BY <1>1, OwedKept
<1>. QED
  BY <1>2 DEF Log!logVars, logged

LEMMA DeleteDrops ==
  ASSUME Inv, NEW u \in Users, Delete(u)
  PROVE  [Log!LogNext]_(Log!logVars)
<1>1. /\ StillClosed /\ UNCHANGED told
      /\ messages' = IF Participants = {u} THEN {}
                     ELSE {[m EXCEPT !.keys = @ \ {u}] : m \in messages}
  BY DEF Delete
<1>2. \A r \in Requests :
        /\ request'[r].owed = request[r].owed /\ request'[r].text = request[r].text
        /\ request'[r].at = request[r].at /\ request'[r].day = request[r].day
  BY <1>1, Reopened DEF Inv
<1>3. CASE messages' = {}
  <2>1. \A r \in Requests : EntryOf(r)' = EntryOf(r)
    BY <1>2 DEF EntryOf
  <2>2. Owed' = Owed
    BY <1>2, <2>1, OwedKept
  <2>. QED
    BY <1>1, <1>3, <2>2 DEF Log!LogNext, Log!Drop
<1>4. CASE messages' = {[m EXCEPT !.keys = @ \ {u}] : m \in messages}
  <2>1. \A m \in messages : [m EXCEPT !.keys = @ \ {u}].entry = m.entry
    BY DEF Inv, TypeOK, Message
  <2>2. logged' = logged
    BY <1>4, <2>1, ZenonT(30) DEF logged
  <2>. QED
    BY <1>1, <1>2, <2>2, AsideQuiet
<1>. QED
  BY <1>1, <1>3, <1>4

\* The steps of a request.
LEMMA ServeRefines ==
  ASSUME Inv, NEW r \in Requests, Serve(r) \/ Abort(r) \/ \E t \in Texts : Send(r, t)
  PROVE  [Log!LogNext]_(Log!logVars)
<1>. /\ request[r] \in Request
     /\ request[r].stage # "stored" => request[r].owed = {}
  BY DEF Inv, TypeOK, RequestsFit, Fits
<1>1. CASE CheckMember(r)
  BY <1>1, EndsLose, TurnsQuiet DEF CheckMember, rows, history, Stages
<1>2. CASE ReadParticipants(r)
  <2>1. request[r].stage # "stored" /\ UNCHANGED <<messages, told>>
    BY <1>2 DEF ReadParticipants, rows, history
  <2>2. CASE request' = [request EXCEPT ![r].stage = "listed",
                                        ![r].others = Participants \ {Sender(r)}]
    <3>1. request'[r].owed = {} /\ \A s \in Requests \ {r} : request'[s] = request[s]
      BY <2>1, <2>2 DEF Inv, TypeOK, Request
    <3>. QED
      BY <2>1, <3>1, Quiet
  <2>3. CASE Finish(r)
    BY <2>1, <2>3, EndsLose
  <2>. QED
    BY <1>2, <2>2, <2>3 DEF ReadParticipants
<1>3. CASE CheckBlocks(r)
  BY <1>3, EndsLose, TurnsQuiet DEF CheckBlocks, rows, history, Stages
<1>4. CASE Begin(r)
  <2>1. request[r].stage # "stored" /\ UNCHANGED <<messages, told>>
    BY <1>4 DEF Begin, rows, history
  <2>2. request'[r].owed = {} /\ \A s \in Requests \ {r} : request'[s] = request[s]
    BY <1>4, <2>1 DEF Begin, Inv, TypeOK, Request
  <2>. QED
    BY <2>1, <2>2, Quiet
<1>5. CASE AskLock(r)
  BY <1>5, TurnsQuiet DEF AskLock, rows, history, Stages
<1>6. CASE LookUp(r)
  BY <1>6, TurnsQuiet DEF LookUp, rows, history, Stages
<1>7. CASE Store(r)
  BY <1>7, StorePosts
<1>8. CASE Publish(r)
  <2>1. PICK u \in Users : /\ <<u, "live">> \in request[r].owed
                           /\ request' = [request EXCEPT ![r].owed = @ \ {<<u, "live">>}]
                           /\ told' \in {told, told \cup {<<EntryOf(r), <<u, "live">>>>}}
    BY <1>8 DEF Publish
  <2>2. PICK gone : gone = {<<u, "live">>}
    OBVIOUS
  <2>3. /\ gone \subseteq request[r].owed
        /\ request' = [request EXCEPT ![r].owed = request[r].owed \ gone]
        /\ request[r].stage = "stored" /\ UNCHANGED messages
    BY <1>8, <2>1, <2>2 DEF Publish, rows
  <2>4. {<<EntryOf(r), <<u, "live">>>>} = {EntryOf(r)} \X gone
    BY <2>2
  <2>5. told' = told \/ told' = told \cup ({EntryOf(r)} \X gone)
    BY <2>1, <2>4
  <2>. QED
    BY <2>3, <2>5, Announces
<1>9. CASE Push(r)
  <2>1. PICK gone : gone = request[r].owed
    OBVIOUS
  <2>2. /\ request' = [request EXCEPT ![r].owed = request[r].owed \ gone]
        /\ gone \subseteq request[r].owed
        /\ request[r].stage = "stored" /\ UNCHANGED messages
        /\ told' = told \/ told' = told \cup ({EntryOf(r)} \X gone)
    BY <1>9, <2>1 DEF Push, rows
  <2>. QED
    BY <2>2, Announces
<1>10. CASE Answer(r)
  BY <1>10, EndsLose DEF Answer, rows, history
<1>11. CASE Abort(r)
  BY <1>11, EndsLose DEF Abort, rows, history
<1>12. ASSUME NEW t \in Texts, Send(r, t)
       PROVE  [Log!LogNext]_(Log!logVars)
  <2>1. PICK keys : request' = [request EXCEPT ![r] = [Over(r) EXCEPT
          !.stage = "received", !.text = t, !.keys = keys, !.closed = Closures(Author[t])]]
    BY <1>12 DEF Send
  <2>2. request[r].stage # "stored" /\ UNCHANGED <<messages, told>>
    BY <1>12 DEF Send, Idle, rows, history
  <2>3. Over(r) \in Request /\ Over(r).owed = {}
    BY OverFits DEF Inv
  <2>4. PICK x : x = [Over(r) EXCEPT !.stage = "received", !.text = t, !.keys = keys,
                                     !.closed = Closures(Author[t])]
    OBVIOUS
  <2>5. x.owed = {} /\ request' = [request EXCEPT ![r] = x]
    BY <2>1, <2>3, <2>4 DEF Request
  <2>6. request'[r].owed = {} /\ \A s \in Requests \ {r} : request'[s] = request[s]
    BY <2>5 DEF Inv, TypeOK
  <2>. QED
    BY <2>2, <2>6, Quiet
<1>. QED
  BY <1>1, <1>2, <1>3, <1>4, <1>5, <1>6, <1>7, <1>8, <1>9, <1>10, <1>11, <1>12 DEF Serve

LEMMA Refines == Inv /\ [Next]_vars => [Log!LogNext]_(Log!logVars)
<1>. SUFFICES ASSUME Inv, [Next]_vars
              PROVE  [Log!LogNext]_(Log!logVars)
  OBVIOUS
<1>1. ASSUME NEW r \in Requests, Serve(r) \/ Abort(r) \/ \E t \in Texts : Send(r, t)
      PROVE  [Log!LogNext]_(Log!logVars)
  BY <1>1, ServeRefines
<1>2. ASSUME NEW u \in Users, MarkRead(u) \/ Block(u) \/ Suspend(u)
      PROVE  [Log!LogNext]_(Log!logVars)
  <2>1. UNCHANGED <<messages, request, told>>
    BY <1>2 DEF MarkRead, Block, Suspend, history
  <2>. QED
    BY <2>1, AsideQuiet DEF logged
<1>3. ASSUME NEW u \in Users, Unblock(u) \/ Unsuspend(u)
      PROVE  [Log!LogNext]_(Log!logVars)
  <2>1. UNCHANGED <<messages, told>> /\ StillClosed
    BY <1>3 DEF Unblock, Unsuspend, history
  <2>2. \A r \in Requests :
          /\ request'[r].owed = request[r].owed /\ request'[r].text = request[r].text
          /\ request'[r].at = request[r].at /\ request'[r].day = request[r].day
    BY <2>1, Reopened DEF Inv
  <2>. QED
    BY <2>1, <2>2, AsideQuiet DEF logged
<1>4. ASSUME NEW u \in Users, Delete(u)
      PROVE  [Log!LogNext]_(Log!logVars)
  BY <1>4, DeleteDrops
<1>5. CASE NextDay \/ UNCHANGED vars
  <2>1. UNCHANGED <<messages, request, told>>
    BY <1>5 DEF NextDay, vars, rows, history
  <2>. QED
    BY <2>1, AsideQuiet DEF logged
<1>. QED
  BY <1>1, <1>2, <1>3, <1>4, <1>5 DEF Next

LEMMA InitRefines == Init => Log!LogInit
<1>. SUFFICES ASSUME Init
              PROVE  Log!LogInit
  OBVIOUS
<1>1. \A r \in Requests : request[r].owed = {}
  BY DEF Init
<1>2. Owed = {}
  BY <1>1, OwedIs
<1>. QED
  BY <1>2 DEF Init, Log!LogInit

\* The conversation keeps the promise of MessageLog: a message sent again
\* within a day is neither stored nor announced again, and announcements are of
\* what is stored, made once or lost (CreateMessage and notifyNewMessage).
THEOREM PromiseKept == Spec => LogKept
BY InitRefines, InitInv, NextInv, Refines, PTL DEF Spec, LogKept, Log!LogSpec
=============================================================================
