------------------------------- MODULE Outbox -------------------------------
(***************************************************************************)
(* The messages written in a chat page and not yet saved by the server     *)
(* (useOutbox): each is encrypted once, posted, and posted again when the  *)
(* post fails.  A post the browser gave up may still reach the server, so  *)
(* the server recognises a text it has (MessageLog), and the page drops a  *)
(* waiting message that turns up among those of the server.                *)
(*                                                                         *)
(* A definition introduced by "Slip" is the definition below it with a     *)
(* mistake in it, which some property must notice.                         *)
(***************************************************************************)
EXTENDS Naturals, Sequences, FiniteSets

CONSTANTS
  Items,      \* messages the user writes
  MaxMade,    \* bound: encryptions of one message
  MaxPosts,   \* bound: posts of each message
  MaxDay      \* bound: days

ASSUME OutboxAssumption == MaxMade \in Nat /\ MaxPosts \in [Items -> Nat] /\ MaxDay \in Nat

VARIABLES
  item,       \* the outbox, and what became of the messages that left it
  made,       \* how often each message has been encrypted
  delivery,   \* where its delivery is; "idle" when it is not in inFlight
  posts,      \* its posts, the last of which a delivery waits for
  log,        \* the conversation on the server
  cache,      \* ciphertexts among the messages the page has loaded
  accepts,    \* the server takes messages: no block, the keys are current
  session,    \* the server takes the cookie
  day,
  rejected    \* history: ciphertexts that were answered with a refusal

serverVars == <<log, accepts, session, day>>
outboxVars == <<item, made, delivery, posts, serverVars, cache, rejected>>

\* A ciphertext is random: the nth encryption of one message.
Texts == Items \X (1 .. MaxMade)
Entry == [text : Texts, day : 0 .. MaxDay]

Server == INSTANCE MessageLog WITH
  Days <- 0 .. MaxDay, Instants <- {}, Users <- {}, Channels <- {}, owed <- {}, told <- {}

\* payload is 0 for a message not encrypted; of the statuses only "sending"
\* and "failed" are in the outbox.
Item == [status : {"unwritten", "sending", "failed", "saved", "discarded", "left"},
         payload : 0 .. MaxMade, network : BOOLEAN]
Answers == {"saved", "refused", "expired", "error"}
Attempt == [stage : {"travelling", "over"} \cup Answers, payload : 1 .. MaxMade]

Waiting(i) == item[i].status \in {"sending", "failed"}
Last(i) == Len(posts[i])
Text(i, n) == <<i, n>>

\* setItems over the items that are still there.
Changed(i, change) == IF Waiting(i) THEN change ELSE item[i]
Settle(i, change) ==
  /\ item' = [item EXCEPT ![i] = Changed(i, change)]
  /\ delivery' = [delivery EXCEPT ![i] = "idle"]

\* Slip: the encrypted message is not kept for the next attempt.
FailedForgetting(i, network) ==
  [status |-> "failed", network |-> network, payload |-> 0]

\* After a network problem the same ciphertext will be sent again; after a
\* refusal the message will be encrypted anew.
Failed(i, network) ==
  [status |-> "failed", network |-> network,
   payload |-> IF network THEN item[i].payload ELSE 0]

-----------------------------------------------------------------------------
(* The page.                                                               *)

Posted(i, n) ==
  posts' = [posts EXCEPT ![i] = Append(@, [stage |-> "travelling", payload |-> n])]

\* deliver, up to its first await, for the messages in I.
Deliver(I) ==
  LET posting == {i \in I : item[i].payload # 0} IN
  /\ \A i \in I : delivery[i] = "idle" /\ Last(i) < MaxPosts[i]
  /\ item' = [i \in Items |-> IF i \in I THEN
                [item[i] EXCEPT !.status = "sending", !.network = FALSE] ELSE item[i]]
  /\ delivery' = [i \in Items |-> CASE i \in posting -> "posting"
                                    [] i \in I \ posting -> "encrypting"
                                    [] OTHER -> delivery[i]]
  /\ posts' = [i \in Items |-> IF i \in posting
                 THEN Append(posts[i], [stage |-> "travelling", payload |-> item[i].payload])
                 ELSE posts[i]]
  /\ UNCHANGED <<made, serverVars, cache, rejected>>

\* The text is in the field of the page; the button hands it over, and what is
\* left there is an empty one.
InField(i) == item[i].status = "unwritten"

Enqueue(i) == InField(i) /\ Deliver({i})

\* "Riprova".
Retry(i) == item[i].status = "failed" /\ Deliver({i})

\* The browser is online again: what failed for the network starts by itself.
Online ==
  LET I == {i \in Items : item[i].status = "failed" /\ item[i].network} IN
  I # {} /\ Deliver(I)

\* encryptForRecipients succeeds and the ciphertext is posted, or it fails.
Encrypt(i) ==
  /\ delivery[i] = "encrypting"
  /\ \/ /\ made[i] < MaxMade
        /\ made' = [made EXCEPT ![i] = @ + 1]
        /\ item' = [item EXCEPT ![i] = Changed(i, [@ EXCEPT !.payload = made[i] + 1])]
        /\ delivery' = [delivery EXCEPT ![i] = "posting"]
        /\ Posted(i, made[i] + 1)
     \/ Settle(i, Failed(i, FALSE)) /\ UNCHANGED <<made, posts>>
  /\ UNCHANGED <<serverVars, cache, rejected>>

\* Slip: the saved message stays in the outbox under a status it does not know.
AnswerUntyped(i) ==
  /\ delivery[i] = "posting"
  /\ posts[i][Last(i)].stage = "saved"
  /\ Settle(i, [item[i] EXCEPT !.status = "sent"])
  /\ posts' = [posts EXCEPT ![i][Last(i)].stage = "over"]
  /\ UNCHANGED <<made, serverVars, cache, rejected>>

\* A delivery gets its answer.  The saved message goes into the loaded ones, if
\* the conversation is loaded; an expired session closes the page, and what was
\* waiting in it is gone.
Answer(i) ==
  LET k == Last(i)
      answer == posts[i][k].stage
      text == Text(i, posts[i][k].payload) IN
  /\ delivery[i] = "posting"
  /\ answer \in Answers
  /\ posts' = [posts EXCEPT ![i][k].stage = "over"]
  /\ \/ /\ answer = "saved"
        /\ Settle(i, [item[i] EXCEPT !.status = "saved"])
        /\ cache' \in {cache, cache \cup {text}}
        /\ UNCHANGED rejected
     \/ /\ answer = "refused"
        /\ Settle(i, Failed(i, FALSE))
        /\ rejected' = rejected \cup {text}
        /\ UNCHANGED cache
     \/ /\ answer = "error"
        /\ Settle(i, Failed(i, TRUE))
        /\ UNCHANGED <<cache, rejected>>
     \/ /\ answer = "expired"
        /\ item' = [j \in Items |-> Changed(j, [item[j] EXCEPT !.status = "left"])]
        /\ delivery' = [delivery EXCEPT ![i] = "idle"]
        /\ cache' = {}
        /\ UNCHANGED rejected
  /\ UNCHANGED <<made, serverVars>>

\* Slip: without a network the post is paused until there is one.
LosePaused(i) == FALSE /\ UNCHANGED outboxVars

\* Slip: after a network problem the delivery is over and the status is left.
LoseSilently(i) ==
  /\ delivery[i] = "posting"
  /\ Settle(i, item[i])
  /\ UNCHANGED <<made, posts, serverVars, cache, rejected>>

\* The browser gives the post up, whether or not the server has it already or
\* gets it later.
Lose(i) ==
  LET k == Last(i) IN
  /\ delivery[i] = "posting"
  /\ Settle(i, Failed(i, TRUE))
  /\ posts' = [posts EXCEPT ![i][k].stage =
       IF @ = "travelling" THEN @ ELSE "over"]
  /\ UNCHANGED <<made, serverVars, cache, rejected>>

\* "Elimina", shown under a failed message.
Discard(i) ==
  /\ item[i].status = "failed"
  /\ item' = [item EXCEPT ![i].status = "discarded"]
  /\ UNCHANGED <<made, delivery, posts, serverVars, cache, rejected>>

\* Messages of the server are loaded, and reconcile drops those that were
\* waiting, with or without a delivery under way.
Fetch ==
  \E texts \in SUBSET {e.text : e \in log} :
    /\ ~(texts \subseteq cache)
    /\ cache' = cache \cup texts
    /\ item' = [i \in Items |->
         IF Waiting(i) /\ Text(i, item[i].payload) \in cache'
           THEN [item[i] EXCEPT !.status = "saved"] ELSE item[i]]
    /\ UNCHANGED <<made, delivery, posts, serverVars, rejected>>

\* Another page is opened: the outbox is the state of this one.  Deliveries
\* under way go on.
LeavePage ==
  /\ \E i \in Items : Waiting(i)
  /\ item' = [i \in Items |-> Changed(i, [item[i] EXCEPT !.status = "left"])]
  /\ UNCHANGED <<made, delivery, posts, serverVars, cache, rejected>>

-----------------------------------------------------------------------------
(* The server, and whatever makes it refuse.                               *)

\* A post arrives, perhaps after the browser gave it up: the cookie, whether
\* the conversation takes messages, whether the text is there already.
Handle(i, k) ==
  LET p == posts[i][k]
      e == [text |-> Text(i, p.payload), day |-> day]
      Reply(a) == posts' = [posts EXCEPT ![i][k].stage =
                    IF delivery[i] = "posting" /\ k = Last(i) THEN a ELSE "over"] IN
  /\ p.stage = "travelling"
  /\ \/ /\ session /\ accepts
        /\ log' = IF Server!Repeats(e) THEN log ELSE log \cup {e}
        /\ Reply("saved")
     \/ session /\ ~accepts /\ Reply("refused") /\ UNCHANGED log
     \/ ~session /\ Reply("expired") /\ UNCHANGED log
     \/ Reply("error") /\ UNCHANGED log
  /\ UNCHANGED <<item, made, delivery, accepts, session, day, cache, rejected>>

\* A block comes or goes, a key changes or is fetched again.
Toggle ==
  /\ accepts' = ~accepts
  /\ UNCHANGED <<item, made, delivery, posts, log, session, day, cache, rejected>>

ExpireOrSignIn ==
  /\ session' = ~session
  /\ UNCHANGED <<item, made, delivery, posts, log, accepts, day, cache, rejected>>

NextDay ==
  /\ day < MaxDay
  /\ day' = day + 1
  /\ UNCHANGED <<item, made, delivery, posts, log, accepts, session, cache, rejected>>

-----------------------------------------------------------------------------
OutboxInit ==
  /\ item = [i \in Items |-> [status |-> "unwritten", payload |-> 0, network |-> FALSE]]
  /\ made = [i \in Items |-> 0]
  /\ delivery = [i \in Items |-> "idle"]
  /\ posts = [i \in Items |-> <<>>]
  /\ log = {}
  /\ cache = {}
  /\ accepts = TRUE
  /\ session = TRUE
  /\ day = 0
  /\ rejected = {}

OutboxNext ==
  \/ \E i \in Items : \/ Enqueue(i) \/ Retry(i) \/ Encrypt(i) \/ Answer(i) \/ Lose(i)
                      \/ Discard(i) \/ \E k \in 1 .. Last(i) : Handle(i, k)
  \/ Online \/ Fetch \/ LeavePage \/ Toggle \/ ExpireOrSignIn \/ NextDay

OutboxSpec == OutboxInit /\ [][OutboxNext]_outboxVars

\* A browser's encryption and its posts end, one way or another; the server
\* need not answer.
OutboxFairness ==
  \A i \in Items : WF_outboxVars(Encrypt(i)) /\ WF_outboxVars(Answer(i) \/ Lose(i))

OutboxFairSpec == OutboxSpec /\ OutboxFairness

-----------------------------------------------------------------------------
(* Properties.                                                             *)

\* The outbox, its deliveries and the conversation have the declared shapes.
OutboxTypeOK ==
  /\ item \in [Items -> Item]
  /\ made \in [Items -> 0 .. MaxMade]
  /\ delivery \in [Items -> {"idle", "encrypting", "posting"}]
  /\ posts \in [Items -> Seq(Attempt)]
  /\ log \subseteq Entry
  /\ cache \subseteq Texts
  /\ rejected \subseteq Texts
  /\ accepts \in BOOLEAN /\ session \in BOOLEAN /\ day \in 0 .. MaxDay

\* "Invio..." is shown exactly while a delivery is under way: a message is
\* never stuck without "Riprova" (deliver, inFlight and the three ways in).  And
\* what leaves the outbox as saved, by an answer or among loaded messages, is
\* in the conversation.
StatusHonest ==
  \A i \in Items :
    /\ Waiting(i) => (item[i].status = "sending" <=> delivery[i] # "idle")
    /\ item[i].status = "saved" => \E e \in log : e.text[1] = i

Stored(i, n) == \E e \in log : e.text = Text(i, n)

\* A message is stored under two ciphertexts only if the first was answered
\* with a refusal: losing answers, giving up posts that arrive later, leaving
\* and retrying never make a second one (under one ciphertext it is the server
\* that does not store it twice in a day: MessageLog).
DuplicatesWereRefused ==
  \A i \in Items, n, m \in 1 .. MaxMade :
    n < m /\ Stored(i, n) /\ Stored(i, m) => Text(i, n) \in rejected

\* Every message on its way is sent, fails or leaves the outbox, also when the
\* server never answers (networkMode "always").
SendingEnds ==
  \A i \in Items : item[i].status = "sending" ~> item[i].status # "sending"
=============================================================================
