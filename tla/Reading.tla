------------------------------ MODULE Reading ------------------------------
(***************************************************************************)
(* What is unread in one conversation: on the server, and in the queries   *)
(* of a reader's page that show it (the open conversation, the list, the   *)
(* badge).  Messages arrive with a notice if the real-time channel is      *)
(* subscribed; a notice, a reconnection, a timer and the answer to a mark  *)
(* make TanStack Query read the server again; the open page marks what it  *)
(* shows as unread.                                                        *)
(*                                                                         *)
(* A definition introduced by "Slip" is the definition below it with a     *)
(* mistake in it, which some property must notice.                         *)
(***************************************************************************)
EXTENDS Naturals

CONSTANTS
  Queries,    \* the queries of the page
  Timed,      \* those mounted on every page, read again every minute
  Opened,     \* the one of the open conversation, from which it is marked
  MaxSent,    \* bound: messages of the other participant
  MaxMarks,   \* bound: marks on their way at once
  NoData

ASSUME ReadingAssumption ==
  /\ Timed \subseteq Queries /\ Opened \in Queries \ Timed
  /\ MaxSent \in Nat /\ MaxMarks \in Nat \ {0}
  /\ NoData \notin [unread : 0 .. MaxSent, latest : 0 .. MaxSent]

VARIABLES
  sent, read,   \* server: messages, and how many of them are read
  open,         \* the conversation is open
  visible,      \* the tab is in the foreground
  ready,        \* the key is there and the messages are loaded
  channel,      \* the real-time connection and the user's channel on it
  before,       \* it has been connected before
  notices,      \* notices on their way
  data, fetch,  \* what each query holds, and where its request is
  stale,        \* queries that must be read again when they are mounted
  acted,        \* what the effect that marks last ran on, if it marked it
  marks,        \* marks on their way: asked, and handled by the server
  missed,       \* history: queries that missed something for good, until they are read
  refused       \* history: the last mark failed

server == <<sent, read>>
page == <<open, visible, ready>>
realtime == <<channel, before, notices>>
queries == <<data, fetch, stale>>
history == <<missed, refused>>
readingVars == <<server, page, realtime, queries, acted, marks, history>>

\* What the server answers: unread messages and the last one; the badge only
\* whether there are any.
View == [unread : 0 .. MaxSent, latest : 0 .. MaxSent]
Zero == [unread |-> 0, latest |-> 0]
Now(q) ==
  IF q \in Timed THEN [Zero EXCEPT !.unread = IF sent > read THEN 1 ELSE 0]
  ELSE [unread |-> sent - read, latest |-> sent]

\* A request has its answer from when the server reads.
FetchState == [stage : {"idle", "asked"}, view : {NoData}] \cup [stage : {"answered"}, view : View]
Idle == [stage |-> "idle", view |-> NoData]
Asked == [stage |-> "asked", view |-> NoData]
Active(q) == q \in Timed \/ open
Loaded(q) == data[q] # NoData
Answered(q) == fetch[q].stage = "answered"

\* Those that hold, or are about to hold, what the server showed before now,
\* miss what happens now.
Informed(q) == Loaded(q) \/ Answered(q)
Miss(S) ==
  missed' = missed \cup {q \in S : Informed(q)}

-----------------------------------------------------------------------------
(* Queries: the part of TanStack Query that the page relies on.            *)

\* invalidateQueries: mounted queries with data start again, cancelling a
\* request under way; without data the request under way goes on, and its
\* answer passes for fresh even if the server had been read before.
Invalidate ==
  LET again == {q \in Queries : Active(q) /\ (Loaded(q) \/ fetch[q] = Idle)} IN
  /\ fetch' = [q \in Queries |-> IF q \in again THEN Asked ELSE fetch[q]]
  /\ stale' = {q \in Queries \ Timed : Loaded(q)}
  /\ Miss({q \in Queries \ again : Answered(q)})

\* A query that is mounted: without data or stale it is read, otherwise only
\* if the data are older than half a minute.
Mount(S) ==
  \E old \in SUBSET S :
    LET wanted == {q \in S : fetch[q] = Idle /\ (~Loaded(q) \/ q \in stale \cup old)} IN
    fetch' = [q \in Queries |-> IF q \in wanted THEN Asked ELSE fetch[q]]

FetchRead(q) ==
  /\ fetch[q] = Asked
  /\ fetch' = [fetch EXCEPT ![q] = [stage |-> "answered", view |-> Now(q)]]
  /\ missed' = missed \ {q}
  /\ UNCHANGED <<server, page, realtime, data, stale, acted, marks, refused>>

FetchDone(q) ==
  /\ Answered(q)
  /\ data' = [data EXCEPT ![q] = fetch[q].view]
  /\ stale' = stale \ {q}
  /\ fetch' = [fetch EXCEPT ![q] = Idle]
  /\ UNCHANGED <<server, page, realtime, acted, marks, history>>

\* After the two retries.
FetchFail(q) ==
  /\ fetch[q] # Idle
  /\ fetch' = [fetch EXCEPT ![q] = Idle]
  /\ stale' = IF Loaded(q) THEN stale \cup ({q} \ Timed) ELSE stale
  /\ Miss({q})
  /\ UNCHANGED <<server, page, realtime, data, acted, marks, refused>>

\* refetchInterval, in the foreground only.
Tick(q) ==
  /\ q \in Timed /\ visible
  /\ fetch[q] = Idle
  /\ fetch' = [fetch EXCEPT ![q] = Asked]
  /\ UNCHANGED <<server, page, realtime, data, stale, acted, marks, history>>

-----------------------------------------------------------------------------
(* Messages and the real-time connection.                                  *)

\* The service hands a notice on to who is subscribed at that moment.
Receive ==
  /\ sent < MaxSent
  /\ sent' = sent + 1
  /\ notices' = IF channel = "subscribed" THEN notices + 1 ELSE notices
  /\ Miss(IF channel = "subscribed" THEN {} ELSE Queries)
  /\ refused' = FALSE
  /\ UNCHANGED <<read, page, channel, before, queries, acted, marks>>

Notice ==
  /\ notices > 0
  /\ notices' = notices - 1
  /\ Invalidate
  /\ UNCHANGED <<server, page, channel, before, data, acted, marks, refused>>

\* Delivery is not promised.
LoseNotice ==
  /\ notices > 0
  /\ notices' = notices - 1
  /\ Miss(Queries)
  /\ UNCHANGED <<server, page, channel, before, queries, acted, marks, refused>>

\* The channel still has to be joined: the server signs the request.
Connect ==
  /\ channel = "down"
  /\ channel' = "joining"
  /\ before' = TRUE
  /\ IF before THEN Invalidate ELSE UNCHANGED <<fetch, stale, missed>>
  /\ UNCHANGED <<server, page, notices, data, acted, marks, refused>>

Subscribe ==
  /\ channel = "joining"
  /\ channel' = "subscribed"
  /\ UNCHANGED <<server, page, before, notices, queries, acted, marks, history>>

Disconnect ==
  /\ channel # "down"
  /\ channel' = "down"
  /\ notices' = 0
  /\ Miss(IF notices > 0 THEN Queries ELSE {})
  /\ UNCHANGED <<server, page, before, queries, acted, marks, refused>>

\* Every five seconds without a connection.
Poll ==
  /\ channel = "down" /\ open /\ visible
  /\ Invalidate
  /\ UNCHANGED <<server, page, realtime, data, acted, marks, refused>>

-----------------------------------------------------------------------------
(* The page.                                                               *)

Open ==
  /\ ~open
  /\ open' = TRUE
  /\ ready' = FALSE
  /\ Mount(Queries \ Timed)
  /\ UNCHANGED <<server, visible, realtime, data, stale, acted, marks, history>>

\* Slip: what was loaded counts for the next conversation too.
CloseStillReady ==
  /\ open
  /\ open' = FALSE
  /\ UNCHANGED <<server, visible, ready, realtime, queries, acted, marks, history>>

Close ==
  /\ open
  /\ open' = FALSE
  /\ ready' = FALSE
  /\ UNCHANGED <<server, visible, realtime, queries, acted, marks, history>>

Ready ==
  /\ open /\ ~ready
  /\ ready' = TRUE
  /\ UNCHANGED <<server, open, visible, realtime, queries, acted, marks, history>>

Hide ==
  /\ visible
  /\ visible' = FALSE
  /\ UNCHANGED <<server, open, ready, realtime, queries, acted, marks, history>>

\* Back in the foreground the chat reads everything again, other pages do not.
Show ==
  /\ ~visible
  /\ visible' = TRUE
  /\ IF open THEN Invalidate ELSE UNCHANGED <<fetch, stale, missed>>
  /\ UNCHANGED <<server, open, ready, realtime, data, acted, marks, refused>>

Looking == open /\ visible /\ ready

\* Slip: the effect does not depend on the last message.
UnreadOnly ==
  IF Looking /\ Loaded(Opened) THEN [data[Opened] EXCEPT !.latest = 0] ELSE Zero

\* What the effect has to mark, of all that it depends on: a run without
\* anything to mark does nothing, so what it ran on does not matter.
Unread ==
  IF Looking /\ Loaded(Opened) /\ data[Opened].unread > 0 THEN data[Opened] ELSE Zero

\* The effect runs after a render in which something it depends on changed.
Effect ==
  /\ acted # Unread
  /\ acted' = Unread
  /\ IF Unread # Zero
       THEN /\ marks.asked + marks.handled < MaxMarks
            /\ marks' = [marks EXCEPT !.asked = @ + 1]
            /\ refused' = FALSE
       ELSE UNCHANGED <<marks, refused>>
  /\ UNCHANGED <<server, page, realtime, queries, missed>>

\* MarkRead on the server: everything up to now.
MarkHandled ==
  /\ marks.asked > 0
  /\ read' = sent
  /\ marks' = [asked |-> marks.asked - 1, handled |-> marks.handled + 1]
  /\ UNCHANGED <<sent, page, realtime, queries, acted, history>>

ReadIn(v) == IF v = NoData THEN v ELSE [v EXCEPT !.unread = 0]

\* Slip: what is loaded is set to zero and not read again.
MarkDoneTrusting ==
  /\ marks.handled > 0
  /\ marks' = [marks EXCEPT !.handled = @ - 1]
  /\ data' = [q \in Queries |-> ReadIn(data[q])]
  /\ UNCHANGED <<server, page, realtime, fetch, stale, acted, history>>

MarkDone ==
  /\ marks.handled > 0
  /\ marks' = [marks EXCEPT !.handled = @ - 1]
  /\ data' = [q \in Queries |-> IF q \in Timed THEN data[q] ELSE ReadIn(data[q])]
  /\ Invalidate
  /\ UNCHANGED <<server, page, realtime, acted, refused>>

\* Mutations are not retried; the server may have handled it all the same.
MarkFail ==
  /\ \/ /\ marks.asked > 0
        /\ marks' = [marks EXCEPT !.asked = @ - 1]
        /\ UNCHANGED missed
     \/ /\ marks.handled > 0
        /\ marks' = [marks EXCEPT !.handled = @ - 1]
        /\ Miss(Queries)
  /\ refused' = TRUE
  /\ UNCHANGED <<server, page, realtime, queries, acted>>

-----------------------------------------------------------------------------
ReadingInit ==
  /\ sent = 0 /\ read = 0
  /\ open = FALSE /\ visible = TRUE /\ ready = FALSE
  /\ channel = "down" /\ before = FALSE /\ notices = 0
  /\ data = [q \in Queries |-> NoData]
  /\ fetch = [q \in Queries |-> IF q \in Timed THEN Asked ELSE Idle]
  /\ stale = {}
  /\ acted = Zero
  /\ marks = [asked |-> 0, handled |-> 0]
  /\ missed = {} /\ refused = FALSE

ReadingNext ==
  \/ \E q \in Queries : FetchRead(q) \/ FetchDone(q) \/ FetchFail(q) \/ Tick(q)
  \/ Receive \/ Notice \/ LoseNotice \/ Connect \/ Subscribe \/ Disconnect \/ Poll
  \/ Open \/ Close \/ Ready \/ Hide \/ Show
  \/ Effect \/ MarkHandled \/ MarkDone \/ MarkFail

ReadingSpec == ReadingInit /\ [][ReadingNext]_readingVars

-----------------------------------------------------------------------------
(* Properties.                                                             *)

\* Messages, queries and marks have the shapes declared above, and nothing is
\* read that was not sent.
ReadingTypeOK ==
  /\ sent \in 0 .. MaxSent /\ read \in 0 .. sent
  /\ {open, visible, ready, before, refused} \subseteq BOOLEAN
  /\ ready => open
  /\ channel \in {"down", "joining", "subscribed"}
  /\ notices \in 0 .. MaxSent
  /\ data \in [Queries -> View \cup {NoData}]
  /\ fetch \in [Queries -> FetchState]
  /\ stale \subseteq Queries \ Timed
  /\ missed \subseteq Queries
  /\ acted \in View
  /\ marks \in [asked : 0 .. MaxMarks, handled : 0 .. MaxMarks]

\* What q shows is what the server has, or is about to be read: by the request
\* under way, or when the query is mounted.
Current(q) ==
  Loaded(q) => data[q] = Now(q) \/ fetch[q] # Idle \/ (q \in stale /\ ~Active(q))

Quiet == notices = 0 /\ marks.handled = 0

\* Once notices and marks have come in, the conversation, the list and the
\* badge agree with the server or are being read; the exceptions are what
\* nobody told the page (a lost notice or answer, a failed read, a message
\* that came without a channel) and the first load that an invalidation left
\* running (invalidateConversations, useMarkConversationRead).
CountersAgree == Quiet => \A q \in Queries \ missed : Current(q)

\* Who looks at the open conversation has read it to the end when nothing is
\* on its way any more, also if another message came while the mark of the one
\* before was travelling: unless a mark failed after the last message, or the
\* page was not told of it (the effect of Chat that marks).
Settled ==
  /\ Quiet /\ marks.asked = 0 /\ acted = Unread
  /\ Loaded(Opened) /\ fetch[Opened] = Idle
LookingReads ==
  Looking /\ Settled => read = sent \/ refused \/ Opened \in missed

=============================================================================
