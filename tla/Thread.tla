------------------------------- MODULE Thread -------------------------------
(***************************************************************************)
(* The messages of the open conversation as the page shows them: pages     *)
(* from the newest down, loaded by TanStack Query, to which pulls of the   *)
(* latest page and the answers to the user's own sends add what is new     *)
(* without loading the pages again (api/hooks.ts).  A load replaces all    *)
(* the data with what it read, from the data there were when it began.     *)
(* Messages are numbered by their date, which the server gives when the    *)
(* transaction that saves them begins (chat/store.go): one may be saved    *)
(* after another dated later, and comes to light below it.                 *)
(*                                                                         *)
(* A definition introduced by "Slip" is the definition below it with a     *)
(* mistake in it, which some property must notice.                         *)
(***************************************************************************)
EXTENDS Naturals, FiniteSets

CONSTANTS
  P,          \* messages in a page
  MaxStored,  \* bound: messages of the conversation
  MaxOwn,     \* bound: those sent from this page
  MaxPulls    \* bound: latest pages on their way at once

ASSUME ThreadAssumption ==
  P \in Nat \ {0} /\ MaxStored \in Nat \ {0} /\ MaxOwn \in Nat /\ MaxPulls \in Nat

VARIABLES
  dated,      \* messages dated so far: 1 .. dated
  stored,     \* those that have been saved, which a page can read
  sending,    \* own messages saved whose answer the page is waiting for
  shown,      \* messages in the loaded pages
  pages,      \* how many pages; 0 before any data
  low,        \* where the last page's cursor points: its oldest message, 1 for no cursor
  load,       \* the query's fetch
  asked,      \* a pull has asked for the latest page
  pulled,     \* latest pages on their way
  own,        \* history: messages sent from this page
  late,       \* history: messages saved after one dated later
  alone       \* history: own messages shown by their answer before those that precede them

saved == <<dated, stored, sending>>
threadData == <<shown, pages, low>>
pulls == <<asked, pulled>>
threadHistory == <<own, late, alone>>
threadVars == <<saved, threadData, load, pulls, threadHistory>>

Ids == 1 .. MaxStored
Top == MaxStored + 1

\* A load of all the pages or of one older page: the pages gathered, how many
\* are still to be read, and what it cannot do without: what was stored when
\* the first page was read, or what was shown when an older page was asked for.
Load == [kind : {"none", "all", "older"}, left : 0 .. MaxStored, shown : SUBSET Ids,
         pages : 0 .. MaxStored, low : 0 .. Top, at : SUBSET Ids]

NoLoad == [kind |-> "none", left |-> 0, shown |-> {}, pages |-> 0, low |-> 0, at |-> {}]
Loading == load.kind # "none"
HasData == pages > 0

\* The page below a cursor, when these messages are stored: the newest P of
\* those below it.  With more below it has a cursor: its oldest message.
Below(ids, c) == {x \in ids : x < c}
PageBelow(ids, c) == {x \in Below(ids, c) : Cardinality({y \in Below(ids, c) : x < y}) < P}
More(ids, c) == Cardinality(Below(ids, c)) > P
Cursor(ids, c) ==
  LET page == PageBelow(ids, c) IN
  IF More(ids, c) THEN CHOOSE x \in page : \A y \in page : x <= y ELSE 1

\* A fetch captures the data there are when it begins: to load the pages
\* again, how many they are; to load one more, all that was shown.
Begin(kind) ==
  \/ /\ kind = "all"
     /\ load' = [NoLoad EXCEPT !.kind = kind, !.left = IF HasData THEN pages ELSE 1, !.low = Top]
  \/ /\ kind = "older"
     /\ load' = [kind |-> kind, left |-> 1, shown |-> shown, pages |-> pages, low |-> low,
                 at |-> shown]

\* invalidateQueries: a load under way is cancelled and starts again, unless
\* there are no data yet: then it goes on.
InvalidateThread == IF Loading /\ ~HasData THEN UNCHANGED load ELSE Begin("all")

\* addMessagesToCache.
Add(ids) == shown' = IF HasData THEN shown \cup ids ELSE shown

-----------------------------------------------------------------------------
(* Messages arrive on the server.                                          *)

\* InsertMessage begins, for the other participant or another browser of this
\* user: the message has its date, then waits for the lock.
Arrive ==
  /\ dated < MaxStored
  /\ dated' = dated + 1
  /\ UNCHANGED <<stored, sending, threadData, load, pulls, threadHistory>>

Send ==
  /\ dated < MaxStored
  /\ Cardinality(own) < MaxOwn
  /\ dated' = dated + 1
  /\ own' = own \cup {dated + 1}
  /\ UNCHANGED <<stored, sending, threadData, load, pulls, late, alone>>

\* It is committed, whatever has been committed meanwhile.
Commit(m) ==
  /\ m <= dated /\ m \notin stored
  /\ stored' = stored \cup {m}
  /\ sending' = IF m \in own THEN sending \cup {m} ELSE sending
  /\ late' = IF \E y \in stored : y > m THEN late \cup {m} ELSE late
  /\ UNCHANGED <<dated, threadData, load, pulls, own, alone>>

\* The answer to a send: the saved message goes in at once.
SendAnswered(m) ==
  /\ m \in sending
  /\ sending' = sending \ {m}
  /\ Add({m})
  /\ alone' = IF HasData /\ \E x \in stored \ late : low <= x /\ x < m /\ x \notin shown
              THEN alone \cup {m} ELSE alone
  /\ UNCHANGED <<dated, stored, pages, low, load, pulls, own, late>>

-----------------------------------------------------------------------------
(* Loads.                                                                  *)

\* The connection is back, the page is mounted again with old data, "Riprova".
Refetch ==
  /\ ~Loading
  /\ Begin("all")
  /\ UNCHANGED <<saved, threadData, pulls, threadHistory>>

\* The top of the thread comes into view.  A load of all the pages is
\* cancelled.
LoadOlder ==
  /\ HasData /\ low > 1
  /\ load.kind # "older"
  /\ Begin("older")
  /\ UNCHANGED <<saved, threadData, pulls, threadHistory>>

\* The pages are read from the newest down, each below the cursor of the one
\* before it, as long as there is one.
LoadRead ==
  /\ Loading /\ load.left > 0
  /\ load' = [load EXCEPT !.left = IF More(stored, load.low) THEN @ - 1 ELSE 0,
                          !.shown = @ \cup PageBelow(stored, load.low),
                          !.pages = @ + 1,
                          !.low = Cursor(stored, load.low),
                          !.at = IF load.pages = 0 THEN stored ELSE @]
  /\ UNCHANGED <<saved, threadData, pulls, threadHistory>>

\* Slip: the pages read take the place of the data before the others are.
LoadDoneEarly ==
  /\ Loading
  /\ shown' = load.shown /\ pages' = load.pages /\ low' = load.low
  /\ load' = NoLoad
  /\ UNCHANGED <<saved, pulls, threadHistory>>

\* The result takes the place of the data.
LoadDone ==
  /\ Loading /\ load.left = 0
  /\ shown' = load.shown /\ pages' = load.pages /\ low' = load.low
  /\ load' = NoLoad
  /\ UNCHANGED <<saved, pulls, threadHistory>>

\* After its retries a load fails, and the data stay.
LoadFailed ==
  /\ Loading
  /\ load' = NoLoad
  /\ UNCHANGED <<saved, threadData, pulls, threadHistory>>

-----------------------------------------------------------------------------
(* Pulls: on a notice, on a reconnection, when the page comes into view,   *)
(* and every few seconds while there is no real-time connection.           *)

\* Slip: a pull leaves the loads alone.
PullIfIdle ==
  /\ HasData /\ ~Loading
  /\ asked' = TRUE
  /\ UNCHANGED <<saved, threadData, load, pulled, threadHistory>>

Pull ==
  /\ \/ ~(HasData /\ ~Loading) /\ InvalidateThread /\ UNCHANGED asked
     \/ HasData /\ ~Loading /\ asked' = TRUE /\ UNCHANGED load
  /\ UNCHANGED <<saved, threadData, pulled, threadHistory>>

PullRead ==
  /\ asked
  /\ Cardinality(pulled) < MaxPulls
  /\ asked' = FALSE
  /\ pulled' = pulled \cup {[items |-> PageBelow(stored, Top), more |-> More(stored, Top)]}
  /\ UNCHANGED <<saved, threadData, load, threadHistory>>

\* Slip: a page full of new messages is added like any other.
PullDoneAdding(l) ==
  /\ pulled' = pulled \ {l}
  /\ Add(l.items)
  /\ UNCHANGED <<saved, pages, low, load, asked, threadHistory>>

\* Slip: the latest page takes the place of the first one.
PullDoneReplacing(l) ==
  /\ pulled' = pulled \ {l}
  /\ shown' = (shown \ PageBelow(shown, Top)) \cup l.items
  /\ UNCHANGED <<saved, pages, low, load, asked, threadHistory>>

\* With none of its messages known and more below them everything is loaded
\* again; otherwise they are added.
PullDone(l) ==
  LET gap == l.more /\ l.items \cap shown = {} IN
  /\ pulled' = pulled \ {l}
  /\ \/ gap /\ InvalidateThread /\ UNCHANGED shown
     \/ ~gap /\ Add(l.items) /\ UNCHANGED load
  /\ UNCHANGED <<saved, pages, low, asked, threadHistory>>

PullFailed(l) ==
  /\ pulled' = pulled \ {l}
  /\ UNCHANGED <<saved, threadData, load, asked, threadHistory>>

-----------------------------------------------------------------------------
\* The conversation is opened: its messages are being loaded.
ThreadInit ==
  /\ dated = 0 /\ stored = {} /\ sending = {}
  /\ shown = {} /\ pages = 0 /\ low = 0
  /\ load = [NoLoad EXCEPT !.kind = "all", !.left = 1, !.low = Top]
  /\ asked = FALSE /\ pulled = {}
  /\ own = {} /\ late = {} /\ alone = {}

ThreadNext ==
  \/ Arrive \/ Send \/ \E m \in Ids : Commit(m) \/ SendAnswered(m)
  \/ Refetch \/ LoadOlder \/ LoadRead \/ LoadDone \/ LoadFailed
  \/ Pull \/ PullRead \/ \E l \in pulled : PullDone(l) \/ PullFailed(l)

ThreadSpec == ThreadInit /\ [][ThreadNext]_threadVars

\* Without a real-time connection the page pulls for ever; a load or a pull
\* is not cancelled or lost every time.
ThreadFairness ==
  /\ WF_threadVars(Pull) /\ WF_threadVars(PullRead)
  /\ []<>Loading => []<><<LoadDone>>_threadVars
  /\ []<>(pulled # {}) => []<><<\E l \in pulled : PullDone(l)>>_threadVars

ThreadFairSpec == ThreadSpec /\ ThreadFairness

-----------------------------------------------------------------------------
(* Properties.                                                             *)

\* The data, the load and the pulls have the declared shapes, of messages that
\* are stored.
ThreadTypeOK ==
  /\ dated \in 0 .. MaxStored /\ stored \subseteq 1 .. dated
  /\ shown \subseteq stored /\ pages \in 0 .. MaxStored /\ low \in 0 .. MaxStored
  /\ load \in Load /\ load.shown \subseteq stored
  /\ asked \in BOOLEAN
  /\ \A l \in pulled : l \in [items : SUBSET stored, more : BOOLEAN]
  /\ own \subseteq 1 .. dated /\ late \subseteq stored
  /\ alone \cup sending \subseteq own \cap stored

\* Stored and not shown, between messages that are.
Hole(x) == /\ HasData /\ low <= x /\ x \notin shown
           /\ \E y \in shown : y > x

\* The thread has a hole only where a message was saved after one dated later, or
\* below a message of the user's that was shown by its answer before those that
\* precede it: a pull that reaches it takes the page for known
\* (pullLatestMessages looks for any message in common).
HolesExplained == \A x \in stored : Hole(x) => x \in late \/ \E m \in alone : m > x

\* A message once shown goes only when a load replaces the data: one that read its
\* first page before the message was stored, that no longer reaches the page it
\* was on, or that began from data that did not have it yet.
VanishOnlyByLoad ==
  [][\A x \in shown : x \notin shown' =>
       /\ Loading /\ load.left = 0
       /\ x \notin load.at \/ (load.kind = "all" /\ x < low')]_threadVars

\* While the page pulls, every message stored is shown sooner or later, or is older
\* than the pages loaded, or below a message of the user's shown ahead of it, or
\* saved late and left below the latest page: also when the first load fails, and
\* when loads and pulls overlap.
CatchUp ==
  \A x \in Ids :
    x \in stored ~>
      HasData /\ \/ x \in shown \/ x < low
                 \/ \E m \in alone : m > x
                 \/ x \in late /\ x \notin PageBelow(stored, Top)
=============================================================================
