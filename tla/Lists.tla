------------------------------- MODULE Lists --------------------------------
(***************************************************************************)
(* The listings as the pages of the site show them: the search results,    *)
(* the favourites, the user's own listings and the page of one listing,    *)
(* all from one cache of TanStack Query (api/hooks.ts).  A heart changes   *)
(* in every list at once and is put back when the server does not accept   *)
(* it; an edit of an own listing makes every list load again.              *)
(*                                                                         *)
(* The lists are read a page at a time, each page after the last row of    *)
(* the one before.  Listings are numbered as they were created.            *)
(*                                                                         *)
(* A definition introduced by "Slip" is the definition below it with a     *)
(* mistake in it, which some property must notice.                         *)
(***************************************************************************)
EXTENDS Integers, Sequences, FiniteSets, FiniteSetsExt, Functions

CONSTANTS
  N,           \* listings 1 .. N
  Own,         \* those of the user of this browser
  Opened,      \* the listing whose page the user visits
  PageSize,    \* rows in a page of the results or of the favourites
  MaxToggles,  \* bound: hearts pressed
  MaxEdits,    \* bound: own listings withdrawn, published or deleted
  MaxVisits,   \* bound: pages opened after the first
  MaxErrors    \* bound: requests without a good answer

ASSUME ListsAssumption ==
  /\ N \in Nat \ {0} /\ Own \subseteq 1 .. N /\ Opened \in 1 .. N
  /\ PageSize \in Nat \ {0} /\ {MaxToggles, MaxEdits, MaxVisits, MaxErrors} \subseteq Nat

VARIABLES
  status,   \* server: each listing is published, withdrawn or deleted
  savedAt,  \* server: when the user saved it, 0 if it is not a favourite
  page,     \* the page on screen
  cache,    \* what the browser keeps of each query
  fetch,    \* and what it is loading
  muts,     \* changes of a heart on their way
  edit,     \* the edit of an own listing on its way
  undo,     \* listings a message still offers to save again
  used      \* counts for the bounds

server == <<status, savedAt>>
vars == <<server, page, cache, fetch, muts, edit, undo, used>>

Listings == 1 .. N
Queries == {"latest", "saved", "mine", "detail"}
Pages == {"search", "favourites", "mine", "details"}
Shows == [search |-> "latest", favourites |-> "saved", mine |-> "mine", details |-> "detail"]
Mounted(q) == Shows[page] = q

\* One more of what is bounded.
Count(what) ==
  /\ used[what] < [toggles |-> MaxToggles, edits |-> MaxEdits,
                   visits |-> MaxVisits, errors |-> MaxErrors][what]
  /\ used' = [used EXCEPT ![what] = @ + 1]

Slots == 1 .. 2

-----------------------------------------------------------------------------
(* The server.                                                             *)

Exists(l) == status[l] # "gone"

\* Which listings a query is about, and in what order: the search from the
\* newest, the favourites from the last saved.
Belongs(q, l) ==
  CASE q = "latest" -> status[l] = "on"
    [] q = "saved"  -> status[l] = "on" /\ savedAt[l] # 0
    [] q = "mine"   -> Exists(l) /\ l \in Own
    [] q = "detail" -> l = Opened /\ Exists(l) /\ (status[l] = "on" \/ l \in Own)

Key(q, l) == IF q = "saved" THEN (MaxToggles + 2 - savedAt[l]) * (N + 1) - l ELSE N + 1 - l

After(q, cursor) ==
  LET S == {l \in Listings : Belongs(q, l) /\ Key(q, l) > cursor} IN
  CHOOSE s \in [1 .. Cardinality(S) -> S] :
    \A i, j \in DOMAIN s : i < j => Key(q, s[i]) < Key(q, s[j])

Size(q) == IF q \in {"latest", "saved"} THEN PageSize ELSE N

\* A row of a list, its heart as the server has it; one's own listings come
\* without hearts.
Row(q, l) == [id |-> l, on |-> status[l] = "on", saved |-> q # "mine" /\ savedAt[l] # 0]

\* A page: its rows, and the cursor of the next one if there are more.
SlipPageOf(q, cursor) ==
  LET all == After(q, cursor)
      n == IF Len(all) > Size(q) THEN Size(q) ELSE Len(all)
  IN  [rows |-> [i \in 1 .. n |-> Row(q, all[i])],
       next |-> IF Len(all) > n THEN Key(q, all[n + 1]) ELSE 0]

PageOf(q, cursor) ==
  LET all == After(q, cursor)
      n == IF Len(all) > Size(q) THEN Size(q) ELSE Len(all)
  IN  [rows |-> [i \in 1 .. n |-> Row(q, all[i])],
       next |-> IF Len(all) > n THEN Key(q, all[n]) ELSE 0]

-----------------------------------------------------------------------------
(* The cache.  "behind" and "unsure" are history: the rows may miss an     *)
(* edit, a heart may differ from the server's.                             *)

Rows == Seq([id : Listings, on : BOOLEAN, saved : BOOLEAN])
Query == [rows : Rows, count : Nat, next : Nat, stale : BOOLEAN, error : BOOLEAN,
          behind : BOOLEAN, unsure : BOOLEAN]
NoData == [rows |-> <<>>, count |-> 0, next |-> 0, stale |-> FALSE, error |-> FALSE,
           behind |-> FALSE, unsure |-> FALSE]
HasData(q) == cache[q].count > 0

Fetch == [kind : {"none", "all", "next"}, rows : Rows, count : Nat, next : Nat,
          need : Nat, behind : BOOLEAN, unsure : BOOLEAN]
NoFetch == [kind |-> "none", rows |-> <<>>, count |-> 0, next |-> 0, need |-> 0,
            behind |-> FALSE, unsure |-> FALSE]
Fetching(q) == fetch[q].kind # "none"

Mut == [state : {"idle", "sent", "applied"}, id : 0 .. N, to : BOOLEAN, from : Pages,
        before : [Queries -> Query], crossed : BOOLEAN, edited : BOOLEAN]
NoMut == [state |-> "idle", id |-> 0, to |-> FALSE, from |-> "search",
          before |-> [q \in Queries |-> NoData], crossed |-> FALSE, edited |-> FALSE]
Busy == \E m \in Slots : muts[m].state # "idle"

Free == {m \in Slots : muts[m].state = "idle"}
NextSlot == IF Free = {} THEN 0 ELSE Min(Free)

Edit == [what : {"none", "show", "hide", "delete"}, id : 0 .. N, applied : BOOLEAN]
NoEdit == [what |-> "none", id |-> 0, applied |-> FALSE]
Editing == edit.what # "none"

\* What each page draws for its query.  The page of one listing, and that of
\* the own listings, hide the rows they have when a later load fails.
Drawn(q, failed) ==
  CASE failed -> "error"
    [] ~failed /\ ~HasData(q) -> "skeleton"
    [] ~failed /\ HasData(q) /\ cache[q].rows = <<>> -> "empty"
    [] OTHER -> "rows"
FirstLoadFailed(q) == cache[q].error /\ ~HasData(q)

SearchScreen == Drawn("latest", FirstLoadFailed("latest"))
FavouritesScreen == Drawn("saved", FirstLoadFailed("saved"))
MyListingsScreen == Drawn("mine", cache["mine"].error)
DetailsScreen == Drawn("detail", cache["detail"].error)
Screen(q) == [latest |-> SearchScreen, saved |-> FavouritesScreen,
              mine |-> MyListingsScreen, detail |-> DetailsScreen][q]

\* The rows on screen that have a heart: every card of the results and of the
\* favourites, and the page of a listing that is not one's own.
CardHearts ==
  UNION {Range(cache[q].rows) : q \in {r \in {"latest", "saved"} : Mounted(r) /\ Screen(r) = "rows"}}
DetailHeart ==
  IF Mounted("detail") /\ DetailsScreen = "rows"
  THEN {row \in Range(cache["detail"].rows) : row.id \notin Own} ELSE {}

\* A load of every page there is, from the first.
LoadAll(q) == [NoFetch EXCEPT !.kind = "all", !.unsure = Busy,
                              !.need = IF HasData(q) THEN cache[q].count ELSE 1]

\* A load of one page more, added to the rows there are now.
LoadOneMore(q) ==
  [kind |-> "next", rows |-> cache[q].rows, count |-> cache[q].count,
   next |-> cache[q].next, need |-> cache[q].count + 1,
   behind |-> cache[q].behind \/ cache[q].stale, unsure |-> cache[q].unsure \/ Busy]

\* Marked: what is on screen is loaded again at once.  A load of a list without
\* rows, or of one not on screen, is left to end.
Invalidate(qs, c) ==
  /\ cache' = [q \in Queries |-> IF q \in qs THEN [c[q] EXCEPT !.stale = TRUE] ELSE c[q]]
  /\ fetch' = [q \in Queries |->
       CASE q \notin qs -> fetch[q]
         [] q \in qs /\ Fetching(q) /\ ~(Mounted(q) /\ HasData(q)) ->
              [fetch[q] EXCEPT !.behind = TRUE, !.unsure = TRUE]
         [] q \in qs /\ ~Fetching(q) /\ ~Mounted(q) -> fetch[q]
         [] OTHER -> [LoadAll(q) EXCEPT !.unsure = Busy']]

-----------------------------------------------------------------------------
(* The pages.                                                              *)

\* A page is opened: its query is loaded if it has no rows, or they are marked,
\* or thirty seconds have passed; a load already under way is enough.
Open(p) ==
  /\ p # page /\ Count("visits")
  /\ page' = p
  /\ LET q == Shows[p] IN
     \/ ~Fetching(q) /\ fetch' = [fetch EXCEPT ![q] = LoadAll(q)]
     \/ ((HasData(q) /\ ~cache[q].stale) \/ Fetching(q)) /\ UNCHANGED fetch
  /\ UNCHANGED <<server, cache, muts, edit, undo>>

\* The list goes on by itself near its end, or by its button after an error,
\* even while it is loading again.
LoadNext(q) ==
  /\ Mounted(q) /\ Screen(q) = "rows" /\ cache[q].next # 0 /\ fetch[q].kind # "next"
  /\ fetch' = [fetch EXCEPT ![q] = LoadOneMore(q)]
  /\ UNCHANGED <<server, page, cache, muts, edit, undo, used>>

\* "Riprova".
Retry(q) ==
  /\ Mounted(q) /\ Screen(q) = "error" /\ ~Fetching(q)
  /\ fetch' = [fetch EXCEPT ![q] = LoadAll(q)]
  /\ UNCHANGED <<server, page, cache, muts, edit, undo, used>>

HasRead(f) == f.count = f.need \/ (f.count > 0 /\ f.next = 0)

\* The server answers for one page.
ReadPage(q) ==
  /\ Fetching(q) /\ ~HasRead(fetch[q])
  /\ q = "detail" => Belongs(q, Opened)
  /\ LET p == PageOf(q, fetch[q].next) IN
     fetch' = [fetch EXCEPT ![q].rows = @ \o p.rows, ![q].count = @ + 1, ![q].next = p.next]
  /\ UNCHANGED <<server, page, cache, muts, edit, undo, used>>

\* The pages replace what the list had.
Deliver(q) ==
  /\ Fetching(q) /\ HasRead(fetch[q])
  /\ LET f == fetch[q] IN
     cache' = [cache EXCEPT ![q] = [rows |-> f.rows, count |-> f.count, next |-> f.next,
                                    stale |-> FALSE, error |-> FALSE,
                                    behind |-> f.behind, unsure |-> f.unsure]]
  /\ fetch' = [fetch EXCEPT ![q] = NoFetch]
  /\ UNCHANGED <<server, page, muts, edit, undo, used>>

\* No answer after the retries, or a listing that is not there.
FetchFails(q) ==
  /\ Fetching(q) /\ Count("errors")
  /\ fetch' = [fetch EXCEPT ![q] = NoFetch]
  /\ cache' = [cache EXCEPT ![q].error = TRUE, ![q].stale = TRUE]
  /\ UNCHANGED <<server, page, muts, edit, undo>>

-----------------------------------------------------------------------------
(* The hearts.                                                             *)

\* withSaved, in every list.
WithSaved(c, l, to) ==
  [q \in Queries |-> [c[q] EXCEPT !.rows =
     [i \in DOMAIN c[q].rows |->
        IF c[q].rows[i].id = l THEN [c[q].rows[i] EXCEPT !.saved = to] ELSE c[q].rows[i]]]]

\* onMutate: what is being loaded is dropped, the lists are kept as they are
\* and the heart changes.  The request leaves.
SlipStart(m, l, to) ==
  /\ m = NextSlot /\ Count("toggles")
  /\ muts' = [n \in Slots |->
       IF n = m THEN [state |-> "sent", id |-> l, to |-> to, from |-> page, before |-> cache,
                      crossed |-> Busy, edited |-> Editing]
       ELSE [muts[n] EXCEPT !.crossed = muts[n].state # "idle"]]
  /\ cache' = WithSaved(cache, l, to)
  /\ UNCHANGED <<server, page, fetch, edit>>

Start(m, l, to) ==
  /\ m = NextSlot /\ Count("toggles")
  /\ muts' = [n \in Slots |->
       IF n = m THEN [state |-> "sent", id |-> l, to |-> to, from |-> page, before |-> cache,
                      crossed |-> Busy, edited |-> Editing]
       ELSE [muts[n] EXCEPT !.crossed = muts[n].state # "idle"]]
  /\ fetch' = [q \in Queries |-> NoFetch]
  /\ cache' = WithSaved(cache, l, to)
  /\ UNCHANGED <<server, page, edit>>

\* A heart on screen is pressed.
Toggle(m) ==
  /\ \E row \in CardHearts \cup DetailHeart : Start(m, row.id, ~row.saved)
  /\ UNCHANGED undo

\* "Annulla" in the message of a favourite removed, on whatever page.
Undo(m, l) ==
  /\ l \in undo
  /\ undo' = undo \ {l}
  /\ Start(m, l, TRUE)

Apply(m) ==
  /\ muts[m].state = "sent" /\ (muts[m].to => Exists(muts[m].id))
  /\ muts' = [muts EXCEPT ![m].state = "applied"]
  /\ savedAt' = [savedAt EXCEPT ![muts[m].id] =
       IF ~muts[m].to THEN 0 ELSE IF @ # 0 THEN @ ELSE 1 + Max({savedAt[l] : l \in Listings})]
  /\ UNCHANGED <<status, page, cache, fetch, edit, undo, used>>

\* Two changes of one listing have crossed: which came last is the server's.
Disputed(m) == \E n \in Slots \ {m} : muts[n].state # "idle" /\ muts[n].id = muts[m].id

\* The answer comes: only the favourites are loaded again.
Accepted(m) ==
  /\ muts[m].state = "applied"
  /\ muts' = [n \in Slots |-> IF n = m THEN NoMut ELSE muts[n]]
  /\ Invalidate({"saved"}, [q \in Queries |-> [cache[q] EXCEPT !.unsure = @ \/ Disputed(m)]])
  /\ undo' = IF muts[m].from = "favourites" /\ page = "favourites" /\ ~muts[m].to
             THEN undo \cup {muts[m].id} ELSE undo
  /\ UNCHANGED <<server, page, edit, used>>

\* onError: every list goes back to what it was when the change was made, and
\* counts as fresh.
PutBack(m) ==
  [q \in Queries |->
     LET old == muts[m].before[q] IN
     IF old.count = 0 THEN [cache[q] EXCEPT !.unsure = @ \/ HasData(q)]
     ELSE [old EXCEPT !.stale = FALSE, !.error = FALSE,
                      !.behind = @ \/ old.stale \/ cache[q].stale \/ muts[m].edited,
                      !.unsure = @ \/ muts[m].crossed \/ muts[m].state = "applied"]]

\* An error instead: the request was refused or lost, or its answer was.
Refused(m) ==
  /\ muts[m].state # "idle" /\ Count("errors")
  /\ muts' = [n \in Slots |-> IF n = m THEN NoMut ELSE muts[n]]
  /\ Invalidate({"saved"}, PutBack(m))
  /\ UNCHANGED <<server, page, edit, undo>>

-----------------------------------------------------------------------------
(* The edits of one's own listings, from their page.                       *)

StartEdit ==
  /\ Mounted("mine") /\ Screen("mine") = "rows" /\ ~Editing /\ Count("edits")
  /\ \E i \in DOMAIN cache["mine"].rows, delete \in BOOLEAN :
       LET row == cache["mine"].rows[i] IN
       edit' = [what |-> IF delete THEN "delete" ELSE IF row.on THEN "hide" ELSE "show",
                id |-> row.id, applied |-> FALSE]
  /\ muts' = [m \in Slots |-> [muts[m] EXCEPT !.edited = muts[m].state # "idle"]]
  /\ UNCHANGED <<server, page, cache, fetch, undo>>

SlipApplyEdit ==
  /\ Editing /\ ~edit.applied /\ Exists(edit.id)
  /\ edit' = [edit EXCEPT !.applied = TRUE]
  /\ status' = [status EXCEPT ![edit.id] = edit.what]
  /\ savedAt' = IF edit.what = "delete" THEN [savedAt EXCEPT ![edit.id] = 0] ELSE savedAt
  /\ UNCHANGED <<page, cache, fetch, muts, undo, used>>

ApplyEdit ==
  /\ Editing /\ ~edit.applied /\ Exists(edit.id)
  /\ edit' = [edit EXCEPT !.applied = TRUE]
  /\ status' = [status EXCEPT ![edit.id] =
       IF edit.what = "delete" THEN "gone" ELSE IF edit.what = "show" THEN "on" ELSE "off"]
  /\ savedAt' = IF edit.what = "delete" THEN [savedAt EXCEPT ![edit.id] = 0] ELSE savedAt
  /\ UNCHANGED <<page, cache, fetch, muts, undo, used>>

\* Done: the page of a deleted listing is forgotten and every list loads again.
EditDone ==
  /\ edit.applied
  /\ edit' = NoEdit
  /\ UNCHANGED <<server, page, muts, undo, used>>
  /\ Invalidate(Queries, IF edit.what = "delete" /\ edit.id = Opened
                         THEN [cache EXCEPT !["detail"] = NoData] ELSE cache)

\* The error leaves the lists as they are, also when only the answer was lost.
EditFails ==
  /\ Editing /\ Count("errors")
  /\ cache' = [q \in Queries |-> [cache[q] EXCEPT !.behind = @ \/ edit.applied]]
  /\ fetch' = [q \in Queries |-> [fetch[q] EXCEPT !.behind = Fetching(q) /\ (@ \/ edit.applied)]]
  /\ edit' = NoEdit
  /\ UNCHANGED <<server, page, muts, undo>>

-----------------------------------------------------------------------------
Init ==
  /\ status = [l \in Listings |-> "on"]
  /\ savedAt = [l \in Listings |-> IF l = Opened THEN 1 ELSE 0]
  /\ page = "search"
  /\ cache = [q \in Queries |-> NoData]
  /\ muts = [m \in Slots |-> NoMut]
  /\ fetch = [q \in Queries |-> IF q = "latest" THEN LoadAll(q) ELSE NoFetch]
  /\ edit = NoEdit
  /\ undo = {}
  /\ used = [toggles |-> 0, edits |-> 0, visits |-> 0, errors |-> 0]

Next ==
  \/ \E p \in Pages : Open(p)
  \/ \E q \in Queries : LoadNext(q) \/ Retry(q) \/ ReadPage(q) \/ Deliver(q) \/ FetchFails(q)
  \/ \E m \in Slots, l \in Listings : Undo(m, l)
  \/ \E m \in Slots : Toggle(m) \/ Apply(m) \/ Accepted(m) \/ Refused(m)
  \/ StartEdit \/ ApplyEdit \/ EditDone \/ EditFails

Spec == Init /\ [][Next]_vars

-----------------------------------------------------------------------------
(* Properties.                                                             *)

\* Every variable keeps the shape the code gives it.
TypeOK ==
  /\ status \in [Listings -> {"on", "off", "gone"}]
  /\ savedAt \in [Listings -> 0 .. MaxToggles + 1]
  /\ page \in Pages
  /\ cache \in [Queries -> Query] /\ fetch \in [Queries -> Fetch]
  /\ muts \in [Slots -> Mut] /\ edit \in Edit
  /\ undo \subseteq Listings
  /\ used \in [toggles : 0 .. MaxToggles, edits : 0 .. MaxEdits,
              visits : 0 .. MaxVisits, errors : 0 .. MaxErrors]

AtRest(q) == HasData(q) /\ ~Fetching(q) /\ ~Busy /\ ~Editing

\* useSetListingSaved: when no change is on its way, every heart the cache holds
\* is the server's, but where two changes crossed, a change was answered with
\* an error although the server had made it, or the list was being read while
\* a change was on its way.
HeartsExplained ==
  \A q \in Queries \ {"mine"} :
    AtRest(q) /\ ~cache[q].unsure
      => \A i \in DOMAIN cache[q].rows :
           LET row == cache[q].rows[i] IN
           Exists(row.id) => row.saved = (savedAt[row.id] # 0)

\* invalidateQueries and the cursors: a list read to its end, not marked for
\* another load and whose loads were not overtaken by an edit holds exactly the
\* listings it is about, in the server's order, none twice and none missing.
ListsWhole ==
  \A q \in Queries :
    LET c == cache[q] IN
    AtRest(q) /\ c.next = 0 /\ ~c.stale /\ ~c.behind
      => [i \in DOMAIN c.rows |-> c.rows[i].id] = After(q, 0)
=============================================================================
