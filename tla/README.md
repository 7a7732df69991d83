# RoomDate: specifications, model checking and proofs

RoomDate is a site for finding rooms and roommates: a Go API over PostgreSQL, a
React client, an S3 bucket for the photos, a hosted real-time service and Web
Push for notices, and a chat whose messages are encrypted in the browser. There
is no queue and no background worker. What makes the system hard is that almost
every request is a chain of statements, each of which sees the database as it
is at that moment: requests of the same user interleave statement by statement,
a request dies with its connection at any point, and what lies outside the
database (the bucket, the real-time service, the browsers) is in no transaction.

Paths below are relative to the repository.

## 1. Inventory

| Component | State | Operations | Hard behaviour |
|---|---|---|---|
| Accounts (`internal/users`, `internal/auth`) | `users` row: hash, derivation parameters, wrapped private key ("vault"), recovery code and copy; `sessions` | register, sign-in with re-hash, upgrade of the derivation method, password change, recovery in two calls, delete, session list, suspension | every request reads, verifies and writes in separate statements |
| Sending and reading (`internal/chat`) | `messages`, `message_keys`, `last_read_at` | `SendMessage`, `MarkRead`, announcements | repetition under an advisory lock; announcements after the commit; blocks and deletions in between |
| Conversations (`internal/chat`) | `conversations`, `conversation_participants` | start by listing or directly, delete with the last participant | two starts at once; deletion of both users at once |
| Listings and photos (`internal/listings`, `internal/storage`) | `listings`, `listing_images`, the bucket | create, edit, signed upload, confirmation, deletions | rows and objects change in no common transaction |
| Moderation (`internal/moderation`) | `reports`, suspension, removal, `blocks` | report, decide, undo, purge, block | decisions on a report read earlier, deletions that turn one report into another |
| Push and real time (`internal/push`, `internal/webpush`, `internal/realtime`) | `push_subscriptions` | subscribe, notify, authorise a channel | errors and expired endpoints, delivery never promised |
| Throttle and security events (`internal/auth/password.go`, `store.go`) | `security_events` | delay after failures | the count is read before the attempt is written |
| Outbox (`src/chat/useOutbox.ts`) | messages not yet saved, deliveries under way | enqueue, deliver, retry, online, discard, reconcile | lost answers, late posts, refusals, leaving the page |
| Thread (`src/api/hooks.ts`, `src/chat/useChatRealtime.ts`) | cached pages of messages, fetches under way | load, load older, pull the latest page, add the sent message | loads that replace data changed meanwhile |
| Unread counts (`src/pages/Chat.tsx`, `src/api/hooks.ts`, `src/realtime`) | cached conversation, list and badge, marks and notices under way, the channel | read, invalidate, mark, connect, join, poll | answers that come after newer ones, notices never promised |
| Keys in the browser (`src/auth`) | encrypted key in localStorage, open key in IndexedDB and in memory, the cookie, who each tab shows as signed in | sign-in, registration, password change, recovery code, unlocking, sign-out, deletion, expiry | steps of two operations or two tabs cross; cleaning up is not awaited, and a write the browser refuses is passed over |
| Listings as pages show them (`src/api/hooks.ts`, search, favourites, own listings) | cached pages of four queries, changes under way | open, page on, retry, press a heart, undo, withdraw, publish, delete | optimistic changes and their rollback, cursors over rows that change |
| Forms that save (`src/pages/account`, `src/forms`) | the address with its history, the form, cached documents, saves and uploads | type, go through the steps, save, publish, delete, upload photos, leave | answers that find another address, saves repeated, the question before leaving, a session or a listing that goes meanwhile |
| Profiles, compatibility, export, server, migrations, public pages, layout, service worker | rows and caches read or written by one statement | | see "Not modelled" |

Interactions: the client's outbox posts to the sending of messages, which
announces over real time and push, which makes the other client's thread pull
and its counters be read again; the open page marks what it shows.
The deletion of an account goes through sessions, participations, keys,
listings and photos. Moderation closes sessions, conversations and listings.
`PROJECT.json` lists each component with its sources and what is modelled of
it, and every hazard with its line and the properties that watch over it.

What makes each component correct, in one line: the account opens with the
typed password and opens the chat key, and closed sessions stay closed; a
message is stored once, readable by everybody in the conversation, and never
after a block; a listed photo exists and every stored object has someone to
answer for it; what the outbox shows is what is happening; and the thread shows
every message in the end, without holes; the counters agree with the server; and
a decision of a moderator stands and covers all that was known; the server keeps
of each account its own key, and a browser the keys of who uses it; a list shows
what the server has, each row once, with its heart as it is; and a form makes one
draft, and drops unsaved text without asking only where section 4 says.

## 2. Modules

| Module | Models | Kind |
|---|---|---|
| `Accounts` | `users`, `auth`: one action per statement of each request | specification |
| `MessageLog` | what the server promises about one conversation | abstract specification |
| `Messages` | `SendMessage`, `MarkRead` and what happens around them; `Log` is its refinement mapping to `MessageLog` | specification |
| `Photos` | photos of a listing between database and bucket | specification |
| `Outbox` | the outbox of a page; its server is built on `MessageLog` | specification |
| `Thread` | the query of the open conversation | specification |
| `Reading` | unread counts: server, queries of the page, marks, notices, channel | specification |
| `Moderation` | reports, decisions of administrators, owners and deletions in between | specification |
| `Device` | accounts and keys as the tabs of one browser hold them | specification |
| `Lists` | the cached lists of listings, hearts and edits | specification |
| `Editor` | the forms that save, with their addresses and photos | specification |
| `AccountsProofs`, `MessagesProofs`, `PhotosProofs`, `ModerationProofs`, `DeviceProofs`, `EditorProofs`, `ListsProofs` | theorems on the module each is named after | proofs |
| `ChatProofs` | theorems on `Outbox`, `Thread` and `Reading` | proofs |
| `MCAccounts`, `MCMessages`, ... | values of constants, symmetries and bounds for TLC | instances |

In every module an operator introduced by "Slip" is the one below it with a
plausible mistake in it; no specification uses it, and `PROJECT.json` says which
property notices it.

### Accounts

`row[u]` is the row of `users`: `None` before the registration, `Deleted` after
the deletion. A password with derivation parameters is a *credential*: what the
server hashes and what wraps the vault both come from it, so `hash` and `vault`
hold the credential itself and encryption is ideal. `session[s]` is a row of
`sessions`; `proof` (the password the session last proved) and `late` are
history. `request[r]` is what a handler has read so far, and its `stage` the
statement it runs next. Authentication (`FromRequest`), the read of the account
with its checks, the write and the revocation are one action each, in the order
of the handlers (`users/service.go`, `recovery.go`, `handlers.go`,
`auth/auth.go`). `Abort` ends a request between any two of them, which is what a
cancelled context, a failed statement or a dead process does.

Two variables record the exceptions in the properties: `exposed` has the users
whose password changed without closing the sessions (the request died in
between, or another request overwrote the hash), `overwritten` those whose hash
a re-hash replaced with an older one.

Abstractions: the insertion of a session and the sweep of the lapsed ones that
follows are one step. `TouchSession` only delays `Lapse`, which may happen at
any time. Email, names and the public key are left out, and so is the throttle.

### Messages and MessageLog

One conversation of two users. A send goes through the stages of `SendMessage`:
membership, participants with the test of suspension and keys, blocks, `BEGIN`
(whose `now()` dates the message), the advisory lock (a FIFO queue), the search
for the same message within a day, the insertion with its keys, the commit, and
the announcements, one channel at a time, each of which the service may refuse.
`Delete` is `users.Store.Delete` seen from the conversation: foreign keys make
an insertion under way fail. Instants are numbered in the order transactions
begin; days are apart, for the window of repetition.

`MessageLog` has only the log, the announcements owed and those made, and says
that a text is never posted again within a day and never announced twice, and
that a lost announcement is never made up. `LogKept` is the refinement.

### Photos

One listing. Object keys are triples of place (`pending`, `final`), name and
size. The actions are the calls to the bucket and the statements of
`PrepareUpload`, `ConfirmUpload` (with `confirmVariants` and `AddImage`),
`DeleteImage` and `Delete`; a `Move` is a copy and then a deletion, as in
`storage/s3.go`. `lock` is the row lock on the listing. `upload` abstracts the
signed addresses, `bad` the files that are not images. The two widths of the
small versions are one. `Insert` ends in a commit that may be applied and yet be
reported as failed (`listings/store.go:342`): `ConfirmUpload` then deletes the
objects of the photo (`service.go:664-671`), which is listed by now (`unsure`).
`FailToAdd` is the insertion, or its commit, that fails and leaves nothing.
`lost`, `raced`, `copies` and `unsure` are history, and name the exceptions that
the properties admit; `lost` takes in only objects that are in the bucket.

### Outbox

`item`, `delivery` (the `inFlight` set with where the delivery is), and `posts`,
the attempts that travel: a post the browser gave up may still be handled by the
server, after any later one. `deliver` is cut at its awaits: up to the first
(`Deliver`), after the encryption (`Encrypt`), after the answer (`Answer`,
`Lose`). `Fetch` brings messages of the server to the page and runs `reconcile`.
The server here is the promise of `MessageLog` behind two switches, the session
and whether the conversation takes messages. An expired session takes the page
away in the step that answers it.

### Thread

Messages are numbered by their date, which the server gives when the transaction
that saves them begins (`chat/store.go:339-345`): `Arrive` and `Send` date one,
`Commit` makes it visible, in any order, and `SendAnswered` is the `onSuccess` of
`useSendMessage`. So a message may come to light below others that are shown
(`late`). The data are the set `shown` with the cursor `low` of the last page.

`load` is the query's fetch. It reads page after page (`LoadRead`), each below the
cursor of the one before, as the server has them at that moment; `left` says how
many are still to be read, `at` what was there when it began. Its result
replaces the data. That, the cancelling of a fetch by another and the fact that
an invalidation joins a first load are the behaviour of TanStack Query, modelled
from how `api/hooks.ts` relies on it, and marked external in the map. `Pull` is
`pullLatestMessages` on any of its occasions (notice, reconnection, visibility,
polling). That one message may be in two of the pages is left out: `shown` is a
set.

### Reading

What is unread in one conversation: `sent` and `read` on the server, and `data`,
`fetch` and `stale` of the queries that show it. The conversation and the list
hold the unread number and the last message, the badge only whether there is
anything. `Invalidate` is `invalidateConversations`: mounted queries with data
are cancelled and read again, a first load goes on. `Unread` is what the effect
of `Chat` has to mark given all its dependencies; a run of the effect that marks
nothing changes nothing, so `acted` remembers only what was marked. `MarkDone`
writes zero into what is loaded, except the badge, and invalidates. The channel
is joined (`Subscribe`, after the signature of `AuthorizeChannel`) some time
after the connection is there (`Connect`, when the page reads everything
again). `missed` names what nobody told a query, until it is read again. The
list alone, without an open conversation, is a query that is mounted or not like
that of the conversation.

### Moderation

`user`, `listing` and `report` are the rows the decisions touch. A report by a
user runs through naming the target, counting the day's reports and inserting
under the partial unique index; a decision through the test of the
administrator, the read of the open report with its conditions, and one
transaction (`Store.Resolve`) that changes the user or the listing and closes
every open report about them. The owner's publishing and withdrawing read the
listing and write it in two statements. `DeleteListing` is the cascade that
detaches the reports of the listing, which the unique index may refuse;
`DeleteAccount` the one that removes reports about the user. `Purge` is the
deletion of old closed reports when the list is opened; `SetAdmin` the command
line. `late`, `promoted` and `republished` are history. A suspension also closes
sessions: that is in `Accounts`. What blocks do to a conversation is in
`Messages`.

### Device

Several users share a browser with several tabs. `pw[u]` is the number of an
account's password on the server (the n-th it has had), `vaultOf` and `copy` its
encrypted key and the copy for the recovery code, `sessions` and `cookie` who is
signed in. In the browser `vault` is the encrypted key in localStorage, `idb`
the open one in IndexedDB, `mem` the one each tab remembers, `queue` the writes
`keyStorage.ts` has put in line for IndexedDB. `shown` is what `AuthProvider`
believes, `asking` its request for the session.

What a user asks for is a *task*, and two may be under way at once, in one tab
or two. Its `step` says which await it is at: `typed` (a password is to open the
vault), `ready` (the request leaves), `done` or `denied` (the server has
answered), `opening` and `saving` (the key is derived, opened and written). So
`login` of `AuthProvider` and `accountKeys.ts` is `AskLogin`, `ServeLogin`,
`LoggedIn`, `StoreAtLogin` and `Enter`, with `Flush` for IndexedDB. `register`
shows its code and goes on as a sign-in; `preparePasswordChange` and
`setupRecoveryKey` both begin with `ReadVault`. `endLocalSession`, on signing
out, deleting the account or a 401 met by the chat, is `Clear`. `Recover` may
also happen on another device.

Encryption is ideal: a wrapped key opens with the one password it was wrapped
with. Two users with the same password are therefore left out. The upgrade of
an account from before is in `Accounts`. A user who leaves the page while a code
is being made counts as never shown it (`unseen`); `out` marks that someone signed
out and nobody has signed in since, and `stray` that something came between a
task and what it leaves on the device: another task that writes to it
(`Crossed`), a reading of the key that began before somebody signed in or out
(`Reading`), an unlocking in a tab that shows a user who is no longer the one
signed in (`Stale`), or a page closed before its writes.

The browser may refuse to write: `keyStorage.ts` swallows the error, in
localStorage (36-43) and in IndexedDB (72-91), and goes on as if it had written.
`Refuses` and `Allows` say which of the two takes no writes for now (`down`);
every write goes through `Written`, and `behind` remembers which of the two did
not take its last one. A read that fails finds nothing, which is what an empty
storage does too. A transaction of IndexedDB that neither ends nor fails is left
out.

### Lists

Four queries of one TanStack Query cache: search results, favourites, the own
listings, the page of one listing. `PageOf` is the server's keyset paging (rows
after a cursor and the cursor of the next page), with the orders of search
(newest first) and favourites (last saved first). `fetch` is what a query is
loading: all its pages again from the first, or one more. `Start` is `onMutate`
of `useSetListingSaved` (cancel what is loading, remember every list, change the
heart everywhere), `Apply` the server, `Accepted` and `Refused` the callbacks,
with `PutBack` for the rollback and `Undo` for "Annulla". `StartEdit` to
`EditFails` are the change of status and the deletion of an own listing.
Cancelling, joining and replacing of loads are the behaviour of the library,
external in the map. `behind` (rows may miss an edit) and `unsure` (a heart may
differ) are history, and name the exceptions of the properties. The load of the
favourites that the answer to a heart starts is `unsure` only if another change
is still on its way: with no other, `HeartsExplained` covers what it brings.
`After` is the server's answer as the one sequence of the right listings in
which the key of the order grows. A query out of
sight keeps its data for as long as the page lives.

### Editor

One tab. `trail` and `here` are its history of addresses; that of the creation
carries the step and the draft (`?passo`, `?annuncio`). It begins outside
these pages, or at the creation. What the fields hold is
one number, new each time the user types, and 0 is a form that does not pass its
checks. `rows` are the documents on the server (0 is the profile), `cache` what
the tab has read. A save has three steps: `Send` (`SaveDraft`, `SaveListing`,
`SaveProfile`), `Serve`, and its answer: `DraftSaved`, `FormSaved`, `Refused` or
`SaveLost`; `here` in it says whether the page that sent it is still there.
`Settle` is the effect that fills a form from its document, once. `Guarded` is
what each page passes to `useLeaveGuard`; where it holds, an action that leaves
stands for the user who confirms, and the one who stays is a stutter, but for
`Delete`, where staying leads to a page with nothing to show, and `SignOut`:
the header goes home and signs out without waiting for the answer
(`SiteHeader.tsx:62-66`), so the session ends (`SignedOut`) whatever it is, and
`leaving` is the time in between. `Expire` is any call of the site that is told
there is no session (`queryClient.ts:28-32`). Either way `ProtectedRoute` takes
the page away (`SessionOver`). `Moderate` removes a listing or restores it; a
page that reads its listing again and finds it removed says so in place of the
form (`EditRemoved`). `Pick`, `UploadOne` and `DropPhoto` are `ListingPhotos`.

One save and one upload at a time: the buttons are disabled meanwhile, and after
leaving and coming back two at once are left out. So is another person signing in,
here or in another tab, while a form is open. A read of a document is one
step. The user offers rooms; the server's refusal for who does not is one of the
refusals of a save.

## 3. Runs

| Run | Question | Bounds |
|---|---|---|
| `accounts` | are credentials whole, keys recoverable, sessions closed, under any interleaving? | 1 user (new, old with or without keys, bcrypt or not), 2 passwords, 1 salt, 1 code, 2 sessions, 2 requests, `Bounds` |
| `accounts_rehash` | refutes "the password is never changed without its key" | the same, no `Bounds` |
| `messages` | does the server keep `MessageLog`, readability, closures, reads? | 2 users, 1 text sent any number of times, 2 requests, 3 instants, 2 days |
| `messages_end` | does every send end, whoever dies holding the lock? | 2 users writing one text each, 2 requests, 2 instants, 1 day |
| `photos` | are listed photos stored, the limit kept, stray objects accounted for? | 2 photos, limit 1, 2 requests |
| `outbox` | is the outbox honest, free of loss, and does it always end? | 2 messages posted 3 and 1 times, 2 encryptions each, 2 days |
| `thread` | are holes, disappearances and catching up as intended? | pages of 2, 4 messages, 1 own, 2 pulls at a time |
| `reading` | do the counters agree with the server, and does who looks read to the end? | the conversation and the badge, 2 messages, 2 marks, 3 requests under way |
| `moderation` | do decisions hold and cover all that is known, whoever acts in between? | 2 users, 1 listing, 2 reports at once, 2 requests, 1 report a day, 2 days, `Bounds` |
| `device` | does the server keep each account's own key, the device those of who uses it, and is the code shown? | 2 users (one registers), 2 tabs, 3 tasks, 2 at once, 2 passwords each, 2 sessions, 1 mishap (an answer lost, a reload, a store that refuses its writes, a session ended from elsewhere) |
| `lists` | are lists whole and in order, and hearts as the server has them? | 2 listings, 1 own, pages of 1, 2 hearts pressed, 1 edit, 2 pages opened, 1 error |
| `editor` | is one draft made, and is text only dropped when asked? | 3 documents besides the profile, 2 made here, 1 photo each, 2 texts, 4 addresses, 1 failure, sign-out, expiry or removal |

Why the bounds are enough. The races of accounts, sends and confirmations are
between two requests on the same row: a third request would overlap two of
them but read and write the same fields, and for accounts the proofs cover any
number. Users share no state, so one is enough (the sweep of lapsed sessions of
others is the one exception, and its effect, a lapsed session vanishing, is in
`StartSession` for the user's own). `Bounds` of `MCAccounts` removes pairs of
requests that the proofs cover anyway: on an account with no chat key or with
an overwritten hash there is one request at a time, there is one call of the
session list at a time, and one session has lapsed. In `Messages` three
instants let a reading fall before, between and after two sends (`MaxNow` is
reserved when a send starts, so that no request gets stuck at the bound), and
two days let one retry fall outside the window. In `Photos` a limit of one
makes every second photo a photo too many. In `Outbox` `MaxPosts` admits the
lost answer, the refusal and the repetition after both; `MaxMade` lets a refused
message be encrypted anew once; when it is reached the encryption fails, which
it may anyway. In `Thread` four messages in pages of two give a second page, a
latest page with nothing in common with what is shown, and a message saved
below either; one of the user's own may be any of the four; `MaxPulls` two lets
a pull end out of order. In `Reading` two messages let the
second come while the mark of the first travels; a third request under way makes
a mark overlap reads of both queries. In `Moderation` two reports are what the unique index, the
limit and "closes every report about it" need; `Bounds` of `MCModeration` makes
one of the users the reporter, lets requests to undo or publish overlap
decisions only (they share no row with a report being sent except through
them), and after an account is deleted or on the second day allows one request
at a time. In `Device` two tasks cross in one tab or between two, and a third
finds what they leave; two users make every wrong owner visible, and each may
have a password that is no longer theirs. In `Lists` pages of one row make two
listings two pages, so that an edit falls between them; two hearts cross, and a
failure rolls one back over the other. In `Editor` four addresses go through the
creation to its last step, or back from the third to before the draft and on to
a second one. With a limit of one photo the second file picked is the one too
many; that a refused photo does not stop those after it takes a larger limit.

Deadlock is not checked: in every module all requests may be over and no user
need act, and the bounded counters stop.

Symmetry is used on interchangeable names (passwords, salts, sessions,
requests, photos, tabs) and never in a run with a liveness property.

Each property of each passing run has in `PROJECT.json` a mutant: one of the
operators introduced by "Slip", that breaks it.

### Fairness

* `messages_end`: weak fairness of each request's next statement. A handler
  that has begun runs on; PostgreSQL grants the advisory lock in order.
  Nothing obliges a user to do anything, nor a request to die.
* `outbox`: weak fairness of the encryption and of "the post ends, with an answer
  or without": browsers settle every `fetch`. The server is not assumed to
  answer, and `networkMode: 'always'` is why a post without a network fails
  instead of waiting.
* `thread`: weak fairness of `Pull` (the five-second polling without a
  connection) and of its request. Of the loads and of the ends of pulls, that
  if there is one again and again, one ends well again and again: a pull
  cancels and restarts a load it meets, so a load that takes longer than the
  interval every time would never end, and neither would one that fails every
  time; the model assumes that it is not so for ever.

## 4. Where the code and its comments disagree

One run states what a comment says and finds it violated. `accounts_rehash`
(`users/store.go:159`): a sign-in that has verified a bcrypt hash and then
re-hashes it overwrites whatever hash is there. After a password change in
between, the account has the old secret with the new parameters and key. Only
accounts that still have a bcrypt hash are concerned:
`AccountsOpenWithoutBcrypt` proves it.

The passing properties name such exceptions, and within the models there are no
others:
`CredentialsAgree` excepts `overwritten`, `OnlyLateSessionsSurvive` the sign-ins
overtaken by a change (`late`), `ListedPhotosStored` a photo copied twice and one
whose commit was applied and seen as failed (`unsure`), `StraysExplained` what a
failure or a race left, `DuplicatesWereRefused` the refused text,
`HolesExplained` a message saved after one dated later (`late`) and what is
below an own message shown before those that precede it (`alone`),
`DeviceIsTheirs` operations that crossed and a store that did not take its last
write (`behind`), `HeartsExplained` and `ListsWhole` changes that crossed or
overtook a load, `OneDraft` and `TextKept` what their comments list.

Two of these lists were completed by the proofs, which failed on behaviours
longer than TLC's bounds allow. A key read from IndexedDB before somebody signs
in in another tab, or an unlocking in a tab that has not noticed, leaves a key
that is not of who is signed in (`DeviceIsTheirs`; both are in `stray` now). The
browser's buttons can take a creation from the address of one draft to that of
another with text not saved, and no question is asked, since the path of the
address is the same (`TextKept`; seven moves).

The others, which the models contain and which have no run of their own:

On the server

* `AddImage` returns the error of its commit (`listings/store.go:342`) to
  `ConfirmUpload`, which takes it for a photo that was not added and deletes its
  objects (`listings/service.go:664-671`); a commit can be applied and its answer
  lost, and then the listing shows a photo that is not there (`unsure` of
  `ListedPhotosStored`);
* a retry whose first request died after the commit is announced to nobody,
  though `chat/service.go:442` says the others were told the first time (in
  `Messages` an announcement may be lost, and `LogKept` says that it is never
  made up);
* a photo confirmed between the two statements of the deletion of a listing stays
  in the bucket (`listings/store.go:265`; the race `raced` of
  `StraysExplained`);
* a message is dated when its transaction begins and seen when it commits, so one
  that began before a reading and committed after it is never counted as unread
  (`chat/store.go:390-397`). The window is the length of a transaction;
* deleting a listing turns its open reports into reports of its owner, and if a
  reporter has one of those open already the unique index refuses the deletion
  (`db/migrations/00011_moderation.sql:51`, with the foreign key of
  `reports.listing_id`), though the migration, the service and the page
  (`src/pages/Moderation.tsx:103`) all say that the owner can delete it.

In the chat

* a refusal after a stored but unanswered attempt drops the ciphertext
  (`useOutbox.ts:103`), so that the next retry is a second message, though the
  README (line 237) says that the API recognises a retry;
* the page reads everything again when the connection is back, and joins its
  channel afterwards (`RealtimeProvider.tsx:75`): a message in between is neither
  read nor announced, and polling has stopped;
* the user's own new message makes a pull take the latest page for known, and
  what lies below it stays missing (`hooks.ts:343`, the exception of
  `HolesExplained`), and so does what was saved after a message dated later, when
  the latest page no longer reaches down to it: two sends whose transactions
  overlap are enough (`chat/store.go:339-345`, `late`);
* a load that read the server before a send was stored and ends after its answer
  takes the message off the page (`hooks.ts:361`; one of the loads of
  `VanishOnlyByLoad`);
* the badge is not read again when the tab comes back to the foreground outside
  the chat, though `hooks.ts:264` says so (`refetchOnWindowFocus` is off, and
  `Show` of `Reading` does nothing then);
* a mark reads everything up to its instant, also a message that the page has
  not loaded yet, though `Chat.tsx:143` speaks of messages that can really be
  read (`MarkHandled`).

In the pages

* the private key is cleared on the way out (`auth/keyStorage.ts:5-6`), but
  another tab, or a sign-in or a reading of the key that crosses, may put it
  back, and a page closed before IndexedDB is written leaves it there (`stray`
  of `DeviceIsTheirs`); a deletion that fails is passed over without a word
  (`keyStorage.ts:40-42`, `87-90`), and the key stays on the device of who signed
  out (`behind`);
* "Annulla" in the message of a favourite removed (`Favorites.tsx:28-31`) may be
  pressed once another page is open: it cancels that page's first load, and the
  page stays with its skeleton and nothing loading, though
  `api/prefetch.ts:10-12` relies on the request being under way;
* a creation makes a second draft when its second step is saved after going back
  to an address without a draft, or before the draft is read, or after an answer
  was lost (`NewListing.tsx:127-134`, the exception of `OneDraft`);
* changes made to the fields once the draft exists are dropped on leaving without
  a question, though `NewListing.tsx:103` says that the draft is safe by then, and
  `useLeaveGuard.ts:6` that unsaved changes raise one;
* what is typed while a save is under way is overwritten by its answer, and a
  failed reading of the document takes the whole form off the page with its text,
  as does one that finds the listing removed by the moderation
  (`EditListing.tsx:136-140`);
* signing out from the header raises the question about unsaved text and does not
  wait for what is answered, and any call told that the session is over drops
  the text without a question (these too are exceptions of `TextKept`);
* deleting a listing with unsaved changes raises the question about leaving, and
  who stays has a page that never loads (`EditListing.tsx:62-64`, `Delete`);
* the answer to a draft saved after leaving the page changes the parameters of
  whatever page is there (`Go`).

## 5. Proofs

Each module of proofs proves its theorems for all values of the constants, under
the one assumption its specification names (`AccountsAssumption`,
`MessagesAssumption`, ...): bounds are natural numbers, and values that mean
"none" are no one's. Every invariant that a passing run checks has its theorem,
and so have three action properties and the refinement. (`Outbox`, `Thread` and
`Reading` share a module of proofs, so the names of their initial states, type
invariants and specifications carry the name of the module.)

| Module | Theorem | States |
|---|---|---|
| `AccountsProofs` | `Typing` | `Spec => []TypeOK` |
| | `CredentialsBelongTogether` | `Spec => []CredentialsAgree` |
| | `RecoveryKeepsTheKey` | `Spec => []RecoveryRestoresKey` |
| | `RevocationsReachSessions` | `Spec => []OnlyLateSessionsSurvive` |
| | `VaultsArePermanent` | `Spec => VaultPermanent` |
| | `SignInsUnlock` | `Spec => []SignInUnlocks` |
| | `SessionsBelongToAccounts` | `Spec => []SessionsHaveOwners` |
| | `AccountsOpenWithoutBcrypt` | with no bcrypt hash, `Spec => []AccountOpens` |
| `MessagesProofs` | `MessagesTyping` | `Spec => []TypeOK` |
| | `MessagesReadable` | `Spec => []EveryoneCanRead` |
| | `ClosedStaysClosed` | `Spec => []ClosedSendsRefused` |
| | `ReadNeverUnread` | `Spec => []ReadStaysRead` |
| | `PromiseKept` | `Spec => LogKept`: `Messages` implements `MessageLog` |
| `PhotosProofs` | `PhotosTyping` | `Spec => []TypeOK` |
| | `LimitKept` | `Spec => []WithinLimit` |
| | `ListedPhotosShown` | `Spec => []ListedPhotosStored` |
| | `StraysAccountedFor` | `Spec => []StraysExplained` |
| `ChatProofs` | `OutboxTyping` | `OutboxSpec => []OutboxTypeOK` |
| | `StatusesHonest` | `OutboxSpec => []StatusHonest` |
| | `DuplicatesHadRefusals` | `OutboxSpec => []DuplicatesWereRefused` |
| | `ThreadTyping` | `ThreadSpec => []ThreadTypeOK` |
| | `HolesAccountedFor` | `ThreadSpec => []HolesExplained` |
| | `VanishingExplained` | `ThreadSpec => VanishOnlyByLoad` |
| | `ReadingTyping` | `ReadingSpec => []ReadingTypeOK` |
| | `CountersCatchUp` | `ReadingSpec => []CountersAgree` |
| | `LookersHaveRead` | `ReadingSpec => []LookingReads` |
| `ModerationProofs` | `ModerationTyping` | `Spec => []TypeOK` |
| | `ReportsAwaitDecision` | `Spec => []ReportsStand` |
| | `AdministratorsSpared` | `Spec => []AdminsSpared` |
| | `RemovedListingsHidden` | `Spec => []RemovedWithdrawn` |
| `DeviceProofs` | `DeviceTyping` | `Spec => []TypeOK` |
| | `KeysNeverStray` | `Spec => []KeysStayHome` |
| | `CodesReachTheirUsers` | `Spec => []CodesShown` |
| | `DevicesAreTheirs` | `Spec => []DeviceIsTheirs` |
| `EditorProofs` | `EditorTyping` | `Spec => []TypeOK` |
| | `OneCreationOneDraft` | `Spec => []OneDraft` |
| | `NoTextLost` | `Spec => TextKept` |
| `ListsProofs` | `ListsTyping` | `Spec => []TypeOK` |
| | `HeartsAreExplained` | `Spec => []HeartsExplained` |
| | `ListsAreWhole` | `Spec => []ListsWhole` |

`SignInUnlocks`, `SessionsHaveOwners` and, in the absence of bcrypt,
`AccountOpens` are proved and checked by no passing run.

What the invariants add to the properties is what a request, a task or a
delivery *knows*: values read some steps ago that others may have changed since.

**Accounts.** None of the properties is inductive.

* `RequestsCarry`: at each stage a request has the values its remaining
  statements write (typing itself depends on it);
* `KeysChecked`: a request about to write carries a key if the account has a
  vault. It is stable because no step gives a vault to an account without one or
  takes it away, which is `VaultPermanent`, and which in turn needs
  `KeysChecked`: the two are proved together. `RecoveryRestoresKey` follows,
  though `SetRecovery` looks at the vault one statement before it writes;
* `OnlyBcryptRehashed`: only users that had a bcrypt hash can be overwritten;
* `RevocationPending`: a session that has outlived its password is about to be
  closed by a request *other than the one that spares it*, unless it is late
  or its user is exposed. It is stronger than `OnlyLateSessionsSurvive`, where
  the closing request may be any; without the difference a change's own
  revocation would seem to end what it keeps;
* `RequestsOwnSession` and `SessionsHaveOwners`: no id is reused while a
  request refers to it, and sessions go with their user.

The proof first classifies what one step can do to a row, a request or a session
(`RowSteps`, `RequestSteps`, `SessionSteps`, one case per action), then shows
that each class keeps each part of the invariant.

**Messages.** `Fits` says how old each reading of a send may be: the keys it will
write cover the participants that remain, the closures it saw are the ones it
came into, and what the holder of the lock found missing is still missing.
`QueueFits` (the head alone is past the lock) is what makes the last true.
`TimesFit` and `InstantsLeft` keep instants distinct and not in the future, and
the bound on them always reserved. In the refinement the insertion's commit is
the step that posts, the calls to the real-time and push services tell or lose
what is owed, an abort loses it, the deletion of the last participant drops the
log, and every other step is a stutter; instants being distinct is what makes
the announcements of two requests differ.

**Photos.** `CountsHold`: a request that has counted the photos of the listing
holds the row lock, and its count stands until it inserts or gives up; that is
`WithinLimit`. For the bucket, `Life` follows one photo that was copied once: at
each moment it belongs to one request, or is listed, or is on its way out, and
the objects there are fit that moment, unless its addition was seen as failed
(`unsure`): its objects are being deleted while it is listed. Strays are
explained by the narrower set of those that account for each object.

**Outbox.** A delivery outlives the page that started it and a post the delivery,
so the invariant counts encryptions: the payload a message keeps, the post its
delivery waits for, the posts that travel and the messages stored all fit how
often it was encrypted, and a message without a payload is `Renewable`: not yet
encrypted, or its last ciphertext refused. Two ciphertexts stored then need a
refusal of the first.

**Thread.** `Explained(ids, c)` says that below nothing in `ids`, down to the cursor
`c`, a stored message is missing but those `late` or below one `alone`. It holds
of what is shown and of what a load has gathered, and every step that adds to
either keeps it (`Grows`): a page read joins the one above it, since it is all
that was stored below the cursor, and what is committed later is `late` there. A
pulled page fits what was stored when it was read (`LatestFits`); with a message
in common, or none below it, it leaves no hole. That a page is the largest few of
a finite set, that it is full when there are more, and that its cursor is its
smallest message are lemmas about finite sets (`PageFull`, `LastPageFull`,
`CursorFits`, `PageExact`).

**Reading.** `Covered`: what a query that missed nothing shows, or is about to be
answered, is what the server has, unless a notice or the answer to a mark is on
its way, or the query is read when it is mounted next. `Marked`: when no message
came since the effect marked, the mark travels, or all is read, or it failed.

**Moderation.** The properties are nearly inductive. `RequestsFit` says what each
stage of a request carries; `AdminsKnown` that a decision to suspend counts, once
its check is passed, like the suspension: who is appointed afterwards is in
`promoted`.

**Device.** Every wrapped key there is, on the server, in localStorage or in a
task, belongs to the account whose password or code wraps it, and a task that
may still write an account's key carries that account's; a code the server
holds and the user has not seen is in a task that is about to show it.

`DeviceIsTheirs` needs a second invariant, on what has not been crossed: until
`stray`, one task at most writes to the device, and what waits for IndexedDB
waits in one tab (`Alone`); then each place (the vault, IndexedDB with the last
of its queue, each tab's memory) holds what belongs to the session's owner, or to
the task that is about to say whose it is (`TaskLeaves`). `SessionsFit` is apart,
because it holds also after operations have crossed: it says that a session
names an account that exists. The queue is what makes a leaf more than
substitution: `Final` speaks of the last write, which IndexedDB will have when
all are done, whichever the first is. What a refused write leaves is said of
each store by itself: as long as it is not `behind`, it holds what the write
would have left, and a task that reads a store left behind is `stray`.

**Editor.** `FormFits` and `SaveFits` tie a form and a save to the address they
began at, which the history of the tab may leave and come back to. `DraftFits` is
the heart of `OneDraft`: a creation that has made a draft has it in its address,
or has an answer coming that will put it there; and a save under way in that
creation updates, unless there is a reason to be named. `TextKept` is an action
property: each action is shown to keep the form, to put it on the server, to
start from an answered save, to end the session, to find the document gone or
removed, or to be one of those where the user was asked.

**Lists.** Two invariants on the rows. For hearts: a row that no change of a
heart is about is as the server has it, and one that a single change is about
has what that change wants (`HeartFits`); two changes of one listing leave it to
the server (`Disputed`), until `unsure` says so. What a change would put back
must have been right when it began, which only a change that nothing crossed can
promise (`MutFits`). For order: `Holds` says that up to its cursor a list has all
it is about, each once, in the order of the key, so that the next page joins on
without a gap; it holds of the cache, of the load under way and of what a change
would put back, unless the server has done an edit whose answer is still to come
(`Settled`). It says nothing of positions, and that is what makes it inductive:
a heart changes rows in place (`HoldsIds`), a page is appended (`Joined`). At
rest `Holds` and the server's answer enumerate the same set along the same key,
and two such sequences are equal (`OneOrder`); that there is one at all is
`Enumerable`. Typing is not free either: the date of a favourite stays within
its bound because each change still to be applied has been counted (`Dated`).

Only model-checked: liveness (`EverySendEnds`, `SendingEnds`, `CatchUp`) and
anything with ENABLED, which the prover cannot treat.

## 6. Plan

In order.

1. `Conversations`: `EnsureConversation` under concurrent starts, the key of a
   conversation, deletion of both participants; a conversation with nobody in it
   is deleted.
2. `Throttle`: the delay as an operator checked against its reference, and the
   number of simultaneous attempts it lets through.
3. `Push`: the table of subscriptions and its limit.

## 7. Not modelled

* Cryptography, password hashing and Web Push encryption: ideal, or standard
  formats with test vectors in the repository.
* The HTTP server, validation, configuration and logging: stateless. Their effect
  on the rest, a request that may end at any point, is `Abort` in each module of
  the server, and a lost answer in those of the client.
* Two starts of one conversation at once, and the deletion of both its
  participants: one unique index and row locks decide them, or a deadlock that
  PostgreSQL aborts. `EnsureConversation` and the choice of the key are next in
  the plan.
* The throttle of failed sign-ins: a function of the clock and of a count.
* A heart that the server applies after the browser gave its request up, and
  edits of listings by others while they are on screen (`Lists`); the server's
  window of one day, past which a retry is a new message (in `Messages`, not in
  `Outbox`).
* The table of push subscriptions, and typing notices, which nothing stored
  depends on.
* Profiles of others, the list of roommates, compatibility, export, public pages:
  single statements, pure functions or one read-only transaction. The filters
  and the other orders of the search only choose which rows are there.
* The preview for social networks, layout, texts, theme, the service worker: no
  state of the system.
* Migrations and the local environment: tools run by the operator; the
  constraints and cascades they create are part of the actions that meet them.
