------------------------------- MODULE Device -------------------------------
(***************************************************************************)
(* The accounts as one browser holds them: who its tabs believe is signed  *)
(* in, the cookie they share, the encrypted private key in localStorage    *)
(* (the vault), the open one in IndexedDB and in each tab's memory         *)
(* (auth/keyStorage.ts, AuthProvider.tsx, accountKeys.ts).                 *)
(*                                                                         *)
(* Signing in, changing the password and the rest each take several steps: *)
(* what they derive, the request, what they write when its answer comes.   *)
(* Two of them may be under way at once, in one tab or in two.  Deriving   *)
(* keys and encrypting are the identity of what they open: a key wrapped   *)
(* with a password opens with that password alone, and a proof of it is    *)
(* good for the account whose salt went into it.  The server's side of the *)
(* accounts is module Accounts; here it is what a browser sees of it.      *)
(*                                                                         *)
(* The browser may refuse to write: keyStorage.ts says nothing of it and   *)
(* goes on.  A read that fails finds nothing there, and changes nothing.   *)
(*                                                                         *)
(* A definition introduced by "Slip" is the definition below it with a     *)
(* mistake in it, which some property must notice.                         *)
(***************************************************************************)
EXTENDS Integers, Sequences, FiniteSets

CONSTANTS
  Users,        \* people who share the browser
  Nobody,       \* no user, no tab
  Tabs,         \* tabs of the site
  Registered,   \* users who have an account from the start
  MaxSessions,  \* bound: sign-ins the server accepts
  MaxPw,        \* bound: passwords an account has had
  MaxTasks,     \* bound: things users ask for
  MaxMishaps    \* bound: answers lost, reloads, writes refused, sessions ended from elsewhere

ASSUME DeviceAssumption ==
  /\ Nobody \notin Users \cup Tabs /\ Registered \subseteq Users
  /\ {MaxSessions, MaxPw, MaxTasks, MaxMishaps} \subseteq Nat /\ MaxPw > 0

VARIABLES
  pw,        \* server: number of each account's password; 0: no account, -1: deleted
  vaultOf,   \* server: each account's private key, encrypted
  copy,      \* server: its copy for the recovery code, and which code opens it
  sessions,  \* server: whose each session is, Nobody when it has ended
  cookie,    \* the session the browser presents, 0 for none
  vault,     \* localStorage: the encrypted key
  idb,       \* IndexedDB: whose open key it holds
  down,      \* of these two, what takes no writes for now
  shown,     \* who each tab shows as signed in
  asking,    \* each tab's request for the session, and its answer
  mem,       \* whose open key is in each tab's memory
  queue,     \* each tab's writes to IndexedDB still to be done
  tasks,     \* what users have asked for and is not finished
  known,     \* the recovery codes each user has been shown
  used,      \* counts for the bounds
  out,       \* history: someone signed out here and nobody has signed in since
  behind,    \* history: of these two, what did not take its last write
  stray,     \* history: something came between a task and what it leaves
  unseen     \* history: users whose new recovery code was never shown

server == <<pw, vaultOf, copy, sessions>>
storage == <<vault, idb, down>>
tabs == <<shown, asking, mem, queue>>
history == <<known, out, behind, stray, unseen>>
vars == <<server, cookie, storage, tabs, tasks, used, history>>

Slots == 1 .. 2
Stores == {"vault", "idb"}
People == Users \cup {Nobody}
Kinds == {"login", "register", "change", "recovery", "unlock", "logout", "delete", "read"}

\* A password is the n-th of an account; an encrypted key is whose it is and
\* the password it opens with.
Password == [of : People, n : -1 .. MaxPw]
Wrapped == [key : People, with : Password]
NoPassword == [of |-> Nobody, n |-> 0]
NoVault == [key |-> Nobody, with |-> NoPassword]
Current(u) == [of |-> u, n |-> pw[u]]
Opens(w, p) == w # NoVault /\ w.with = p

Task == [kind : Kinds \cup {"none"}, tab : Tabs \cup {Nobody}, user : People, typed : Password,
         step : {"", "typed", "ready", "done", "denied", "opening", "saving"},
         key : Wrapped, code : Nat, session : 0 .. MaxSessions]
Idle == [kind |-> "none", tab |-> Nobody, user |-> Nobody, typed |-> NoPassword, step |-> "",
            key |-> NoVault, code |-> 0, session |-> 0]

Owner == IF cookie = 0 THEN Nobody ELSE sessions[cookie]
SignedIn(t) == shown[t] \in Users

\* The server accepts a proof of password p for the account of the session.
Proves(u, p) == Owner = u /\ u \in Users /\ p = Current(u)

Count(what, max) == used[what] < max /\ used' = [used EXCEPT ![what] = @ + 1]
End(s) == tasks' = [tasks EXCEPT ![s] = Idle]
To(s, step) == tasks' = [tasks EXCEPT ![s].step = step]

-----------------------------------------------------------------------------
(* Writes to the device (keyStorage.ts).                                   *)

\* write and withStore: a write that is refused leaves what was there, and
\* nobody is told.
Written(what, old, new) == IF what \in down THEN old ELSE new
Kept(what) == behind' = IF what \in down THEN behind \cup {what} ELSE behind \ {what}
WriteVault(w) == vault' = Written("vault", vault, w) /\ Kept("vault")

\* savePrivateKey: memory at once, IndexedDB in its turn.
Save(t, u) == mem' = [mem EXCEPT ![t] = u] /\ queue' = [queue EXCEPT ![t] = Append(@, u)]

Flush(t) ==
  /\ queue[t] # <<>>
  /\ idb' = Written("idb", idb, Head(queue[t])) /\ Kept("idb")
  /\ queue' = [queue EXCEPT ![t] = Tail(@)]
  /\ UNCHANGED <<server, cookie, vault, down, shown, asking, mem, tasks, used, known, out, stray, unseen>>

Writes(k) == k \notin {"none", "read", "recovery"}

\* Something else is under way that writes to the device, or that asks who is
\* signed in; a tab is reading the key; a tab has not noticed that its user is
\* not the one signed in.
Crossed(s, t) ==
  \/ \E r \in Slots \ {s} : Writes(tasks[r].kind)
  \/ \E o \in Tabs \ {t} : queue[o] # <<>>
  \/ \E o \in Tabs : asking[o].state # "none"
Reading == \E r \in Slots : tasks[r].kind = "read"
Stale(t) == shown[t] # Owner

\* endLocalSession: nothing waits for IndexedDB.
SlipClear(s, t) ==
  /\ WriteVault(NoVault)
  /\ mem' = [mem EXCEPT ![t] = Nobody]
  /\ shown' = [shown EXCEPT ![t] = Nobody]
  /\ out' = TRUE
  /\ stray' = (stray \/ Crossed(s, t) \/ Reading)
  /\ UNCHANGED <<idb, down, queue>>

Clear(s, t) ==
  /\ WriteVault(NoVault)
  /\ Save(t, Nobody)
  /\ shown' = [shown EXCEPT ![t] = Nobody]
  /\ out' = TRUE
  /\ stray' = (stray \/ Crossed(s, t) \/ Reading)
  /\ UNCHANGED <<idb, down>>

-----------------------------------------------------------------------------
(* What a user asks for.                                                   *)

\* Two things asked for at once take two slots; a form is not sent twice.
Ask(s, t, kind, u, p, step, key) ==
  /\ tasks[s].kind = "none" /\ \A r \in 1 .. s - 1 : tasks[r].kind # "none"
  /\ \A r \in Slots : ~(tasks[r].tab = t /\ tasks[r].kind = kind)
  /\ Count("tasks", MaxTasks)
  /\ tasks' = [tasks EXCEPT ![s] = [Idle EXCEPT !.kind = kind, !.tab = t, !.user = u,
                                      !.typed = p, !.step = step, !.key = key]]
  /\ stray' = (stray \/ (Writes(kind) /\ (Crossed(s, t) \/ Reading))
                    \/ (kind = "read" /\ Crossed(s, t))
                    \/ (kind \in {"read", "unlock"} /\ Stale(t))
                    \/ (kind = "unlock" /\ "vault" \in behind))
  /\ UNCHANGED <<server, cookie, storage, tabs, known, behind, unseen>>

\* The person types a password that is or was one of theirs, or that of the
\* other account.
Typed == {p \in [of : Users, n : 1 .. MaxPw] : p.n <= pw[p.of]}

\* The sign-in page shows its form to who is not signed in.
AskLogin(s, t) ==
  \E u \in Users, p \in Typed :
    /\ ~SignedIn(t) /\ pw[u] # 0
    /\ Ask(s, t, "login", u, p, "ready", NoVault)
    /\ out' = FALSE

\* So does the registration, which chooses the first password.
AskRegister(s, t) ==
  \E u \in Users :
    /\ ~SignedIn(t) /\ pw[u] = 0
    /\ Ask(s, t, "register", u, [of |-> u, n |-> 1], "ready", NoVault)
    /\ out' = FALSE

\* The sections of the settings: a new password, a new recovery code, the end of
\* the account.
AskChange(s, t) ==
  \E p \in Typed : SignedIn(t) /\ Ask(s, t, "change", shown[t], p, "typed", NoVault) /\ UNCHANGED out

AskRecovery(s, t) ==
  \E p \in Typed : SignedIn(t) /\ Ask(s, t, "recovery", shown[t], p, "typed", NoVault) /\ UNCHANGED out

AskDelete(s, t) ==
  \E p \in Typed : SignedIn(t) /\ Ask(s, t, "delete", shown[t], p, "ready", NoVault) /\ UNCHANGED out

AskLogout(s, t) ==
  SignedIn(t) /\ Ask(s, t, "logout", shown[t], NoPassword, "ready", NoVault) /\ UNCHANGED out

\* The panel of the chat unlocks who has the encrypted key and not the open one.
Unlock(s, t) ==
  \E p \in Typed :
    /\ SignedIn(t) /\ mem[t] = Nobody /\ vault # NoVault
    /\ Ask(s, t, "unlock", shown[t], p, "opening", vault)
    /\ UNCHANGED out

\* The chat opens and looks for the open key on the device.
SeekKey(s, t) ==
  /\ SignedIn(t) /\ mem[t] = Nobody
  /\ Ask(s, t, "read", shown[t], NoPassword, "opening", NoVault)
  /\ UNCHANGED out

\* preparePasswordChange, setupRecoveryKey: the key comes from the vault, if
\* the password opens it; with no vault there is none to send.
SlipReadVault(s) ==
  LET t == tasks[s] IN
  /\ t.step = "typed"
  /\ tasks' = [tasks EXCEPT ![s].step = "ready", ![s].key.key = mem[t.tab]]
  /\ UNCHANGED <<server, cookie, storage, tabs, used, history>>

ReadVault(s) ==
  LET t == tasks[s] IN
  /\ t.step = "typed"
  /\ IF vault # NoVault /\ ~Opens(vault, t.typed) THEN End(s)
     ELSE tasks' = [tasks EXCEPT ![s].step = "ready", ![s].key = vault]
  /\ stray' = (stray \/ "vault" \in behind)
  /\ UNCHANGED <<server, cookie, storage, tabs, used, known, out, behind, unseen>>

-----------------------------------------------------------------------------
(* The server does what a request asks, or denies it.                      *)

Close(u, keep) == [n \in DOMAIN sessions |-> IF sessions[n] = u /\ n # keep THEN Nobody ELSE sessions[n]]

\* A key encrypted with a password, and its copy for a code made anew.
Wrap(k, u, n) == [key |-> k, with |-> [of |-> u, n |-> n]]
NewCode == 1 + used.codes
CopyFor(k) == [key |-> k, code |-> NewCode]

Accepts(t) ==
  CASE t.kind = "login"                 -> t.typed = Current(t.user)
    [] t.kind = "register"              -> pw[t.user] = 0
    [] t.kind \in {"change", "recovery"} -> Proves(t.user, t.typed) /\ t.key # NoVault
    [] t.kind = "delete"                -> Proves(t.user, t.typed)
    [] OTHER                            -> TRUE

Deny(s) ==
  /\ tasks[s].step = "ready" /\ ~Accepts(tasks[s])
  /\ To(s, "denied")
  /\ UNCHANGED <<server, cookie, storage, tabs, used, history>>

Reaches(s, kind) == tasks[s].step = "ready" /\ tasks[s].kind = kind /\ Accepts(tasks[s])

ServeLogin(s) ==
  LET u == tasks[s].user  new == used.sessions + 1 IN
  /\ Reaches(s, "login") /\ Count("sessions", MaxSessions)
  /\ sessions' = [sessions EXCEPT ![new] = u]
  /\ tasks' = [tasks EXCEPT ![s].step = "done", ![s].key = vaultOf[u], ![s].session = new]
  /\ UNCHANGED <<pw, vaultOf, copy, cookie, storage, tabs, history>>

ServeRegister(s) ==
  LET u == tasks[s].user IN
  /\ Reaches(s, "register")
  /\ pw' = [pw EXCEPT ![u] = 1]
  /\ vaultOf' = [vaultOf EXCEPT ![u] = Wrap(u, u, 1)]
  /\ copy' = [copy EXCEPT ![u] = CopyFor(u)]
  /\ used' = [used EXCEPT !.codes = @ + 1]
  /\ tasks' = [tasks EXCEPT ![s].step = "done", ![s].code = NewCode]
  /\ UNCHANGED <<sessions, cookie, storage, tabs, history>>

\* A change of password ends the account's other sessions.
ServeChange(s) ==
  LET u == tasks[s].user  new == Wrap(tasks[s].key.key, u, pw[u] + 1) IN
  /\ Reaches(s, "change") /\ pw[u] < MaxPw
  /\ pw' = [pw EXCEPT ![u] = @ + 1]
  /\ vaultOf' = [vaultOf EXCEPT ![u] = new]
  /\ sessions' = Close(u, cookie)
  /\ tasks' = [tasks EXCEPT ![s].step = "done", ![s].key = new]
  /\ UNCHANGED <<copy, cookie, storage, tabs, used, history>>

ServeRecovery(s) ==
  /\ Reaches(s, "recovery")
  /\ copy' = [copy EXCEPT ![tasks[s].user] = CopyFor(tasks[s].key.key)]
  /\ used' = [used EXCEPT !.codes = @ + 1]
  /\ tasks' = [tasks EXCEPT ![s].step = "done", ![s].code = NewCode]
  /\ UNCHANGED <<pw, vaultOf, sessions, cookie, storage, tabs, history>>

ServeDelete(s) ==
  /\ Reaches(s, "delete")
  /\ pw' = [pw EXCEPT ![tasks[s].user] = -1]
  /\ sessions' = Close(tasks[s].user, 0)
  /\ To(s, "done")
  /\ UNCHANGED <<vaultOf, copy, cookie, storage, tabs, used, history>>

ServeLogout(s) ==
  /\ Reaches(s, "logout")
  /\ sessions' = [n \in DOMAIN sessions |-> IF n = cookie THEN Nobody ELSE sessions[n]]
  /\ To(s, "done")
  /\ UNCHANGED <<pw, vaultOf, copy, cookie, storage, tabs, used, history>>

-----------------------------------------------------------------------------
(* What the answer makes of it.                                            *)

\* The form says that the request was denied.
Denied(s) ==
  /\ tasks[s].step = "denied" /\ End(s)
  /\ UNCHANGED <<server, cookie, storage, tabs, used, history>>

\* login: the cookie is set and the vault written, then the key is opened; the
\* rest waits until IndexedDB has it.
LoggedIn(s) ==
  /\ tasks[s].kind = "login" /\ tasks[s].step = "done"
  /\ cookie' = tasks[s].session
  /\ WriteVault(tasks[s].key)
  /\ To(s, "opening")
  /\ UNCHANGED <<server, idb, down, tabs, used, known, out, stray, unseen>>

\* The page shows a new code, unless the user has left it meanwhile.
CodeShown(u, code) ==
  \/ /\ code # 0
     /\ known' = [known EXCEPT ![u] = @ \cup {code}]
     /\ UNCHANGED unseen
  \/ /\ unseen' = unseen \cup {u}
     /\ UNCHANGED known

\* register: the code is shown, and the same form signs in.
Registering(s) ==
  LET t == tasks[s] IN
  /\ t.kind = "register" /\ t.step = "done"
  /\ CodeShown(t.user, t.code)
  /\ tasks' = [tasks EXCEPT ![s].kind = "login", ![s].step = "ready", ![s].code = 0]
  /\ UNCHANGED <<server, cookie, storage, tabs, used, out, behind, stray>>

\* storeKeysAtLogin, when the key is open or will not open: what memory and
\* IndexedDB get.
Opened(w, p) == IF Opens(w, p) THEN w.key ELSE Nobody

StoreAtLogin(s) ==
  LET t == tasks[s] IN
  /\ t.kind = "login" /\ t.step = "opening"
  /\ Save(t.tab, Opened(t.key, t.typed))
  /\ To(s, "saving")
  /\ UNCHANGED <<server, cookie, storage, shown, asking, used, history>>

\* IndexedDB has it: the tab shows who has signed in.
Enter(s) ==
  LET t == tasks[s] IN
  /\ t.kind = "login" /\ t.step = "saving" /\ queue[t.tab] = <<>>
  /\ shown' = [shown EXCEPT ![t.tab] = t.user]
  /\ End(s)
  /\ UNCHANGED <<server, cookie, storage, asking, mem, queue, used, history>>

\* unlockPrivateKey: a password that does not open the vault changes nothing.
Unlocked(s) ==
  LET t == tasks[s] IN
  /\ t.kind = "unlock" /\ t.step = "opening"
  /\ IF Opens(t.key, t.typed) THEN Save(t.tab, t.key.key) ELSE UNCHANGED <<mem, queue>>
  /\ End(s)
  /\ UNCHANGED <<server, cookie, storage, shown, asking, used, history>>

\* getPrivateKey: IndexedDB is read after the tab's own writes, and what was in
\* it goes to memory a moment later.
ReadKey(s) ==
  LET t == tasks[s] IN
  /\ t.kind = "read" /\ t.step = "opening" /\ queue[t.tab] = <<>>
  /\ tasks' = [tasks EXCEPT ![s].step = "saving", ![s].key.key = idb]
  /\ stray' = (stray \/ "idb" \in behind)
  /\ UNCHANGED <<server, cookie, storage, tabs, used, known, out, behind, unseen>>

KeepKey(s) ==
  LET t == tasks[s] IN
  /\ t.kind = "read" /\ t.step = "saving"
  /\ mem' = [mem EXCEPT ![t.tab] = t.key.key]
  /\ End(s)
  /\ UNCHANGED <<server, cookie, storage, shown, asking, queue, used, history>>

Changed(s) ==
  /\ tasks[s].kind = "change" /\ tasks[s].step = "done"
  /\ WriteVault(tasks[s].key)
  /\ End(s)
  /\ UNCHANGED <<server, cookie, idb, down, tabs, used, known, out, stray, unseen>>

\* setRecoveryKey answered: the code is shown, once.
SlipCodeMade(s) ==
  /\ tasks[s].kind = "recovery" /\ tasks[s].step = "done"
  /\ End(s)
  /\ UNCHANGED <<server, cookie, storage, tabs, used, history>>

CodeMade(s) ==
  LET t == tasks[s] IN
  /\ t.kind = "recovery" /\ t.step = "done"
  /\ CodeShown(t.user, IF shown[t.tab] = t.user THEN t.code ELSE 0)
  /\ End(s)
  /\ UNCHANGED <<server, cookie, storage, tabs, used, out, behind, stray>>

\* logout and deleteAccount: the browser is cleared.
Left(s) ==
  /\ tasks[s].kind \in {"logout", "delete"} /\ tasks[s].step = "done"
  /\ cookie' = 0
  /\ Clear(s, tasks[s].tab)
  /\ End(s)
  /\ UNCHANGED <<server, asking, used, known, unseen>>

\* No answer comes, though the server may have done its part.  A logout clears
\* the browser all the same.
AnswerLost(s) ==
  LET t == tasks[s] IN
  /\ t.step \in {"ready", "done"} /\ Count("mishaps", MaxMishaps)
  /\ End(s)
  /\ unseen' = IF t.code # 0 THEN unseen \cup {t.user} ELSE unseen
  /\ IF t.kind = "logout"
     THEN Clear(s, t.tab) /\ UNCHANGED known
     ELSE /\ stray' = (stray \/ (t.kind = "change" /\ t.step = "done"))
          /\ UNCHANGED <<storage, shown, mem, queue, known, out, behind>>
  /\ UNCHANGED <<server, cookie, asking>>

-----------------------------------------------------------------------------
(* Tabs, sessions, and what happens elsewhere.                             *)

\* A tab is loaded again, or closed and opened: its memory and what it had
\* still to write are gone, and it asks who is signed in.
Reload(t) ==
  LET cut == {s \in Slots : tasks[s].tab = t} IN
  /\ Count("mishaps", MaxMishaps)
  /\ mem' = [mem EXCEPT ![t] = Nobody]
  /\ queue' = [queue EXCEPT ![t] = <<>>]
  /\ shown' = [shown EXCEPT ![t] = Nobody]
  /\ asking' = [asking EXCEPT ![t] = [state |-> "asked", user |-> Nobody]]
  /\ tasks' = [s \in Slots |-> IF s \in cut THEN Idle ELSE tasks[s]]
  /\ unseen' = unseen \cup {tasks[s].user : s \in {r \in cut : tasks[r].code # 0}}
  /\ stray' = (stray \/ queue[t] # <<>> \/ Crossed(0, t))
  /\ UNCHANGED <<server, cookie, storage, known, out, behind>>

\* GET /auth/session, and its answer: it overwrites what a sign-in has shown in
\* the meantime.
SlipTellSession(t) ==
  /\ asking[t].state = "asked"
  /\ asking' = [asking EXCEPT ![t] = [state |-> "told", user |-> cookie]]
  /\ UNCHANGED <<server, cookie, storage, shown, mem, queue, tasks, used, history>>

TellSession(t) ==
  /\ asking[t].state = "asked"
  /\ asking' = [asking EXCEPT ![t] = [state |-> "told", user |-> Owner]]
  /\ UNCHANGED <<server, cookie, storage, shown, mem, queue, tasks, used, history>>

ShowSession(t) ==
  /\ asking[t].state = "told"
  /\ shown' = [shown EXCEPT ![t] = asking[t].user]
  /\ asking' = [asking EXCEPT ![t] = [state |-> "none", user |-> Nobody]]
  /\ UNCHANGED <<server, cookie, storage, mem, queue, tasks, used, history>>

\* A request of a page, or one of the chat, is answered 401: the page only stops
\* showing the user, the chat ends the session as a sign-out does.
Expired(t) ==
  /\ SignedIn(t) /\ Owner = Nobody
  /\ shown' = [shown EXCEPT ![t] = Nobody]
  /\ UNCHANGED <<server, cookie, storage, asking, mem, queue, tasks, used, history>>

ChatExpired(t) ==
  /\ SignedIn(t) /\ Owner = Nobody
  /\ Clear(0, t)
  /\ UNCHANGED <<server, cookie, asking, tasks, used, known, unseen>>

\* The session is closed from another device, or expires.
Ended ==
  /\ Owner \in Users /\ Count("mishaps", MaxMishaps)
  /\ sessions' = [sessions EXCEPT ![cookie] = Nobody]
  /\ UNCHANGED <<pw, vaultOf, copy, cookie, storage, tabs, tasks, history>>

\* The browser stops taking writes to one of the two, and takes them again.
Refuses(what) ==
  /\ what \notin down /\ Count("mishaps", MaxMishaps)
  /\ down' = down \cup {what}
  /\ UNCHANGED <<server, cookie, vault, idb, tabs, tasks, history>>

Allows(what) ==
  /\ what \in down /\ down' = down \ {what}
  /\ UNCHANGED <<server, cookie, vault, idb, tabs, tasks, used, history>>

\* recoverAccount, in a tab or on another device: the code opens the copy of
\* the key, and every session ends.
Recover(u) ==
  /\ pw[u] \in 1 .. MaxPw - 1 /\ copy[u].code \in known[u]
  /\ Count("mishaps", MaxMishaps)
  /\ pw' = [pw EXCEPT ![u] = @ + 1]
  /\ vaultOf' = [vaultOf EXCEPT ![u] =
       Wrap(copy[u].key, u, pw[u] + 1)]
  /\ sessions' = Close(u, 0)
  /\ UNCHANGED <<copy, cookie, storage, tabs, tasks, history>>

-----------------------------------------------------------------------------
Init ==
  /\ pw = [u \in Users |-> IF u \in Registered THEN 1 ELSE 0]
  /\ vaultOf = [u \in Users |-> IF u \in Registered
       THEN Wrap(u, u, 1) ELSE NoVault]
  /\ copy = [u \in Users |-> [key |-> IF u \in Registered THEN u ELSE Nobody, code |-> 0]]
  /\ sessions = [n \in 1 .. MaxSessions |-> Nobody]
  /\ cookie = 0 /\ vault = NoVault /\ idb = Nobody /\ down = {}
  /\ shown = [t \in Tabs |-> Nobody] /\ mem = [t \in Tabs |-> Nobody]
  /\ asking = [t \in Tabs |-> [state |-> "none", user |-> Nobody]]
  /\ queue = [t \in Tabs |-> <<>>]
  /\ tasks = [s \in Slots |-> Idle]
  /\ known = [u \in Users |-> {0}]
  /\ used = [tasks |-> 0, sessions |-> 0, codes |-> 0, mishaps |-> 0]
  /\ out = FALSE /\ behind = {} /\ stray = FALSE /\ unseen = {}

Next ==
  \/ \E s \in Slots, t \in Tabs :
       \/ AskLogin(s, t) \/ AskRegister(s, t) \/ AskChange(s, t) \/ AskRecovery(s, t)
       \/ AskDelete(s, t) \/ AskLogout(s, t) \/ Unlock(s, t) \/ SeekKey(s, t)
  \/ \E s \in Slots :
       \/ ReadVault(s) \/ Deny(s) \/ ServeLogin(s) \/ ServeRegister(s) \/ ServeChange(s)
       \/ ServeRecovery(s) \/ ServeDelete(s) \/ ServeLogout(s)
       \/ Denied(s) \/ LoggedIn(s) \/ StoreAtLogin(s) \/ Enter(s) \/ Registering(s)
       \/ Unlocked(s) \/ ReadKey(s) \/ KeepKey(s) \/ Changed(s) \/ CodeMade(s)
       \/ Left(s) \/ AnswerLost(s)
  \/ \E t \in Tabs : Flush(t) \/ Reload(t) \/ TellSession(t) \/ ShowSession(t)
                     \/ Expired(t) \/ ChatExpired(t)
  \/ Ended \/ (\E u \in Users : Recover(u)) \/ (\E x \in Stores : Refuses(x) \/ Allows(x))

Spec == Init /\ [][Next]_vars

-----------------------------------------------------------------------------
(* Properties.                                                             *)

\* Every variable keeps the shape the code gives it.
TypeOK ==
  /\ pw \in [Users -> -1 .. MaxPw]
  /\ vaultOf \in [Users -> Wrapped] /\ copy \in [Users -> [key : People, code : Nat]]
  /\ sessions \in [1 .. MaxSessions -> People]
  /\ cookie \in 0 .. MaxSessions /\ vault \in Wrapped /\ idb \in People
  /\ shown \in [Tabs -> People] /\ mem \in [Tabs -> People]
  /\ asking \in [Tabs -> [state : {"none", "asked", "told"}, user : People]]
  /\ queue \in [Tabs -> Seq(People)]
  /\ tasks \in [Slots -> Task]
  /\ known \in [Users -> SUBSET Nat]
  /\ used \in [tasks : 0 .. MaxTasks, sessions : 0 .. MaxSessions, codes : Nat,
               mishaps : 0 .. MaxMishaps]
  /\ down \subseteq Stores /\ behind \subseteq Stores
  /\ out \in BOOLEAN /\ stray \in BOOLEAN /\ unseen \subseteq Users

\* No form can send one account's key to another, or under another password:
\* what the server keeps of an account is its own key, and its password opens it.
KeysStayHome ==
  \A u \in Users : pw[u] > 0 =>
    /\ vaultOf[u] = [key |-> u, with |-> Current(u)]
    /\ copy[u].key = u

AtRest == \A s \in Slots : tasks[s].kind = "none"
Quiet == AtRest /\ \A t \in Tabs : queue[t] = <<>>

\* The device holds the keys of who uses it.  A tab that shows the owner of the
\* cookie finds their keys: a vault their password opens, no open key but
\* theirs.  After a sign-out and until someone signs in, none: "viene cancellata
\* all'uscita" (keyStorage.ts).  Of what did not take its last write nothing is
\* said until it takes another.  Unless two tasks ran into each other, a tab read
\* or unlocked the key while someone signed in or for a user no longer signed in,
\* a task began from what a refused write had left there, a page was closed in
\* the middle of a task, or the answer of a password change was lost.
KeysOf(t) ==
  SignedIn(t) /\ shown[t] = Owner
    => /\ "vault" \in behind \/ vault \in {NoVault, [key |-> Owner, with |-> Current(Owner)]}
       /\ "idb" \in behind \/ idb \in {Nobody, Owner}
       /\ mem[t] \in {Nobody, Owner}
SignedOutIsClean ==
  out => /\ "vault" \in behind \/ vault = NoVault
         /\ "idb" \in behind \/ idb = Nobody
DeviceIsTheirs == Quiet /\ ~stray => SignedOutIsClean /\ \A t \in Tabs : KeysOf(t)

\* The recovery code the server accepts is one the user was shown,
\* unless the page never got to show it.
CodesShown ==
  \A u \in Users \ unseen :
    AtRest /\ pw[u] > 0 => copy[u].code \in known[u]
=============================================================================
