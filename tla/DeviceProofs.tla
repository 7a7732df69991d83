---------------------------- MODULE DeviceProofs ----------------------------
(***************************************************************************)
(* What holds of Device for any people, tabs and bounds.  A key is never   *)
(* away from the password that wraps it: the invariant says so of every    *)
(* wrapped key there is, on the server, in the vault and in the tasks that *)
(* carry one, whatever other task or tab the steps between cross.  What    *)
(* the browser ends up with takes a second invariant: while nothing has    *)
(* come between a task and what it leaves, one task at most touches the    *)
(* device (Alone), and what each has still to write is its user's          *)
(* (TaskLeaves), who is the owner of the cookie by the time it is written. *)
(***************************************************************************)
EXTENDS Device, SequenceTheorems, TLAPS

\* The key in a wrapping is that of the account whose password wraps it.
Fits(w) == w.key = w.with.of

\* A task of a user, with the password typed and the key it has read.
TaskFits(x) ==
  /\ x.kind # "none" \/ x.code # 0 => x.user \in Users
  /\ x.kind # "none" => x.tab \in Tabs
  /\ x.step = "typed" => x.kind \in {"change", "recovery"}
  /\ x.kind # "read" => Fits(x.key)
  /\ x.kind \in {"login", "register", "change"} => x.typed.n > 0
  /\ x.kind \in {"change", "recovery"} /\ x.step = "ready" /\ x.key # NoVault
       => x.key.with = x.typed
  /\ x.kind \in {"register", "recovery"} /\ x.step = "done" => x.code > 0

KeysFit == Fits(vault) /\ \A s \in Slots : TaskFits(tasks[s])

\* A code the server accepts and the user has not been shown is about to be.
Coming(u) ==
  \E s \in Slots : /\ tasks[s].user = u /\ tasks[s].code = copy[u].code
                   /\ tasks[s].kind \in {"register", "recovery"} /\ tasks[s].step = "done"
CodesComing ==
  \A u \in Users \ unseen : pw[u] > 0 => copy[u].code \in known[u] \/ Coming(u)

Inv == TypeOK /\ KeysFit /\ KeysStayHome /\ CodesComing

-----------------------------------------------------------------------------
(* What the helpers return.                                                *)

\* The values that mean none.
LEMMA NoneValues ==
  /\ NoPassword \in Password /\ NoVault \in Wrapped /\ Fits(NoVault)
  /\ Idle \in Task /\ TaskFits(Idle) /\ Idle.kind = "none"
BY DeviceAssumption DEF NoPassword, Password, NoVault, Wrapped, Fits, Idle, Task, TaskFits,
                        Kinds, People

\* A new wrapping fits the account it is made for.
LEMMA WrapFits ==
  ASSUME NEW k \in People, NEW u \in People, NEW n \in -1 .. MaxPw
  PROVE  Wrap(k, u, n) \in Wrapped /\ Wrap(k, u, n).key = k
         /\ Wrap(k, u, n).with = [of |-> u, n |-> n]
BY DEF Wrap, Wrapped, Password

\* The tasks after a step that changes one of them.
LEMMA OneTask ==
  ASSUME TypeOK, KeysFit, NEW s \in Slots, NEW x \in Task, TaskFits(x),
         tasks' = [tasks EXCEPT ![s] = x]
  PROVE  tasks' \in [Slots -> Task] /\ \A r \in Slots : TaskFits(tasks'[r])
BY DEF TypeOK, KeysFit

\* What is counted stays within its bound.
LEMMA Counted ==
  ASSUME TypeOK, NEW what \in {"tasks", "sessions", "mishaps"}, NEW max,
         what = "tasks" => max = MaxTasks, what = "sessions" => max = MaxSessions,
         what = "mishaps" => max = MaxMishaps, Count(what, max)
  PROVE  /\ used' \in [tasks : 0 .. MaxTasks, sessions : 0 .. MaxSessions, codes : Nat,
                       mishaps : 0 .. MaxMishaps]
         /\ used'.codes = used.codes
<1>1. used' = [used EXCEPT ![what] = @ + 1] /\ used[what] < max
  BY DEF Count
<1>2. CASE what = "tasks"
  <2>1. used' = [used EXCEPT !.tasks = @ + 1] /\ used.tasks < MaxTasks
    BY <1>1, <1>2
  <2>2. used \in [tasks : 0 .. MaxTasks, sessions : 0 .. MaxSessions, codes : Nat,
                  mishaps : 0 .. MaxMishaps]
    BY DEF TypeOK
  <2>. QED
    BY <2>1, <2>2, DeviceAssumption
<1>3. CASE what = "sessions"
  <2>1. used' = [used EXCEPT !.sessions = @ + 1] /\ used.sessions < MaxSessions
    BY <1>1, <1>3
  <2>2. used \in [tasks : 0 .. MaxTasks, sessions : 0 .. MaxSessions, codes : Nat,
                  mishaps : 0 .. MaxMishaps]
    BY DEF TypeOK
  <2>. QED
    BY <2>1, <2>2, DeviceAssumption
<1>4. CASE what = "mishaps"
  <2>1. used' = [used EXCEPT !.mishaps = @ + 1] /\ used.mishaps < MaxMishaps
    BY <1>1, <1>4
  <2>2. used \in [tasks : 0 .. MaxTasks, sessions : 0 .. MaxSessions, codes : Nat,
                  mishaps : 0 .. MaxMishaps]
    BY DEF TypeOK
  <2>. QED
    BY <2>1, <2>2, DeviceAssumption
<1>. QED
  BY <1>2, <1>3, <1>4

\* A step that leaves the server alone, and what was shown, makes no code due.
LEMMA CodesKept ==
  ASSUME Inv, NEW s \in Slots, UNCHANGED server, known' = known, unseen' = unseen,
         \A r \in Slots \ {s} : tasks'[r] = tasks[r],
         tasks[s].kind \notin {"register", "recovery"} \/ tasks[s].step # "done"
  PROVE  CodesComing' /\ KeysStayHome'
<1>1. KeysStayHome'
  BY DEF Inv, KeysStayHome, server, Current
<1>2. ASSUME NEW u \in Users, u \notin unseen', pw'[u] > 0
      PROVE  copy'[u].code \in known'[u] \/ Coming(u)'
  <2>1. copy[u].code \in known[u] \/ Coming(u)
    BY <1>2 DEF Inv, CodesComing, server
  <2>2. Coming(u) => Coming(u)'
    BY DEF Coming, server
  <2>. QED
    BY <2>1, <2>2 DEF server
<1>. QED
  BY <1>1, <1>2 DEF CodesComing

-----------------------------------------------------------------------------
(* What a user asks for.                                                   *)

LEMMA AskStep ==
  ASSUME Inv, NEW s \in Slots, NEW t \in Tabs, NEW kind \in Kinds, NEW u \in Users,
         NEW p \in Password, NEW step \in {"typed", "ready", "opening"}, NEW key \in Wrapped,
         Fits(key), kind \in {"login", "register", "change"} => p.n > 0,
         kind \in {"change", "recovery"} <=> step = "typed",
         out' \in BOOLEAN, Ask(s, t, kind, u, p, step, key)
  PROVE  Inv'
<1>. DEFINE x == [Idle EXCEPT !.kind = kind, !.tab = t, !.user = u,
                              !.typed = p, !.step = step, !.key = key]
<1>1. tasks' = [tasks EXCEPT ![s] = x] /\ tasks[s].kind = "none"
  BY DEF Ask
<1>2. x \in Task /\ TaskFits(x)
  BY NoneValues, ZenonT(30) DEF TaskFits, Task, People, Kinds, Idle
<1>. HIDE DEF x
<1>3. tasks' \in [Slots -> Task] /\ \A r \in Slots : TaskFits(tasks'[r])
  BY <1>1, <1>2, OneTask DEF Inv
<1>4. TypeOK'
  <2>1. used' \in [tasks : 0 .. MaxTasks, sessions : 0 .. MaxSessions, codes : Nat,
                   mishaps : 0 .. MaxMishaps]
    BY Counted DEF Ask, Inv
  <2>2. stray' \in BOOLEAN
    BY DEF Ask, Inv, TypeOK
  <2>. QED
    BY <1>3, <2>1, <2>2 DEF Inv, TypeOK, Ask, storage, tabs, server
<1>5. KeysFit'
  BY <1>3 DEF KeysFit, Inv, Ask, storage
<1>6. CodesComing' /\ KeysStayHome'
  <2>1. \A r \in Slots \ {s} : tasks'[r] = tasks[r]
    BY <1>1 DEF Inv, TypeOK
  <2>. QED
    BY <1>1, <2>1, CodesKept DEF Ask
<1>. QED
  BY <1>4, <1>5, <1>6 DEF Inv

\* The passwords a user may type are passwords.
LEMMA TypedPassword ==
  ASSUME NEW p \in Typed
  PROVE  p \in Password /\ p.n > 0
BY DEF Typed, Password, People

LEMMA AskSteps ==
  ASSUME Inv, NEW s \in Slots, NEW t \in Tabs,
         \/ AskLogin(s, t) \/ AskRegister(s, t) \/ AskChange(s, t) \/ AskRecovery(s, t)
         \/ AskDelete(s, t) \/ AskLogout(s, t) \/ Unlock(s, t) \/ SeekKey(s, t)
  PROVE  Inv'
<1>1. NoVault \in Wrapped /\ Fits(NoVault) /\ NoPassword \in Password
  BY NoneValues
<1>2. out \in BOOLEAN /\ vault \in Wrapped /\ Fits(vault)
  BY DEF Inv, TypeOK, KeysFit
<1>3. CASE AskLogin(s, t)
  <2>1. PICK u \in Users, p \in Typed : Ask(s, t, "login", u, p, "ready", NoVault) /\ out' = FALSE
    BY <1>3 DEF AskLogin
  <2>. QED
    BY <1>1, <2>1, AskStep, TypedPassword DEF Kinds
<1>4. CASE AskRegister(s, t)
  <2>1. PICK u \in Users :
          Ask(s, t, "register", u, [of |-> u, n |-> 1], "ready", NoVault) /\ out' = FALSE
    BY <1>4 DEF AskRegister
  <2>2. [of |-> u, n |-> 1] \in Password /\ [of |-> u, n |-> 1].n > 0
    BY DeviceAssumption DEF Password, People
  <2>. QED
    BY <1>1, <2>1, <2>2, AskStep DEF Kinds
<1>5. CASE AskChange(s, t)
  <2>1. PICK p \in Typed : Ask(s, t, "change", shown[t], p, "typed", NoVault)
    BY <1>5 DEF AskChange
  <2>. QED
    BY <1>1, <1>2, <1>5, <2>1, AskStep, TypedPassword DEF Kinds, AskChange, SignedIn
<1>6. CASE AskRecovery(s, t)
  <2>1. PICK p \in Typed : Ask(s, t, "recovery", shown[t], p, "typed", NoVault)
    BY <1>6 DEF AskRecovery
  <2>. QED
    BY <1>1, <1>2, <1>6, <2>1, AskStep, TypedPassword DEF Kinds, AskRecovery, SignedIn
<1>7. CASE AskDelete(s, t)
  <2>1. PICK p \in Typed : Ask(s, t, "delete", shown[t], p, "ready", NoVault)
    BY <1>7 DEF AskDelete
  <2>. QED
    BY <1>1, <1>2, <1>7, <2>1, AskStep, TypedPassword DEF Kinds, AskDelete, SignedIn
<1>8. CASE AskLogout(s, t)
  BY <1>1, <1>2, <1>8, AskStep DEF Kinds, AskLogout, SignedIn
<1>9. CASE Unlock(s, t)
  <2>1. PICK p \in Typed : Ask(s, t, "unlock", shown[t], p, "opening", vault)
    BY <1>9 DEF Unlock
  <2>. QED
    BY <1>1, <1>2, <1>9, <2>1, AskStep, TypedPassword DEF Kinds, Unlock, SignedIn
<1>10. CASE SeekKey(s, t)
  BY <1>1, <1>2, <1>10, AskStep DEF Kinds, SeekKey, SignedIn
<1>. QED
  BY <1>3, <1>4, <1>5, <1>6, <1>7, <1>8, <1>9, <1>10

-----------------------------------------------------------------------------
(* What the answers make of a task.                                        *)

\* The browser's part of the typing, with the vault.
BrowserOK ==
  /\ cookie \in 0 .. MaxSessions /\ vault \in Wrapped /\ Fits(vault) /\ idb \in People
  /\ shown \in [Tabs -> People] /\ mem \in [Tabs -> People]
  /\ asking \in [Tabs -> [state : {"none", "asked", "told"}, user : People]]
  /\ queue \in [Tabs -> Seq(People)]
  /\ down \subseteq Stores /\ behind \subseteq Stores
  /\ out \in BOOLEAN /\ stray \in BOOLEAN

LEMMA BrowserTyped == ASSUME Inv PROVE BrowserOK
BY DEF Inv, TypeOK, KeysFit, BrowserOK

\* What a write leaves, taken or refused.
LEMMA VaultWritten ==
  ASSUME BrowserOK, NEW w \in Wrapped, Fits(w), WriteVault(w)
  PROVE  /\ vault' \in Wrapped /\ Fits(vault') /\ behind' \subseteq Stores
         /\ "vault" \in behind' \/ vault' = w
         /\ "idb" \in behind' <=> "idb" \in behind
BY DEF WriteVault, Written, Kept, BrowserOK, Stores

\* A write to IndexedDB put in line.
LEMMA SaveTyped ==
  ASSUME BrowserOK, NEW t, NEW u \in People, Save(t, u)
  PROVE  mem' \in [Tabs -> People] /\ queue' \in [Tabs -> Seq(People)]
<1>1. \A q \in Seq(People) : Append(q, u) \in Seq(People)
  OBVIOUS
<1>2. mem' \in [Tabs -> People]
  BY DEF BrowserOK, Save
<1>3. queue' \in [Tabs -> Seq(People)]
  BY <1>1, Zenon DEF BrowserOK, Save
<1>. QED
  BY <1>2, <1>3

LEMMA ClearTyped ==
  ASSUME BrowserOK, NEW s, NEW t, Clear(s, t), cookie' \in 0 .. MaxSessions, asking' = asking
  PROVE  BrowserOK'
<1>1. NoVault \in Wrapped /\ Fits(NoVault) /\ Nobody \in People
  BY NoneValues DEF People
<1>2. mem' \in [Tabs -> People] /\ queue' \in [Tabs -> Seq(People)]
  BY <1>1, SaveTyped DEF Clear
<1>3. out' \in BOOLEAN /\ stray' \in BOOLEAN
  BY DEF Clear, BrowserOK
<1>4. vault' \in Wrapped /\ Fits(vault') /\ behind' \subseteq Stores
  BY <1>1, VaultWritten DEF Clear
<1>. QED
  BY <1>1, <1>2, <1>3, <1>4 DEF BrowserOK, Clear

\* A step of one task that leaves the server and the codes alone.
LEMMA LocalStep ==
  ASSUME Inv, NEW s \in Slots, NEW x \in Task, TaskFits(x), tasks' = [tasks EXCEPT ![s] = x],
         UNCHANGED <<server, used, known, unseen>>, BrowserOK',
         tasks[s].kind \notin {"register", "recovery"} \/ tasks[s].step # "done"
  PROVE  Inv'
<1>1. tasks' \in [Slots -> Task] /\ \A r \in Slots : TaskFits(tasks'[r])
  BY OneTask DEF Inv
<1>2. TypeOK' /\ KeysFit'
  BY <1>1 DEF Inv, TypeOK, BrowserOK, server, KeysFit
<1>3. \A r \in Slots \ {s} : tasks'[r] = tasks[r]
  BY DEF Inv, TypeOK
<1>. QED
  BY <1>2, <1>3, CodesKept DEF Inv

LEMMA TaskTyped ==
  ASSUME Inv, NEW s \in Slots
  PROVE  /\ tasks[s] \in Task /\ TaskFits(tasks[s]) /\ tasks \in [Slots -> Task]
         /\ tasks[s].key \in Wrapped
BY DEF Inv, TypeOK, KeysFit, Task

LEMMA FormSteps ==
  ASSUME Inv, NEW s \in Slots, ReadVault(s) \/ Deny(s) \/ Denied(s)
  PROVE  Inv'
<1>1. Idle \in Task /\ TaskFits(Idle)
  BY NoneValues
<1>2. tasks[s] \in Task /\ TaskFits(tasks[s])
  BY TaskTyped
<1>3. BrowserOK
  BY BrowserTyped
<1>4. BrowserOK' /\ UNCHANGED <<server, used, known, unseen>>
  <2>1. ReadVault(s) => stray' \in BOOLEAN
    BY DEF ReadVault, BrowserOK
  <2>. QED
    BY <1>3, <2>1 DEF ReadVault, Deny, Denied, BrowserOK, storage, tabs, history
<1>5. CASE ReadVault(s)
  <2>1. CASE vault # NoVault /\ ~Opens(vault, tasks[s].typed)
    BY <1>1, <1>4, <1>5, <2>1, LocalStep DEF ReadVault, End
  <2>2. CASE ~(vault # NoVault /\ ~Opens(vault, tasks[s].typed))
    <3>. DEFINE x == [tasks[s] EXCEPT !.step = "ready", !.key = vault]
    <3>1. tasks' = [tasks EXCEPT ![s] = x]
      BY <1>5, <2>2, TaskTyped DEF ReadVault
    <3>2. x \in Task /\ TaskFits(x)
      <4>1. tasks[s].kind # "none" /\ vault \in Wrapped /\ Fits(vault)
        BY <1>2, <1>3, <1>5 DEF ReadVault, TaskFits, BrowserOK
      <4>2. x \in Task
        BY <1>2, <4>1 DEF Task
      <4>3. vault # NoVault => vault.with = tasks[s].typed
        BY <2>2 DEF Opens
      <4>4. TaskFits(x)
        BY <1>2, <4>1, <4>3 DEF Task, TaskFits
      <4>. QED
        BY <4>2, <4>4
    <3>. HIDE DEF x
    <3>. QED
      BY <1>4, <1>5, <3>1, <3>2, LocalStep DEF ReadVault
  <2>. QED
    BY <2>1, <2>2
<1>6. CASE Deny(s)
  <2>. DEFINE x == [tasks[s] EXCEPT !.step = "denied"]
  <2>1. tasks' = [tasks EXCEPT ![s] = x]
    BY <1>6, TaskTyped DEF Deny, To
  <2>2. x \in Task /\ TaskFits(x)
    BY <1>2 DEF Task, TaskFits
  <2>. HIDE DEF x
  <2>. QED
    BY <1>4, <1>6, <2>1, <2>2, LocalStep DEF Deny
<1>7. CASE Denied(s)
  BY <1>1, <1>4, <1>7, LocalStep DEF Denied, End
<1>. QED
  BY <1>5, <1>6, <1>7

LEMMA SignInSteps ==
  ASSUME Inv, NEW s \in Slots, LoggedIn(s) \/ StoreAtLogin(s) \/ Enter(s)
  PROVE  Inv'
<1>1. Idle \in Task /\ TaskFits(Idle)
  BY NoneValues
<1>2. tasks[s] \in Task /\ TaskFits(tasks[s]) /\ tasks[s].key \in Wrapped
  BY TaskTyped
<1>3. BrowserOK
  BY BrowserTyped
<1>4. UNCHANGED <<server, used, known, unseen>> /\ tasks[s].kind = "login"
  BY DEF LoggedIn, StoreAtLogin, Enter, storage, tabs, history
<1>5. CASE LoggedIn(s)
  <2>. DEFINE x == [tasks[s] EXCEPT !.step = "opening"]
  <2>1. tasks' = [tasks EXCEPT ![s] = x]
    BY <1>5, TaskTyped DEF LoggedIn, To
  <2>2. x \in Task /\ TaskFits(x)
    BY <1>2 DEF Task, TaskFits
  <2>3. /\ cookie' \in 0 .. MaxSessions
        /\ vault' \in Wrapped /\ Fits(vault') /\ behind' \subseteq Stores
    BY <1>2, <1>3, <1>4, <1>5, VaultWritten DEF LoggedIn, Task, TaskFits
  <2>4. BrowserOK'
    BY <1>3, <1>5, <2>3 DEF LoggedIn, BrowserOK, tabs, history
  <2>. HIDE DEF x
  <2>. QED
    BY <1>4, <2>1, <2>2, <2>4, LocalStep
<1>6. CASE StoreAtLogin(s)
  <2>. DEFINE x == [tasks[s] EXCEPT !.step = "saving"]
  <2>1. tasks' = [tasks EXCEPT ![s] = x]
    BY <1>6, TaskTyped DEF StoreAtLogin, To
  <2>2. x \in Task /\ TaskFits(x)
    BY <1>2 DEF Task, TaskFits
  <2>3. Opened(tasks[s].key, tasks[s].typed) \in People
    BY <1>2 DEF Opened, Wrapped, People
  <2>4. mem' \in [Tabs -> People] /\ queue' \in [Tabs -> Seq(People)]
    BY <1>3, <1>6, <2>3, SaveTyped DEF StoreAtLogin
  <2>5. BrowserOK'
    BY <1>3, <1>6, <2>4 DEF StoreAtLogin, BrowserOK, storage, history
  <2>. HIDE DEF x
  <2>. QED
    BY <1>4, <2>1, <2>2, <2>5, LocalStep
<1>7. CASE Enter(s)
  <2>1. tasks[s].user \in People
    BY <1>2 DEF Task
  <2>2. BrowserOK'
    BY <1>3, <1>7, <2>1 DEF Enter, BrowserOK, storage, history
  <2>. QED
    BY <1>1, <1>4, <1>7, <2>2, LocalStep DEF Enter, End
<1>. QED
  BY <1>5, <1>6, <1>7

LEMMA KeySteps ==
  ASSUME Inv, NEW s \in Slots,
         Unlocked(s) \/ ReadKey(s) \/ KeepKey(s) \/ Changed(s) \/ Left(s)
  PROVE  Inv'
<1>1. Idle \in Task /\ TaskFits(Idle) /\ Nobody \in People
  BY NoneValues DEF People
<1>2. tasks[s] \in Task /\ TaskFits(tasks[s]) /\ tasks[s].key \in Wrapped
  BY TaskTyped
<1>3. BrowserOK
  BY BrowserTyped
<1>4. /\ UNCHANGED <<server, used, known, unseen>>
      /\ tasks[s].kind \in {"unlock", "read", "change", "logout", "delete"}
  BY DEF Unlocked, ReadKey, KeepKey, Changed, Left, storage, tabs, history
<1>5. tasks[s].key.key \in People
  BY <1>2 DEF Wrapped
<1>6. CASE Unlocked(s)
  <2>1. BrowserOK'
    <3>1. mem' \in [Tabs -> People] /\ queue' \in [Tabs -> Seq(People)]
      BY <1>3, <1>5, <1>6, SaveTyped DEF Unlocked, BrowserOK
    <3>. QED
      BY <1>3, <1>6, <3>1 DEF Unlocked, BrowserOK, storage, history
  <2>. QED
    BY <1>1, <1>4, <1>6, <2>1, LocalStep DEF Unlocked, End
<1>7. CASE ReadKey(s)
  <2>. DEFINE x == [tasks[s] EXCEPT !.step = "saving", !.key.key = idb]
  <2>1. tasks' = [tasks EXCEPT ![s] = x]
    BY <1>7, TaskTyped DEF ReadKey
  <2>2. x \in Task /\ TaskFits(x)
    <3>1. [tasks[s].key EXCEPT !.key = idb] \in Wrapped
      BY <1>2, <1>3 DEF Wrapped, BrowserOK
    <3>. QED
      BY <1>2, <1>7, <3>1 DEF Task, TaskFits, ReadKey
  <2>3. BrowserOK'
    <3>1. stray' \in BOOLEAN
      BY <1>3, <1>7 DEF ReadKey, BrowserOK
    <3>. QED
      BY <1>3, <1>7, <3>1 DEF ReadKey, BrowserOK, storage, tabs
  <2>. HIDE DEF x
  <2>. QED
    BY <1>4, <2>1, <2>2, <2>3, LocalStep
<1>8. CASE KeepKey(s)
  <2>1. BrowserOK'
    BY <1>3, <1>5, <1>8 DEF KeepKey, BrowserOK, storage, history
  <2>. QED
    BY <1>1, <1>4, <1>8, <2>1, LocalStep DEF KeepKey, End
<1>9. CASE Changed(s)
  <2>1. vault' \in Wrapped /\ Fits(vault') /\ behind' \subseteq Stores
    BY <1>2, <1>3, <1>9, VaultWritten DEF Changed, TaskFits
  <2>2. BrowserOK'
    BY <1>3, <1>9, <2>1 DEF Changed, BrowserOK, tabs, history
  <2>. QED
    BY <1>1, <1>4, <1>9, <2>2, LocalStep DEF Changed, End
<1>10. CASE Left(s)
  <2>1. BrowserOK'
    BY <1>3, <1>10, ClearTyped, DeviceAssumption DEF Left
  <2>. QED
    BY <1>1, <1>4, <1>10, <2>1, LocalStep DEF Left, End
<1>. QED
  BY <1>6, <1>7, <1>8, <1>9, <1>10

-----------------------------------------------------------------------------
(* Codes shown, lost and cut off.                                          *)

\* The task that had a code has shown it, or its user counts as not shown it.
LEMMA CodeStep ==
  ASSUME Inv, NEW s \in Slots, NEW x \in Task, TaskFits(x), tasks' = [tasks EXCEPT ![s] = x],
         UNCHANGED server, BrowserOK',
         used' \in [tasks : 0 .. MaxTasks, sessions : 0 .. MaxSessions, codes : Nat,
                   mishaps : 0 .. MaxMishaps],
         \A u \in Users : known[u] \subseteq known'[u], known' \in [Users -> SUBSET Nat],
         unseen \subseteq unseen', unseen' \subseteq Users,
         tasks[s].kind \in {"register", "recovery"} /\ tasks[s].step = "done"
           => tasks[s].user \in unseen' \/ tasks[s].code \in known'[tasks[s].user]
  PROVE  Inv'
<1>1. tasks' \in [Slots -> Task] /\ \A r \in Slots : TaskFits(tasks'[r])
  BY OneTask DEF Inv
<1>2. TypeOK' /\ KeysFit'
  BY <1>1 DEF Inv, TypeOK, BrowserOK, server, KeysFit
<1>3. \A r \in Slots \ {s} : tasks'[r] = tasks[r]
  BY DEF Inv, TypeOK
<1>4. KeysStayHome'
  BY DEF Inv, KeysStayHome, server, Current
<1>5. ASSUME NEW u \in Users, u \notin unseen', pw'[u] > 0
      PROVE  copy'[u].code \in known'[u] \/ Coming(u)'
  <2>1. copy[u].code \in known[u] \/ Coming(u)
    BY <1>5 DEF Inv, CodesComing, server
  <2>2. CASE copy[u].code \in known[u]
    BY <2>2 DEF server
  <2>3. CASE Coming(u)
    <3>1. PICK r \in Slots :
            /\ tasks[r].user = u /\ tasks[r].code = copy[u].code
            /\ tasks[r].kind \in {"register", "recovery"} /\ tasks[r].step = "done"
      BY <2>3 DEF Coming
    <3>2. CASE r = s
      BY <1>5, <3>1, <3>2 DEF server
    <3>3. CASE r # s
      BY <1>3, <3>1, <3>3 DEF Coming, server
    <3>. QED
      BY <3>2, <3>3
  <2>. QED
    BY <2>1, <2>2, <2>3
<1>. QED
  BY <1>2, <1>4, <1>5 DEF Inv, CodesComing

LEMMA CodeSteps ==
  ASSUME Inv, NEW s \in Slots, Registering(s) \/ CodeMade(s)
  PROVE  Inv'
<1>1. Idle \in Task /\ TaskFits(Idle)
  BY NoneValues
<1>2. tasks[s] \in Task /\ TaskFits(tasks[s])
  BY TaskTyped
<1>3. BrowserOK
  BY BrowserTyped
<1>4. /\ UNCHANGED <<server, used>> /\ tasks[s].step = "done" /\ tasks[s].user \in Users
      /\ BrowserOK'
      /\ used' \in [tasks : 0 .. MaxTasks, sessions : 0 .. MaxSessions, codes : Nat,
                   mishaps : 0 .. MaxMishaps]
  BY <1>2, <1>3 DEF Registering, CodeMade, storage, tabs, BrowserOK, TaskFits, Inv, TypeOK
<1>5. ASSUME NEW code \in {0, tasks[s].code}, CodeShown(tasks[s].user, code)
      PROVE  /\ \A u \in Users : known[u] \subseteq known'[u]
             /\ known' \in [Users -> SUBSET Nat]
             /\ unseen \subseteq unseen' /\ unseen' \subseteq Users
             /\ tasks[s].user \in unseen' \/ tasks[s].code \in known'[tasks[s].user]
  <2>1. known \in [Users -> SUBSET Nat] /\ unseen \subseteq Users /\ tasks[s].code \in Nat
    BY <1>2 DEF Inv, TypeOK, Task
  <2>2. CASE code # 0 /\ known' = [known EXCEPT ![tasks[s].user] = @ \cup {code}] /\ unseen' = unseen
    <3>1. code = tasks[s].code /\ code \in Nat
      BY <1>5, <2>1, <2>2
    <3>2. \A u \in Users : known'[u] = IF u = tasks[s].user THEN known[u] \cup {code} ELSE known[u]
      BY <1>4, <2>1, <2>2
    <3>3. known' \in [Users -> SUBSET Nat]
      BY <2>1, <2>2, <3>1, Zenon
    <3>. QED
      BY <1>4, <2>1, <2>2, <3>1, <3>2, <3>3
  <2>3. CASE unseen' = unseen \cup {tasks[s].user} /\ known' = known
    BY <1>4, <2>1, <2>3
  <2>. QED
    BY <1>5, <2>2, <2>3 DEF CodeShown
<1>6. CASE Registering(s)
  <2>. DEFINE x == [tasks[s] EXCEPT !.kind = "login", !.step = "ready", !.code = 0]
  <2>1. tasks' = [tasks EXCEPT ![s] = x]
    BY <1>6, TaskTyped DEF Registering
  <2>2. x \in Task /\ TaskFits(x)
    BY <1>2, <1>6 DEF Task, TaskFits, Registering, Kinds
  <2>. HIDE DEF x
  <2>. QED
    BY <1>4, <1>5, <1>6, <2>1, <2>2, CodeStep DEF Registering
<1>7. CASE CodeMade(s)
  <2>1. PICK code \in {0, tasks[s].code} : CodeShown(tasks[s].user, code)
    BY <1>7 DEF CodeMade
  <2>. QED
    BY <1>1, <1>4, <1>5, <1>7, <2>1, CodeStep DEF CodeMade, End
<1>. QED
  BY <1>6, <1>7

\* The mishaps counted.
LEMMA MishapTyped ==
  ASSUME Inv, Count("mishaps", MaxMishaps)
  PROVE  used' \in [tasks : 0 .. MaxTasks, sessions : 0 .. MaxSessions, codes : Nat,
                    mishaps : 0 .. MaxMishaps]
BY Counted DEF Inv

LEMMA LostStep ==
  ASSUME Inv, NEW s \in Slots, AnswerLost(s)
  PROVE  Inv'
<1>1. Idle \in Task /\ TaskFits(Idle)
  BY NoneValues
<1>2. tasks[s] \in Task /\ TaskFits(tasks[s])
  BY TaskTyped
<1>3. BrowserOK
  BY BrowserTyped
<1>4. UNCHANGED <<server, known>> /\ tasks' = [tasks EXCEPT ![s] = Idle]
  BY DEF AnswerLost, End, storage
<1>5. BrowserOK'
  <2>1. CASE tasks[s].kind = "logout"
    BY <1>3, <2>1, ClearTyped DEF AnswerLost, BrowserOK
  <2>2. CASE tasks[s].kind # "logout"
    BY <1>3, <2>2 DEF AnswerLost, BrowserOK, storage
  <2>. QED
    BY <2>1, <2>2
<1>6. unseen \subseteq unseen' /\ unseen' \subseteq Users
  BY <1>2 DEF AnswerLost, TaskFits, Inv, TypeOK
<1>7. tasks[s].kind \in {"register", "recovery"} /\ tasks[s].step = "done"
        => tasks[s].user \in unseen'
  <2>1. unseen' = IF tasks[s].code # 0 THEN unseen \cup {tasks[s].user} ELSE unseen
    BY DEF AnswerLost
  <2>2. tasks[s].kind \in {"register", "recovery"} /\ tasks[s].step = "done" => tasks[s].code # 0
    BY <1>2 DEF TaskFits
  <2>. QED
    BY <2>1, <2>2
<1>. QED
  BY <1>1, <1>4, <1>5, <1>6, <1>7, MishapTyped, CodeStep DEF AnswerLost, Inv, TypeOK

-----------------------------------------------------------------------------
(* Tabs and sessions.                                                      *)

LEMMA OwnerTyped == ASSUME Inv PROVE Owner \in People
BY DEF Inv, TypeOK, Owner, People

\* A step of a tab, which leaves the tasks and the server alone.
LEMMA TabStep ==
  ASSUME Inv, BrowserOK', UNCHANGED <<server, tasks, used, known, unseen>>
  PROVE  Inv'
<1>1. TypeOK' /\ KeysFit'
  BY DEF Inv, TypeOK, BrowserOK, server, KeysFit
<1>2. KeysStayHome'
  BY DEF Inv, KeysStayHome, server, Current
<1>3. CodesComing'
  BY DEF Inv, CodesComing, Coming, server
<1>. QED
  BY <1>1, <1>2, <1>3 DEF Inv

LEMMA TabSteps ==
  ASSUME Inv, NEW t \in Tabs,
         Flush(t) \/ TellSession(t) \/ ShowSession(t) \/ Expired(t) \/ ChatExpired(t)
  PROVE  Inv'
<1>1. BrowserOK /\ Nobody \in People /\ Owner \in People
  BY BrowserTyped, OwnerTyped DEF People
<1>2. CASE Flush(t)
  <2>1. queue[t] \in Seq(People) /\ queue[t] # <<>>
    BY <1>1, <1>2 DEF BrowserOK, Flush
  <2>2. Head(queue[t]) \in People /\ Tail(queue[t]) \in Seq(People)
    BY <2>1
  <2>3. idb' \in People /\ queue' \in [Tabs -> Seq(People)] /\ behind' \subseteq Stores
    BY <1>1, <1>2, <2>2 DEF BrowserOK, Flush, Written, Kept, Stores
  <2>. QED
    BY <1>1, <1>2, <2>3, TabStep DEF BrowserOK, Flush, history
<1>3. CASE TellSession(t)
  <2>1. BrowserOK'
    BY <1>1, <1>3 DEF BrowserOK, TellSession, storage, history
  <2>. QED
    BY <1>3, <2>1, TabStep DEF TellSession, history
<1>4. CASE ShowSession(t)
  <2>1. BrowserOK'
    BY <1>1, <1>4 DEF BrowserOK, ShowSession, storage, history
  <2>. QED
    BY <1>4, <2>1, TabStep DEF ShowSession, history
<1>5. CASE Expired(t)
  <2>1. BrowserOK'
    BY <1>1, <1>5 DEF BrowserOK, Expired, storage, history
  <2>. QED
    BY <1>5, <2>1, TabStep DEF Expired, history
<1>6. CASE ChatExpired(t)
  <2>1. BrowserOK'
    BY <1>1, <1>6, ClearTyped DEF BrowserOK, ChatExpired
  <2>. QED
    BY <1>6, <2>1, TabStep DEF ChatExpired
<1>. QED
  BY <1>2, <1>3, <1>4, <1>5, <1>6

\* What a tab had under way ends with it.
LEMMA ReloadStep ==
  ASSUME Inv, NEW t \in Tabs, Reload(t)
  PROVE  Inv'
<1>. DEFINE cut == {s \in Slots : tasks[s].tab = t}
<1>1. /\ tasks' = [s \in Slots |-> IF s \in cut THEN Idle ELSE tasks[s]]
      /\ unseen' = unseen \cup {tasks[s].user : s \in {r \in cut : tasks[r].code # 0}}
      /\ UNCHANGED <<server, known>>
  BY DEF Reload
<1>2. tasks' \in [Slots -> Task] /\ \A r \in Slots : TaskFits(tasks'[r])
  BY <1>1, NoneValues DEF Inv, TypeOK, KeysFit
<1>3. BrowserOK'
  <2>1. Nobody \in People /\ <<>> \in Seq(People)
    BY DEF People
  <2>. QED
    BY <2>1, BrowserTyped DEF BrowserOK, Reload, storage
<1>4. unseen' \subseteq Users
  <2>1. \A s \in Slots : tasks[s].code # 0 => tasks[s].user \in Users
    BY DEF Inv, KeysFit, TaskFits
  <2>. QED
    BY <1>1, <2>1 DEF Inv, TypeOK
<1>5. TypeOK'
  BY <1>1, <1>2, <1>3, <1>4, MishapTyped DEF Reload, Inv, TypeOK, BrowserOK, server
<1>6. KeysFit'
  BY <1>2, <1>3 DEF KeysFit, BrowserOK
<1>7. KeysStayHome'
  BY <1>1 DEF Inv, KeysStayHome, server, Current
<1>8. ASSUME NEW u \in Users, u \notin unseen', pw'[u] > 0
      PROVE  copy'[u].code \in known'[u] \/ Coming(u)'
  <2>1. copy[u].code \in known[u] \/ Coming(u)
    BY <1>1, <1>8 DEF Inv, CodesComing, server
  <2>2. CASE copy[u].code \in known[u]
    BY <1>1, <2>2 DEF server
  <2>3. CASE Coming(u)
    <3>1. PICK r \in Slots :
            /\ tasks[r].user = u /\ tasks[r].code = copy[u].code
            /\ tasks[r].kind \in {"register", "recovery"} /\ tasks[r].step = "done"
      BY <2>3 DEF Coming
    <3>2. tasks[r].code # 0
      BY <3>1 DEF Inv, KeysFit, TaskFits
    <3>3. r \notin cut
      BY <1>1, <1>8, <3>1, <3>2
    <3>4. tasks'[r] = tasks[r]
      BY <1>1, <3>3
    <3>. QED
      BY <1>1, <3>1, <3>4 DEF Coming, server
  <2>. QED
    BY <2>1, <2>2, <2>3
<1>. QED
  BY <1>5, <1>6, <1>7, <1>8 DEF Inv, CodesComing

-----------------------------------------------------------------------------
(* The server.                                                             *)

\* A step of the server: the task that asked, the accounts, the codes.
LEMMA ServerStep ==
  ASSUME Inv, NEW s \in Slots, NEW x \in Task, TaskFits(x), tasks' = [tasks EXCEPT ![s] = x],
         UNCHANGED <<cookie, storage, tabs, history>>,
         pw' \in [Users -> -1 .. MaxPw], vaultOf' \in [Users -> Wrapped],
         copy' \in [Users -> [key : People, code : Nat]],
         sessions' \in [1 .. MaxSessions -> People],
         used' \in [tasks : 0 .. MaxTasks, sessions : 0 .. MaxSessions, codes : Nat,
                   mishaps : 0 .. MaxMishaps],
         KeysStayHome',
         tasks[s].kind \notin {"register", "recovery"} \/ tasks[s].step # "done",
         \A u \in Users : pw'[u] > 0 =>
           \/ pw[u] > 0 /\ copy'[u] = copy[u]
           \/ x.user = u /\ x.code = copy'[u].code /\ x.kind \in {"register", "recovery"}
              /\ x.step = "done"
  PROVE  Inv'
<1>1. tasks' \in [Slots -> Task] /\ \A r \in Slots : TaskFits(tasks'[r])
  BY OneTask DEF Inv
<1>2. TypeOK' /\ KeysFit'
  BY <1>1 DEF Inv, TypeOK, KeysFit, storage, tabs, history
<1>3. tasks'[s] = x /\ \A r \in Slots \ {s} : tasks'[r] = tasks[r]
  BY DEF Inv, TypeOK
<1>4. ASSUME NEW u \in Users, u \notin unseen', pw'[u] > 0
      PROVE  copy'[u].code \in known'[u] \/ Coming(u)'
  <2>1. CASE pw[u] > 0 /\ copy'[u] = copy[u]
    <3>1. copy[u].code \in known[u] \/ Coming(u)
      BY <1>4, <2>1 DEF Inv, CodesComing, history
    <3>2. Coming(u) => Coming(u)'
      BY <1>3, <2>1 DEF Coming
    <3>. QED
      BY <2>1, <3>1, <3>2 DEF history
  <2>2. CASE x.user = u /\ x.code = copy'[u].code /\ x.kind \in {"register", "recovery"}
             /\ x.step = "done"
    BY <1>3, <2>2 DEF Coming
  <2>. QED
    BY <1>4, <2>1, <2>2
<1>. QED
  BY <1>2, <1>4 DEF Inv, CodesComing

LEMMA ServerTyped ==
  ASSUME Inv
  PROVE  /\ pw \in [Users -> -1 .. MaxPw] /\ vaultOf \in [Users -> Wrapped]
         /\ copy \in [Users -> [key : People, code : Nat]]
         /\ sessions \in [1 .. MaxSessions -> People]
         /\ used \in [tasks : 0 .. MaxTasks, sessions : 0 .. MaxSessions, codes : Nat,
                      mishaps : 0 .. MaxMishaps]
BY DEF Inv, TypeOK

\* Sessions that are closed are nobody's.
LEMMA CloseTyped ==
  ASSUME Inv, NEW u, NEW keep
  PROVE  Close(u, keep) \in [1 .. MaxSessions -> People]
BY DEF Inv, TypeOK, Close, People

LEMMA LoginStep ==
  ASSUME Inv, NEW s \in Slots, ServeLogin(s)
  PROVE  Inv'
<1>. DEFINE u == tasks[s].user
            new == used.sessions + 1
            x == [tasks[s] EXCEPT !.step = "done", !.key = vaultOf[u], !.session = new]
<1>1. /\ tasks[s].kind = "login" /\ tasks[s].step = "ready" /\ tasks[s].typed = Current(u)
      /\ Count("sessions", MaxSessions) /\ sessions' = [sessions EXCEPT ![new] = u]
      /\ UNCHANGED <<pw, vaultOf, copy>> /\ UNCHANGED <<cookie, storage, tabs, history>>
  BY DEF ServeLogin, Reaches, Accepts
<1>2. tasks[s] \in Task /\ TaskFits(tasks[s]) /\ u \in Users
  BY <1>1, TaskTyped DEF TaskFits
<1>3. pw[u] > 0
  BY <1>1, <1>2 DEF TaskFits, Current
<1>4. vaultOf[u] \in Wrapped /\ Fits(vaultOf[u])
  <2>1. vaultOf[u] = [key |-> u, with |-> [of |-> u, n |-> pw[u]]]
    BY <1>2, <1>3 DEF Inv, KeysStayHome, Current
  <2>2. Fits(vaultOf[u])
    BY <2>1 DEF Fits
  <2>. QED
    BY <1>2, <2>2, ServerTyped
<1>5. new \in 0 .. MaxSessions
  BY <1>1, ServerTyped, DeviceAssumption DEF Count
<1>6. tasks' = [tasks EXCEPT ![s] = x]
  BY TaskTyped DEF ServeLogin
<1>7. x \in Task /\ TaskFits(x)
  BY <1>1, <1>2, <1>4, <1>5 DEF Task, TaskFits
<1>8. sessions' \in [1 .. MaxSessions -> People]
  BY <1>1, <1>2, ServerTyped DEF People
<1>9. used' \in [tasks : 0 .. MaxTasks, sessions : 0 .. MaxSessions, codes : Nat,
                 mishaps : 0 .. MaxMishaps]
  BY <1>1, Counted DEF Inv
<1>10. KeysStayHome'
  BY <1>1 DEF Inv, KeysStayHome, Current
<1>. HIDE DEF x, u, new
<1>. QED
  BY <1>1, <1>6, <1>7, <1>8, <1>9, <1>10, ServerTyped, ServerStep

LEMMA RegisterStep ==
  ASSUME Inv, NEW s \in Slots, ServeRegister(s)
  PROVE  Inv'
<1>. DEFINE u == tasks[s].user
            x == [tasks[s] EXCEPT !.step = "done", !.code = NewCode]
<1>1. /\ tasks[s].kind = "register" /\ tasks[s].step = "ready"
      /\ pw' = [pw EXCEPT ![u] = 1]
      /\ vaultOf' = [vaultOf EXCEPT ![u] = Wrap(u, u, 1)]
      /\ copy' = [copy EXCEPT ![u] = [key |-> u, code |-> NewCode]]
      /\ used' = [used EXCEPT !.codes = @ + 1] /\ sessions' = sessions
      /\ UNCHANGED <<cookie, storage, tabs, history>>
  BY DEF ServeRegister, Reaches, CopyFor
<1>2. tasks[s] \in Task /\ TaskFits(tasks[s]) /\ u \in Users /\ u \in People
  BY <1>1, TaskTyped DEF TaskFits, People
<1>3. NewCode \in Nat /\ NewCode > 0
  BY ServerTyped DEF NewCode
<1>4. 1 \in -1 .. MaxPw
  BY DeviceAssumption
<1>5. /\ Wrap(u, u, 1) \in Wrapped /\ Wrap(u, u, 1) = [key |-> u, with |-> [of |-> u, n |-> 1]]
  BY <1>2, <1>4, WrapFits DEF Wrap
<1>6. tasks' = [tasks EXCEPT ![s] = x]
  BY TaskTyped DEF ServeRegister
<1>7. x \in Task /\ TaskFits(x)
  BY <1>1, <1>2, <1>3 DEF Task, TaskFits
<1>8. /\ pw' \in [Users -> -1 .. MaxPw] /\ vaultOf' \in [Users -> Wrapped]
      /\ copy' \in [Users -> [key : People, code : Nat]]
      /\ used' \in [tasks : 0 .. MaxTasks, sessions : 0 .. MaxSessions, codes : Nat,
                    mishaps : 0 .. MaxMishaps]
  <2>1. pw' \in [Users -> -1 .. MaxPw]
    BY <1>1, <1>4, ServerTyped
  <2>2. vaultOf' \in [Users -> Wrapped]
    BY <1>1, <1>5, ServerTyped
  <2>3. copy' \in [Users -> [key : People, code : Nat]]
    BY <1>1, <1>2, <1>3, ServerTyped
  <2>4. used' \in [tasks : 0 .. MaxTasks, sessions : 0 .. MaxSessions, codes : Nat,
                  mishaps : 0 .. MaxMishaps]
    <3>1. used \in [tasks : 0 .. MaxTasks, sessions : 0 .. MaxSessions, codes : Nat,
                   mishaps : 0 .. MaxMishaps]
      BY ServerTyped
    <3>2. used' = [used EXCEPT !.codes = @ + 1]
      BY <1>1
    <3>. QED
      BY <3>1, <3>2
  <2>. QED
    BY <2>1, <2>2, <2>3, <2>4
<1>9. KeysStayHome'
  BY <1>1, <1>2, <1>5, ServerTyped DEF Inv, KeysStayHome, Current
<1>10. \A w \in Users : pw'[w] > 0 =>
         \/ pw[w] > 0 /\ copy'[w] = copy[w]
         \/ x.user = w /\ x.code = copy'[w].code /\ x.kind \in {"register", "recovery"}
            /\ x.step = "done"
  BY <1>1, <1>2, ServerTyped DEF Task
<1>. HIDE DEF x, u
<1>. QED
  BY <1>1, <1>6, <1>7, <1>8, <1>9, <1>10, ServerTyped, ServerStep

LEMMA ChangeStep ==
  ASSUME Inv, NEW s \in Slots, ServeChange(s)
  PROVE  Inv'
<1>. DEFINE u == tasks[s].user
            new == Wrap(tasks[s].key.key, u, pw[u] + 1)
            x == [tasks[s] EXCEPT !.step = "done", !.key = new]
<1>1. /\ tasks[s].kind = "change" /\ tasks[s].step = "ready" /\ pw[u] < MaxPw
      /\ u \in Users /\ tasks[s].typed = Current(u) /\ tasks[s].key # NoVault
      /\ pw' = [pw EXCEPT ![u] = @ + 1] /\ vaultOf' = [vaultOf EXCEPT ![u] = new]
      /\ sessions' = Close(u, cookie) /\ UNCHANGED <<copy, used>>
      /\ UNCHANGED <<cookie, storage, tabs, history>>
  BY DEF ServeChange, Reaches, Accepts, Proves
<1>2. /\ tasks[s] \in Task /\ TaskFits(tasks[s]) /\ tasks[s].key \in Wrapped
      /\ u \in People
  BY <1>1, TaskTyped DEF People
<1>3. pw[u] \in Nat /\ pw[u] > 0 /\ pw[u] + 1 \in -1 .. MaxPw
  <2>1. pw[u] \in -1 .. MaxPw /\ MaxPw \in Nat
    BY <1>1, ServerTyped, DeviceAssumption
  <2>2. pw[u] > 0
    BY <1>1, <1>2 DEF TaskFits, Current
  <2>. QED
    BY <1>1, <2>1, <2>2
<1>4. tasks[s].key.key = u
  BY <1>1, <1>2 DEF TaskFits, Fits, Current
<1>5. new \in Wrapped /\ new = [key |-> u, with |-> [of |-> u, n |-> pw[u] + 1]] /\ Fits(new)
  BY <1>2, <1>3, <1>4, WrapFits DEF Wrap, Fits
<1>6. tasks' = [tasks EXCEPT ![s] = x]
  BY TaskTyped DEF ServeChange
<1>. HIDE DEF new
<1>7. x \in Task /\ TaskFits(x)
  BY <1>1, <1>2, <1>5 DEF Task, TaskFits
<1>8. /\ pw' \in [Users -> -1 .. MaxPw] /\ vaultOf' \in [Users -> Wrapped]
      /\ sessions' \in [1 .. MaxSessions -> People]
  BY <1>1, <1>3, <1>5, ServerTyped, CloseTyped
<1>9. KeysStayHome'
  BY <1>1, <1>3, <1>5, ServerTyped DEF Inv, KeysStayHome, Current
<1>10. \A w \in Users : pw'[w] > 0 => pw[w] > 0 /\ copy'[w] = copy[w]
  BY <1>1, <1>3, ServerTyped
<1>. HIDE DEF x, u
<1>. QED
  BY <1>1, <1>6, <1>7, <1>8, <1>9, <1>10, ServerTyped, ServerStep

LEMMA RecoveryStep ==
  ASSUME Inv, NEW s \in Slots, ServeRecovery(s)
  PROVE  Inv'
<1>. DEFINE u == tasks[s].user
            x == [tasks[s] EXCEPT !.step = "done", !.code = NewCode]
<1>1. /\ tasks[s].kind = "recovery" /\ tasks[s].step = "ready"
      /\ u \in Users /\ tasks[s].typed = Current(u) /\ tasks[s].key # NoVault
      /\ copy' = [copy EXCEPT ![u] = [key |-> tasks[s].key.key, code |-> NewCode]]
      /\ used' = [used EXCEPT !.codes = @ + 1]
      /\ UNCHANGED <<pw, vaultOf, sessions>> /\ UNCHANGED <<cookie, storage, tabs, history>>
  BY DEF ServeRecovery, Reaches, Accepts, Proves, CopyFor
<1>2. tasks[s] \in Task /\ TaskFits(tasks[s]) /\ u \in People
  BY <1>1, TaskTyped DEF People
<1>3. NewCode \in Nat /\ NewCode > 0
  BY ServerTyped DEF NewCode
<1>4. tasks[s].key.key = u
  BY <1>1, <1>2 DEF TaskFits, Fits, Current
<1>5. tasks' = [tasks EXCEPT ![s] = x]
  BY TaskTyped DEF ServeRecovery
<1>6. x \in Task /\ TaskFits(x)
  BY <1>1, <1>2, <1>3 DEF Task, TaskFits
<1>7. copy' \in [Users -> [key : People, code : Nat]]
  BY <1>1, <1>2, <1>3, <1>4, ServerTyped
<1>8. used' \in [tasks : 0 .. MaxTasks, sessions : 0 .. MaxSessions, codes : Nat,
                 mishaps : 0 .. MaxMishaps]
  <2>1. used \in [tasks : 0 .. MaxTasks, sessions : 0 .. MaxSessions, codes : Nat,
                 mishaps : 0 .. MaxMishaps]
    BY ServerTyped
  <2>2. used' = [used EXCEPT !.codes = @ + 1]
    BY <1>1
  <2>. QED
    BY <2>1, <2>2
<1>9. KeysStayHome'
  BY <1>1, <1>4, ServerTyped DEF Inv, KeysStayHome, Current
<1>10. \A w \in Users : pw'[w] > 0 =>
         \/ pw[w] > 0 /\ copy'[w] = copy[w]
         \/ x.user = w /\ x.code = copy'[w].code /\ x.kind \in {"register", "recovery"}
            /\ x.step = "done"
  BY <1>1, <1>2, ServerTyped DEF Task
<1>. HIDE DEF x, u
<1>. QED
  BY <1>1, <1>5, <1>6, <1>7, <1>8, <1>9, <1>10, ServerTyped, ServerStep

LEMMA EndingSteps ==
  ASSUME Inv, NEW s \in Slots, ServeDelete(s) \/ ServeLogout(s)
  PROVE  Inv'
<1>. DEFINE u == tasks[s].user
            x == [tasks[s] EXCEPT !.step = "done"]
<1>1. /\ tasks[s].kind \in {"delete", "logout"} /\ tasks[s].step = "ready"
      /\ UNCHANGED <<vaultOf, copy, used>> /\ UNCHANGED <<cookie, storage, tabs, history>>
      /\ pw' = pw \/ pw' = [pw EXCEPT ![u] = -1]
  BY DEF ServeDelete, ServeLogout, Reaches
<1>2. tasks' = [tasks EXCEPT ![s] = x]
  BY TaskTyped DEF ServeDelete, ServeLogout, To
<1>3. x \in Task /\ TaskFits(x)
  BY <1>1, TaskTyped DEF Task, TaskFits
<1>4. sessions' \in [1 .. MaxSessions -> People]
  <2>1. CASE ServeDelete(s)
    BY <2>1, CloseTyped DEF ServeDelete
  <2>2. CASE ServeLogout(s)
    BY <2>2, ServerTyped DEF ServeLogout, People
  <2>. QED
    BY <2>1, <2>2
<1>5. pw' \in [Users -> -1 .. MaxPw] /\ \A w \in Users : pw'[w] > 0 => pw'[w] = pw[w]
  <2>1. pw \in [Users -> -1 .. MaxPw] /\ -1 \in -1 .. MaxPw
    BY ServerTyped, DeviceAssumption
  <2>2. CASE pw' = [pw EXCEPT ![u] = -1]
    <3>1. pw' \in [Users -> -1 .. MaxPw]
      BY <2>1, <2>2
    <3>2. \A w \in Users : pw'[w] = IF w = u THEN -1 ELSE pw[w]
      BY <2>1, <2>2
    <3>. QED
      BY <3>1, <3>2
  <2>. QED
    BY <1>1, <2>1, <2>2
<1>6. KeysStayHome'
  BY <1>1, <1>5 DEF Inv, KeysStayHome, Current
<1>. HIDE DEF x, u
<1>. QED
  BY <1>1, <1>2, <1>3, <1>4, <1>5, <1>6, ServerTyped, ServerStep

\* What changes an account without a task of this browser.
LEMMA ElsewhereSteps ==
  ASSUME Inv, Ended \/ \E u \in Users : Recover(u)
  PROVE  Inv'
<1>1. /\ UNCHANGED <<copy, tasks>> /\ UNCHANGED <<cookie, storage, tabs, history>>
      /\ Count("mishaps", MaxMishaps)
  BY DEF Ended, Recover
<1>2. /\ pw' \in [Users -> -1 .. MaxPw] /\ vaultOf' \in [Users -> Wrapped]
      /\ sessions' \in [1 .. MaxSessions -> People] /\ KeysStayHome'
      /\ \A w \in Users : pw'[w] > 0 => pw[w] > 0
  <2>1. CASE Ended
    BY <2>1, ServerTyped DEF Ended, Inv, KeysStayHome, Current, People
  <2>2. ASSUME NEW u \in Users, Recover(u)
        PROVE  /\ pw' \in [Users -> -1 .. MaxPw] /\ vaultOf' \in [Users -> Wrapped]
               /\ sessions' \in [1 .. MaxSessions -> People] /\ KeysStayHome'
               /\ \A w \in Users : pw'[w] > 0 => pw[w] > 0
    <3>. DEFINE new == Wrap(copy[u].key, u, pw[u] + 1)
    <3>1. /\ pw[u] \in 1 .. MaxPw - 1 /\ pw' = [pw EXCEPT ![u] = @ + 1]
          /\ vaultOf' = [vaultOf EXCEPT ![u] = new] /\ copy' = copy /\ sessions' = Close(u, 0)
      BY <2>2 DEF Recover
    <3>2. copy[u].key = u /\ u \in People /\ pw[u] + 1 \in -1 .. MaxPw
      <4>1. pw[u] > 0 /\ pw[u] + 1 \in -1 .. MaxPw
        BY <3>1, DeviceAssumption
      <4>. QED
        BY <4>1 DEF Inv, KeysStayHome, People
    <3>3. new \in Wrapped /\ new = [key |-> u, with |-> [of |-> u, n |-> pw[u] + 1]]
      BY <3>2, WrapFits DEF Wrap
    <3>. HIDE DEF new
    <3>4. KeysStayHome'
      BY <3>1, <3>2, <3>3, ServerTyped DEF Inv, KeysStayHome, Current
    <3>. QED
      BY <3>1, <3>2, <3>3, <3>4, ServerTyped, CloseTyped, DeviceAssumption
  <2>. QED
    BY <2>1, <2>2
<1>3. TypeOK' /\ KeysFit'
  BY <1>1, <1>2, MishapTyped DEF Inv, TypeOK, KeysFit, storage, tabs, history
<1>4. CodesComing'
  BY <1>1, <1>2 DEF Inv, CodesComing, Coming, history
<1>. QED
  BY <1>2, <1>3, <1>4 DEF Inv

\* A store that stops taking writes, or takes them again.
LEMMA StoreSteps ==
  ASSUME Inv, NEW x \in Stores, Refuses(x) \/ Allows(x)
  PROVE  Inv'
<1>1. /\ UNCHANGED <<server, tasks, cookie, vault, idb, tabs>> /\ UNCHANGED history
      /\ down' \subseteq Stores
  BY DEF Refuses, Allows, Inv, TypeOK
<1>2. used' \in [tasks : 0 .. MaxTasks, sessions : 0 .. MaxSessions, codes : Nat,
                 mishaps : 0 .. MaxMishaps]
  BY MishapTyped DEF Refuses, Allows, Inv, TypeOK
<1>3. TypeOK' /\ KeysFit'
  BY <1>1, <1>2 DEF Inv, TypeOK, KeysFit, server, tabs, history
<1>4. KeysStayHome'
  BY <1>1 DEF Inv, KeysStayHome, server, Current
<1>5. CodesComing'
  BY <1>1 DEF Inv, CodesComing, Coming, server, history
<1>. QED
  BY <1>3, <1>4, <1>5 DEF Inv

-----------------------------------------------------------------------------
(* The theorems.                                                           *)

LEMMA InitInv == Init => Inv
<1>. SUFFICES ASSUME Init PROVE Inv
  OBVIOUS
<1>1. \A u \in Users : Wrap(u, u, 1) \in Wrapped
                     /\ Wrap(u, u, 1) = [key |-> u, with |-> [of |-> u, n |-> 1]]
  BY DeviceAssumption, WrapFits DEF Wrap, People
<1>2. TypeOK
  <2>1. pw \in [Users -> -1 .. MaxPw]
    BY DeviceAssumption DEF Init
  <2>2. vaultOf \in [Users -> Wrapped] /\ copy \in [Users -> [key : People, code : Nat]]
    BY <1>1, NoneValues DEF Init, People
  <2>3. tasks \in [Slots -> Task] /\ queue \in [Tabs -> Seq(People)]
    BY NoneValues DEF Init
  <2>4. used \in [tasks : 0 .. MaxTasks, sessions : 0 .. MaxSessions, codes : Nat,
                 mishaps : 0 .. MaxMishaps]
    BY DeviceAssumption DEF Init
  <2>. QED
    BY <2>1, <2>2, <2>3, <2>4, NoneValues, DeviceAssumption DEF Init, TypeOK, People
<1>3. KeysFit
  BY NoneValues DEF Init, KeysFit
<1>4. KeysStayHome
  BY <1>1, DeviceAssumption DEF Init, KeysStayHome, Current
<1>5. CodesComing
  BY DEF Init, CodesComing
<1>. QED
  BY <1>2, <1>3, <1>4, <1>5 DEF Inv

LEMMA NextInv == Inv /\ [Next]_vars => Inv'
<1>. SUFFICES ASSUME Inv, [Next]_vars PROVE Inv'
  OBVIOUS
<1>1. CASE UNCHANGED vars
  <2>1. BrowserOK'
    BY <1>1, BrowserTyped DEF BrowserOK, vars, storage, tabs, history
  <2>. QED
    BY <1>1, <2>1, TabStep DEF vars, history
<1>2. CASE \E s \in Slots, t \in Tabs :
             \/ AskLogin(s, t) \/ AskRegister(s, t) \/ AskChange(s, t) \/ AskRecovery(s, t)
             \/ AskDelete(s, t) \/ AskLogout(s, t) \/ Unlock(s, t) \/ SeekKey(s, t)
  BY <1>2, AskSteps
<1>3. CASE \E s \in Slots :
             \/ ReadVault(s) \/ Deny(s) \/ ServeLogin(s) \/ ServeRegister(s) \/ ServeChange(s)
             \/ ServeRecovery(s) \/ ServeDelete(s) \/ ServeLogout(s)
             \/ Denied(s) \/ LoggedIn(s) \/ StoreAtLogin(s) \/ Enter(s) \/ Registering(s)
             \/ Unlocked(s) \/ ReadKey(s) \/ KeepKey(s) \/ Changed(s) \/ CodeMade(s)
             \/ Left(s) \/ AnswerLost(s)
  BY <1>3, FormSteps, SignInSteps, KeySteps, CodeSteps, LostStep, LoginStep, RegisterStep,
     ChangeStep, RecoveryStep, EndingSteps
<1>4. CASE \E t \in Tabs : Flush(t) \/ Reload(t) \/ TellSession(t) \/ ShowSession(t)
                          \/ Expired(t) \/ ChatExpired(t)
  BY <1>4, TabSteps, ReloadStep
<1>5. CASE Ended \/ \E u \in Users : Recover(u)
  BY <1>5, ElsewhereSteps
<1>6. CASE \E x \in Stores : Refuses(x) \/ Allows(x)
  BY <1>6, StoreSteps
<1>. QED
  BY <1>1, <1>2, <1>3, <1>4, <1>5, <1>6 DEF Next

LEMMA AlwaysInv == Spec => []Inv
BY InitInv, NextInv, PTL DEF Spec

\* Every variable of the browser and of the server it sees keeps its shape.
THEOREM DeviceTyping == Spec => []TypeOK
<1>1. Inv => TypeOK
  BY DEF Inv
<1>. QED
  BY <1>1, AlwaysInv, PTL

\* Whatever operations and tabs cross, what the server keeps of an account is
\* its own key under its current password, and its own key for the recovery
\* code: preparePasswordChange and setupRecoveryKey never send another's.
THEOREM KeysNeverStray == Spec => []KeysStayHome
<1>1. Inv => KeysStayHome
  BY DEF Inv
<1>. QED
  BY <1>1, AlwaysInv, PTL

\* The recovery code the server accepts is one the user was shown, unless the
\* page never got to show it: no operation replaces it in silence.
THEOREM CodesReachTheirUsers == Spec => []CodesShown
<1>1. Inv => CodesShown
  BY DEF Inv, CodesComing, Coming, CodesShown, AtRest
<1>. QED
  BY <1>1, AlwaysInv, PTL

-----------------------------------------------------------------------------
(* What the device holds while nothing has crossed.                         *)

\* Sessions are opened one after the other, and end with their account.
SessionsFit ==
  /\ cookie <= used.sessions
  /\ \A n \in 1 .. MaxSessions : /\ n > used.sessions => sessions[n] = Nobody
                                 /\ sessions[n] # Nobody => pw[sessions[n]] > 0
  /\ \A s \in Slots :
       /\ tasks[s].session <= used.sessions
       /\ tasks[s].kind = "login" /\ tasks[s].step = "done" => tasks[s].session > 0

Touches(k) == Writes(k) \/ k = "read"

\* While nothing has crossed, one task at most writes to the device, and what
\* waits for IndexedDB waits in one tab; a tab that asks who is signed in is empty.
Alone ==
  /\ \A r, s \in Slots : Writes(tasks[s].kind) /\ Touches(tasks[r].kind) => r = s
  /\ \A s \in Slots, o \in Tabs :
       Touches(tasks[s].kind) /\ queue[o] # <<>> => o = tasks[s].tab
  /\ \A o, p \in Tabs : queue[o] # <<>> /\ queue[p] # <<>> => o = p
  /\ \A o \in Tabs : asking[o].state # "none" =>
       /\ mem[o] = Nobody /\ shown[o] = Nobody
       /\ \A p \in Tabs : queue[p] = <<>>
       /\ \A s \in Slots : /\ ~Writes(tasks[s].kind)
                           /\ tasks[s].kind = "read" => tasks[s].tab # o

\* What IndexedDB holds once every write has been done, unless it refused the last.
Final(S) ==
  /\ \A t \in Tabs : queue[t] # <<>> => queue[t][Len(queue[t])] \in S
  /\ (\A t \in Tabs : queue[t] = <<>>) => idb \in S \/ "idb" \in behind

\* The keys of the owner of the cookie, but in the middle of a sign-in or of a
\* change of password.
OwnersVault ==
  Owner \in Users
    => \/ vault \in {NoVault, [key |-> Owner, with |-> Current(Owner)]}
       \/ "vault" \in behind
       \/ \E s \in Slots : tasks[s].kind = "change" /\ tasks[s].step = "done"
OwnersKey ==
  Owner \in Users
    => \/ Final({Nobody, Owner})
       \/ \E s \in Slots : tasks[s].kind = "login" /\ tasks[s].step = "opening"

NothingLeft ==
  out => /\ vault = NoVault \/ "vault" \in behind
         /\ Final({Nobody})
         /\ \A s \in Slots : /\ tasks[s].kind \notin {"login", "register", "unlock"}
                             /\ tasks[s].kind = "change" => tasks[s].key = NoVault

OwnMemory == \A t \in Tabs : SignedIn(t) => mem[t] \in {Nobody, shown[t]}

\* What a task that touches the device will leave there.
LoginLeaves(s) ==
  LET x == tasks[s] IN
  /\ ~SignedIn(x.tab)
  /\ x.kind = "register" \/ x.step \notin {"ready", "denied"} => x.typed.of = x.user
  /\ x.kind = "login" /\ x.step = "done" =>
       /\ sessions[x.session] \in {x.user, Nobody}
       /\ sessions[x.session] = x.user
            => x.key = [key |-> x.user, with |-> Current(x.user)]
  /\ x.step \in {"opening", "saving"} =>
       /\ Owner \in {x.user, Nobody}
       /\ Owner = x.user => x.key = [key |-> x.user, with |-> Current(x.user)]
  /\ x.step = "saving" => mem[x.tab] \in {Nobody, x.user}
UnlockLeaves(s) ==
  LET x == tasks[s] IN
  /\ x.key.key = x.user /\ Owner \in {x.user, Nobody}
  /\ SignedIn(x.tab) => shown[x.tab] = x.user
ReadLeaves(s) ==
  LET x == tasks[s] IN
  /\ Final({Nobody, x.user})
  /\ SignedIn(x.tab) => shown[x.tab] = x.user
  /\ x.step = "saving" => x.key.key \in {Nobody, x.user}
ChangeLeaves(s) ==
  LET x == tasks[s] IN
  x.step = "done" => /\ Owner \in {x.user, Nobody}
                     /\ Owner = x.user => x.key = [key |-> x.user, with |-> Current(x.user)]
TaskLeaves(s) ==
  /\ tasks[s].kind \in {"login", "register"} => LoginLeaves(s)
  /\ tasks[s].kind = "unlock" => UnlockLeaves(s)
  /\ tasks[s].kind = "read" => ReadLeaves(s)
  /\ tasks[s].kind = "change" => ChangeLeaves(s)

Tidy ==
  /\ Alone /\ OwnersVault /\ OwnersKey /\ NothingLeft /\ OwnMemory
  /\ \A s \in Slots : TaskLeaves(s)

DeviceInv == SessionsFit /\ (~stray => Tidy)
-----------------------------------------------------------------------------
(* What a step that the tasks of others do not notice keeps.               *)

\* Sessions end, and the passwords of those who are still signed in stay.
SessionsEnd ==
  \A n \in 1 .. MaxSessions :
    sessions'[n] = Nobody \/ (sessions'[n] = sessions[n] /\ pw'[sessions[n]] = pw[sessions[n]])

LEMMA OwnerKept ==
  ASSUME Inv, SessionsEnd, cookie' = cookie
  PROVE  Owner' = Nobody \/ (Owner' = Owner /\ pw'[Owner] = pw[Owner])
<1>1. cookie \in 0 .. MaxSessions /\ MaxSessions \in Nat
  BY DeviceAssumption DEF Inv, TypeOK
<1>2. CASE cookie = 0
  BY <1>2 DEF Owner
<1>3. CASE cookie # 0
  <2>1. cookie \in 1 .. MaxSessions
    BY <1>1, <1>3
  <2>. QED
    BY <1>3, <2>1 DEF Owner, SessionsEnd
<1>. QED
  BY <1>2, <1>3

\* The tasks of a step, less those that end.
Fewer ==
  \A s \in Slots :
    /\ Writes(tasks'[s].kind) => Writes(tasks[s].kind)
    /\ tasks'[s].kind = "read" => tasks[s].kind = "read"
    /\ Touches(tasks'[s].kind) => tasks'[s].tab = tasks[s].tab

LEMMA AloneKept ==
  ASSUME Alone, Fewer,
         \A o \in Tabs : queue'[o] # <<>>
           => queue[o] # <<>> \/ \E s \in Slots : Writes(tasks[s].kind) /\ tasks[s].tab = o,
         \A o \in Tabs : asking'[o].state # "none"
           => asking[o].state # "none" /\ mem'[o] = mem[o] /\ shown'[o] = shown[o]
  PROVE  Alone'
<1>1. \A r, s \in Slots : Writes(tasks'[s].kind) /\ Touches(tasks'[r].kind) => r = s
  BY DEF Alone, Fewer, Touches
<1>2. ASSUME NEW s \in Slots, NEW o \in Tabs, Touches(tasks'[s].kind), queue'[o] # <<>>
      PROVE  o = tasks'[s].tab
  <2>1. Touches(tasks[s].kind) /\ tasks'[s].tab = tasks[s].tab
    BY <1>2 DEF Fewer, Touches
  <2>. QED
    BY <1>2, <2>1 DEF Alone
<1>3. ASSUME NEW o \in Tabs, NEW p \in Tabs, queue'[o] # <<>>, queue'[p] # <<>>
      PROVE  o = p
  BY <1>3 DEF Alone, Touches
<1>4. ASSUME NEW o \in Tabs, asking'[o].state # "none"
      PROVE  /\ mem'[o] = Nobody /\ shown'[o] = Nobody
             /\ \A p \in Tabs : queue'[p] = <<>>
             /\ \A s \in Slots : /\ ~Writes(tasks'[s].kind)
                                 /\ tasks'[s].kind = "read" => tasks'[s].tab # o
  <2>1. asking[o].state # "none" /\ mem'[o] = mem[o] /\ shown'[o] = shown[o]
    BY <1>4
  <2>2. /\ mem[o] = Nobody /\ shown[o] = Nobody
        /\ \A p \in Tabs : queue[p] = <<>>
        /\ \A s \in Slots : /\ ~Writes(tasks[s].kind)
                            /\ tasks[s].kind = "read" => tasks[s].tab # o
    BY <2>1 DEF Alone
  <2>. QED
    BY <2>1, <2>2 DEF Fewer, Touches
<1>. QED
  BY <1>1, <1>2, <1>3, <1>4 DEF Alone, Touches

\* While one task writes, no other touches the device.
LEMMA OthersLeave ==
  ASSUME Alone, NEW s \in Slots, Writes(tasks[s].kind), NEW r \in Slots, r # s,
         tasks'[r] = tasks[r]
  PROVE  TaskLeaves(r)'
<1>1. ~Touches(tasks[r].kind)
  BY DEF Alone
<1>. QED
  BY <1>1 DEF TaskLeaves, Touches, Writes

\* A task a step does not touch leaves what it would have left.
LEMMA TaskKept ==
  ASSUME Inv, NEW s \in Slots, TaskLeaves(s), tasks'[s] = tasks[s], SessionsEnd,
         cookie' = cookie, tasks[s].session > 0 \/ tasks[s].kind # "login" \/ tasks[s].step # "done",
         tasks[s].kind # "none" =>
           /\ shown'[tasks[s].tab] \in {shown[tasks[s].tab], Nobody}
           /\ mem'[tasks[s].tab] \in {mem[tasks[s].tab], Nobody},
         tasks[s].kind = "read" => (Final({Nobody, tasks[s].user}) => Final({Nobody, tasks[s].user})')
  PROVE  TaskLeaves(s)'
<1>1. Owner' = Nobody \/ (Owner' = Owner /\ pw'[Owner] = pw[Owner])
  BY OwnerKept
<1>2. Nobody \notin Users
  BY DeviceAssumption
<1>3. tasks[s] \in Task /\ (tasks[s].kind # "none" => tasks[s].user \in Users)
  BY DEF Inv, TypeOK, KeysFit, TaskFits
<1>4. tasks[s].kind \in {"login", "register"} => LoginLeaves(s)'
  <2>. SUFFICES ASSUME tasks[s].kind \in {"login", "register"} PROVE LoginLeaves(s)'
    OBVIOUS
  <2>1. LoginLeaves(s)
    BY DEF TaskLeaves
  <2>2. ~SignedIn(tasks[s].tab)'
    BY <1>2, <2>1 DEF LoginLeaves, SignedIn
  <2>3. CASE tasks[s].kind = "login" /\ tasks[s].step = "done"
    <3>1. tasks[s].session \in 1 .. MaxSessions
      <4>1. tasks[s].session \in 0 .. MaxSessions /\ MaxSessions \in Nat
        BY <1>3, DeviceAssumption DEF Task
      <4>2. tasks[s].session > 0
        BY <2>3
      <4>. QED
        BY <4>1, <4>2
    <3>. QED
      BY <1>2, <1>3, <2>1, <2>2, <2>3, <3>1 DEF LoginLeaves, SessionsEnd, Current
  <2>4. CASE ~(tasks[s].kind = "login" /\ tasks[s].step = "done")
    BY <1>1, <1>2, <1>3, <2>1, <2>2, <2>4 DEF LoginLeaves, Current
  <2>. QED
    BY <2>3, <2>4
<1>5. tasks[s].kind = "unlock" => UnlockLeaves(s)'
  BY <1>1, <1>2, <1>3 DEF TaskLeaves, UnlockLeaves, SignedIn
<1>6. tasks[s].kind = "read" => ReadLeaves(s)'
  BY <1>1, <1>2, <1>3 DEF TaskLeaves, ReadLeaves, SignedIn
<1>7. tasks[s].kind = "change" => ChangeLeaves(s)'
  BY <1>1, <1>2, <1>3 DEF TaskLeaves, ChangeLeaves, Current
<1>. QED
  BY <1>4, <1>5, <1>6, <1>7 DEF TaskLeaves

\* The same keys end up in IndexedDB.
FinalKept == \A S \in SUBSET People : Final(S) => Final(S)'

LEMMA FinalSame ==
  ASSUME UNCHANGED <<idb, queue>>, "idb" \in behind => "idb" \in behind'
  PROVE  FinalKept
BY DEF FinalKept, Final

LEMMA VaultKept ==
  ASSUME OwnersVault, Owner' = Nobody \/ (Owner' = Owner /\ pw'[Owner] = pw[Owner]),
         vault' = vault, "vault" \in behind => "vault" \in behind',
         \A s \in Slots : tasks[s].kind = "change" /\ tasks[s].step = "done" => tasks'[s] = tasks[s]
  PROVE  OwnersVault'
<1>1. Nobody \notin Users
  BY DeviceAssumption
<1>. QED
  BY <1>1 DEF OwnersVault, Current

LEMMA KeyKept ==
  ASSUME Inv, OwnersKey, Owner' \in {Owner, Nobody}, FinalKept,
         \A s \in Slots : tasks[s].kind = "login" /\ tasks[s].step = "opening" => tasks'[s] = tasks[s]
  PROVE  OwnersKey'
<1>1. Nobody \notin Users /\ {Nobody, Owner} \in SUBSET People
  BY DeviceAssumption, OwnerTyped DEF People
<1>2. SUFFICES ASSUME Owner' \in Users
               PROVE  \/ Final({Nobody, Owner})'
                      \/ \E s \in Slots : tasks'[s].kind = "login" /\ tasks'[s].step = "opening"
  BY DEF OwnersKey
<1>3. Owner' = Owner
  BY <1>1, <1>2
<1>4. CASE Final({Nobody, Owner})
  <2>1. PICK S \in SUBSET People : S = {Nobody, Owner}
    BY <1>1
  <2>2. Final(S)'
    BY <1>4, <2>1 DEF FinalKept
  <2>3. S = {Nobody, Owner'}
    BY <1>3, <2>1
  <2>. QED
    BY <2>2, <2>3 DEF Final
<1>5. CASE \E s \in Slots : tasks[s].kind = "login" /\ tasks[s].step = "opening"
  BY <1>5
<1>. QED
  BY <1>2, <1>3, <1>4, <1>5 DEF OwnersKey

LEMMA NothingKept ==
  ASSUME NothingLeft, out' => out, vault' = vault, FinalKept,
         "vault" \in behind => "vault" \in behind',
         \A s \in Slots :
           /\ tasks'[s].kind \in {"login", "register", "unlock"}
                => tasks[s].kind \in {"login", "register", "unlock"}
           /\ out /\ tasks'[s].kind = "change" => tasks'[s].key = NoVault
  PROVE  NothingLeft'
<1>1. {Nobody} \in SUBSET People
  BY DEF People
<1>2. Final({Nobody}) => Final({Nobody})'
  BY <1>1 DEF FinalKept
<1>. QED
  BY <1>2 DEF NothingLeft, NoVault, NoPassword

LEMMA MemoryKept ==
  ASSUME OwnMemory,
         \A t \in Tabs : shown'[t] \in {shown[t], Nobody} /\ mem'[t] \in {mem[t], Nobody}
  PROVE  OwnMemory'
<1>1. Nobody \notin Users
  BY DeviceAssumption
<1>. QED
  BY <1>1 DEF OwnMemory, SignedIn

\* A step of a task that leaves the device as it is.
LEMMA QuietStep ==
  ASSUME Inv, SessionsFit, Tidy, NEW s \in Slots, \A r \in Slots \ {s} : tasks'[r] = tasks[r],
         Fewer, UNCHANGED <<cookie, storage, tabs>>, behind' = behind, out' = out, Owner' \in {Owner, Nobody},
         Writes(tasks[s].kind) \/ SessionsEnd, TaskLeaves(s)', OwnersVault',
         ~(tasks[s].kind = "login" /\ tasks[s].step = "opening"),
         tasks'[s].kind \in {"login", "register", "unlock"}
           => tasks[s].kind \in {"login", "register", "unlock"},
         out /\ tasks'[s].kind = "change" => tasks'[s].key = NoVault
  PROVE  Tidy'
<1>1. UNCHANGED <<vault, idb, shown, asking, mem, queue>>
  BY DEF storage, tabs
<1>2. FinalKept
  BY <1>1, FinalSame
<1>3. Alone'
  BY <1>1, AloneKept DEF Tidy
<1>4. OwnersKey'
  BY <1>2, KeyKept DEF Tidy
<1>5. NothingLeft'
  <2>1. \A r \in Slots : out /\ tasks[r].kind = "change" => tasks[r].key = NoVault
    BY DEF Tidy, NothingLeft
  <2>. QED
    BY <1>1, <1>2, <2>1, NothingKept DEF Tidy
<1>6. OwnMemory'
  BY <1>1, MemoryKept DEF Tidy
<1>7. ASSUME NEW r \in Slots, r # s
      PROVE  TaskLeaves(r)'
  <2>1. CASE Writes(tasks[s].kind)
    BY <1>7, <2>1, OthersLeave DEF Tidy
  <2>2. CASE SessionsEnd
    <3>1. tasks[r].session > 0 \/ tasks[r].kind # "login" \/ tasks[r].step # "done"
      BY DEF SessionsFit
    <3>2. Final({Nobody, tasks[r].user}) => Final({Nobody, tasks[r].user})'
      BY <1>1, <1>7 DEF Final
    <3>. QED
      BY <1>1, <1>7, <2>2, <3>1, <3>2, TaskKept DEF Tidy
  <2>. QED
    BY <2>1, <2>2
<1>8. \A r \in Slots : TaskLeaves(r)'
  BY <1>7
<1>. QED
  BY <1>3, <1>4, <1>5, <1>6, <1>8 DEF Tidy

-----------------------------------------------------------------------------
(* The steps that leave the device alone: forms and the server.            *)

LEMMA FormTidy ==
  ASSUME Inv, SessionsFit, Tidy, NEW s \in Slots,
         UNCHANGED <<server, cookie, storage, tabs>>, behind' = behind /\ out' = out,
         \A r \in Slots \ {s} : tasks'[r] = tasks[r],
         \/ tasks'[s].kind = "none"
         \/ tasks'[s].kind = tasks[s].kind /\ tasks'[s].tab = tasks[s].tab
         \/ tasks[s].kind = "register" /\ tasks'[s].kind = "login" /\ tasks'[s].tab = tasks[s].tab,
         ~(tasks[s].kind = "login" /\ tasks[s].step = "opening"),
         ~(tasks[s].kind = "change" /\ tasks[s].step = "done"),
         TaskLeaves(s)', out /\ tasks'[s].kind = "change" => tasks'[s].key = NoVault
  PROVE  Tidy'
<1>1. Owner' = Owner /\ pw' = pw /\ sessions' = sessions /\ vault' = vault /\ cookie' = cookie
  BY DEF Owner, server, storage
<1>2. SessionsEnd
  BY <1>1 DEF SessionsEnd
<1>3. OwnersVault'
  BY <1>1, VaultKept DEF Tidy
<1>4. Fewer
  BY DEF Fewer, Writes, Touches
<1>. QED
  BY <1>1, <1>2, <1>3, <1>4, QuietStep

LEMMA FormsTidy ==
  ASSUME Inv, SessionsFit, Tidy, NEW s \in Slots, ~stray', ReadVault(s) \/ Deny(s) \/ Denied(s)
  PROVE  Tidy'
<1>1. tasks \in [Slots -> Task] /\ tasks[s] \in Task /\ TaskFits(tasks[s]) /\ TaskLeaves(s)
  BY TaskTyped DEF Tidy
<1>2. behind' = behind /\ out' = out /\ UNCHANGED <<server, cookie, storage, tabs>>
  BY DEF ReadVault, Deny, Denied, history
<1>3. out /\ tasks[s].kind = "change" => tasks[s].key = NoVault
  BY DEF Tidy, NothingLeft
<1>4. ASSUME End(s), tasks[s].step \in {"typed", "denied"}
      PROVE  Tidy'
  <2>1. tasks'[s].kind = "none" /\ \A r \in Slots \ {s} : tasks'[r] = tasks[r]
    BY <1>1, <1>4 DEF End, Idle
  <2>. QED
    BY <1>2, <1>4, <2>1, FormTidy DEF TaskLeaves
<1>5. CASE ReadVault(s) /\ ~End(s)
  <2>1. /\ tasks' = [tasks EXCEPT ![s].step = "ready", ![s].key = vault]
        /\ tasks[s].step = "typed" /\ tasks[s].kind \in {"change", "recovery"}
    BY <1>1, <1>5 DEF ReadVault, TaskFits
  <2>2. /\ tasks'[s].kind = tasks[s].kind /\ tasks'[s].tab = tasks[s].tab
        /\ tasks'[s].step = "ready" /\ tasks'[s].key = vault
        /\ \A r \in Slots \ {s} : tasks'[r] = tasks[r]
    BY <1>1, <2>1 DEF Task
  <2>3. out => vault = NoVault
    BY <1>5 DEF Tidy, NothingLeft, ReadVault
  <2>. QED
    BY <1>2, <2>1, <2>2, <2>3, FormTidy DEF TaskLeaves, ChangeLeaves
<1>6. CASE Deny(s)
  <2>1. /\ tasks[s].step = "ready" /\ tasks'[s] = [tasks[s] EXCEPT !.step = "denied"]
        /\ \A r \in Slots \ {s} : tasks'[r] = tasks[r]
    BY <1>1, <1>6 DEF Deny, To
  <2>2. /\ tasks'[s].kind = tasks[s].kind /\ tasks'[s].tab = tasks[s].tab
        /\ tasks'[s].step = "denied" /\ tasks'[s].key = tasks[s].key
        /\ tasks'[s].user = tasks[s].user /\ tasks'[s].typed = tasks[s].typed
    BY <1>1, <2>1 DEF Task
  <2>3. TaskLeaves(s)'
    <3>1. UNCHANGED <<shown, mem, idb, queue, behind>> /\ Owner' = Owner
      BY <1>2 DEF tabs, storage, server, Owner
    <3>. QED
      BY <1>1, <2>1, <2>2, <3>1
      DEF TaskLeaves, LoginLeaves, UnlockLeaves, ReadLeaves, ChangeLeaves, SignedIn, Final
  <2>. QED
    BY <1>2, <1>3, <2>1, <2>2, <2>3, FormTidy
<1>. QED
  BY <1>4, <1>5, <1>6 DEF ReadVault, Denied

LEMMA CodesTidy ==
  ASSUME Inv, SessionsFit, Tidy, NEW s \in Slots, Registering(s) \/ CodeMade(s)
  PROVE  Tidy'
<1>1. tasks \in [Slots -> Task] /\ tasks[s] \in Task /\ TaskLeaves(s)
  BY TaskTyped DEF Tidy
<1>2. behind' = behind /\ out' = out /\ UNCHANGED <<server, cookie, storage, tabs>>
  BY DEF Registering, CodeMade
<1>3. CASE Registering(s)
  <2>1. /\ tasks[s].kind = "register"
        /\ tasks'[s] = [tasks[s] EXCEPT !.kind = "login", !.step = "ready", !.code = 0]
        /\ \A r \in Slots \ {s} : tasks'[r] = tasks[r]
    BY <1>1, <1>3 DEF Registering
  <2>2. /\ tasks'[s].kind = "login" /\ tasks'[s].step = "ready" /\ tasks'[s].tab = tasks[s].tab
    BY <1>1, <2>1 DEF Task
  <2>3. TaskLeaves(s)'
    <3>1. shown' = shown
      BY <1>2 DEF tabs
    <3>. QED
      BY <1>1, <2>1, <2>2, <3>1 DEF TaskLeaves, LoginLeaves, SignedIn
  <2>. QED
    BY <1>2, <2>1, <2>2, <2>3, FormTidy
<1>4. CASE CodeMade(s)
  <2>1. tasks[s].kind = "recovery" /\ tasks'[s].kind = "none"
        /\ \A r \in Slots \ {s} : tasks'[r] = tasks[r]
    BY <1>1, <1>4 DEF CodeMade, End, Idle
  <2>. QED
    BY <1>2, <2>1, FormTidy DEF TaskLeaves
<1>. QED
  BY <1>3, <1>4

LEMMA ReadKeyTidy ==
  ASSUME Inv, SessionsFit, Tidy, NEW s \in Slots, ~stray', ReadKey(s)
  PROVE  Tidy'
<1>1. tasks \in [Slots -> Task] /\ tasks[s] \in Task /\ TaskLeaves(s) /\ tasks[s].key \in Wrapped
  BY TaskTyped DEF Tidy
<1>2. /\ tasks[s].kind = "read" /\ queue[tasks[s].tab] = <<>>
      /\ tasks' = [tasks EXCEPT ![s].step = "saving", ![s].key.key = idb]
      /\ behind' = behind /\ out' = out /\ UNCHANGED <<server, cookie, storage, tabs>>
  BY DEF ReadKey, history
<1>3. tasks'[s] = [tasks[s] EXCEPT !.step = "saving", !.key.key = idb]
      /\ \A r \in Slots \ {s} : tasks'[r] = tasks[r]
  BY <1>1, <1>2
<1>4. /\ tasks'[s].kind = "read" /\ tasks'[s].tab = tasks[s].tab /\ tasks'[s].user = tasks[s].user
      /\ tasks'[s].key.key = idb
  BY <1>1, <1>2, <1>3 DEF Task, Wrapped
<1>5. \A o \in Tabs : queue[o] = <<>>
  BY <1>2 DEF Tidy, Alone, Touches
<1>6. idb \in {Nobody, tasks[s].user}
  <2>1. "idb" \notin behind
    BY DEF ReadKey
  <2>. QED
    BY <1>1, <1>2, <1>5, <2>1 DEF TaskLeaves, ReadLeaves, Final
<1>7. TaskLeaves(s)'
  <2>1. UNCHANGED <<shown, idb, queue>>
    BY <1>2 DEF tabs, storage
  <2>. QED
    BY <1>1, <1>2, <1>4, <1>6, <2>1 DEF TaskLeaves, ReadLeaves, SignedIn, Final
<1>. QED
  BY <1>2, <1>3, <1>4, <1>7, FormTidy

LEMMA LostTidy ==
  ASSUME Inv, SessionsFit, Tidy, NEW s \in Slots, AnswerLost(s), tasks[s].kind # "logout", ~stray'
  PROVE  Tidy'
<1>1. tasks \in [Slots -> Task] /\ tasks[s] \in Task
  BY TaskTyped
<1>2. /\ tasks[s].step \in {"ready", "done"} /\ tasks' = [tasks EXCEPT ![s] = Idle]
      /\ behind' = behind /\ out' = out /\ UNCHANGED <<server, cookie, storage, tabs>>
      /\ ~(tasks[s].kind = "change" /\ tasks[s].step = "done")
  BY DEF AnswerLost, End, storage, tabs
<1>3. tasks'[s].kind = "none" /\ \A r \in Slots \ {s} : tasks'[r] = tasks[r]
  BY <1>1, <1>2 DEF Idle
<1>. QED
  BY <1>2, <1>3, FormTidy DEF TaskLeaves

\* A request reaches the server, which the device does not see yet.
LEMMA ServeLoginTidy ==
  ASSUME Inv, SessionsFit, Tidy, NEW s \in Slots, ServeLogin(s)
  PROVE  Tidy'
<1>. DEFINE u == tasks[s].user
            new == used.sessions + 1
<1>1. /\ tasks[s].kind = "login" /\ tasks[s].step = "ready" /\ tasks[s].typed = Current(u)
      /\ used.sessions < MaxSessions /\ sessions' = [sessions EXCEPT ![new] = u]
      /\ tasks' = [tasks EXCEPT ![s].step = "done", ![s].key = vaultOf[u], ![s].session = new]
      /\ pw' = pw /\ UNCHANGED <<cookie, storage, tabs>> /\ behind' = behind /\ out' = out
  BY DEF ServeLogin, Reaches, Accepts, Count, history
<1>2. /\ tasks \in [Slots -> Task] /\ tasks[s] \in Task /\ TaskFits(tasks[s]) /\ u \in Users
      /\ TaskLeaves(s)
  BY <1>1, TaskTyped DEF TaskFits, Tidy
<1>3. vaultOf[u] = [key |-> u, with |-> Current(u)]
  BY <1>1, <1>2 DEF TaskFits, Current, Inv, KeysStayHome
<1>4. /\ tasks'[s].kind = "login" /\ tasks'[s].step = "done" /\ tasks'[s].tab = tasks[s].tab
      /\ tasks'[s].user = u /\ tasks'[s].typed = tasks[s].typed
      /\ tasks'[s].key = vaultOf[u] /\ tasks'[s].session = new
      /\ \A r \in Slots \ {s} : tasks'[r] = tasks[r]
  BY <1>1, <1>2 DEF Task
<1>5. /\ sessions \in [1 .. MaxSessions -> People] /\ new \in 1 .. MaxSessions
      /\ cookie \in 0 .. MaxSessions /\ cookie # new
  <2>1. /\ used.sessions \in 0 .. MaxSessions /\ MaxSessions \in Nat
        /\ cookie \in 0 .. MaxSessions /\ cookie <= used.sessions
        /\ sessions \in [1 .. MaxSessions -> People] /\ used.sessions < MaxSessions
    BY <1>1, ServerTyped, BrowserTyped, DeviceAssumption DEF SessionsFit, BrowserOK
  <2>. QED
    BY <2>1
<1>. HIDE DEF new
<1>6. Owner' = Owner
  BY <1>1, <1>5 DEF Owner
<1>7. sessions'[new] = u
  BY <1>1, <1>5
<1>8. TaskLeaves(s)'
  <2>1. ~SignedIn(tasks[s].tab) /\ shown' = shown
    BY <1>1, <1>2 DEF TaskLeaves, LoginLeaves, tabs
  <2>2. ~SignedIn(tasks[s].tab)'
    BY <1>4, <2>1 DEF SignedIn
  <2>3. tasks'[s].typed.of = u /\ sessions'[tasks'[s].session] = u
    BY <1>1, <1>4, <1>7 DEF Current
  <2>4. tasks'[s].key = [key |-> u, with |-> [of |-> u, n |-> pw'[u]]]
    BY <1>1, <1>3, <1>4 DEF Current
  <2>. QED
    BY <1>4, <2>2, <2>3, <2>4 DEF TaskLeaves, LoginLeaves, Current
<1>9. OwnersVault'
  BY <1>1, <1>4, <1>6, VaultKept DEF Tidy, storage
<1>10. Fewer
  BY <1>1, <1>4 DEF Fewer, Writes, Touches
<1>. QED
  BY <1>1, <1>4, <1>6, <1>8, <1>9, <1>10, QuietStep DEF Writes

LEMMA ServeRegisterTidy ==
  ASSUME Inv, SessionsFit, Tidy, NEW s \in Slots, ServeRegister(s)
  PROVE  Tidy'
<1>. DEFINE u == tasks[s].user
<1>1. /\ tasks[s].kind = "register" /\ tasks[s].step = "ready" /\ pw[u] = 0
      /\ pw' = [pw EXCEPT ![u] = 1] /\ sessions' = sessions
      /\ tasks' = [tasks EXCEPT ![s].step = "done", ![s].code = NewCode]
      /\ UNCHANGED <<cookie, storage, tabs>> /\ behind' = behind /\ out' = out
  BY DEF ServeRegister, Reaches, Accepts, history
<1>2. tasks \in [Slots -> Task] /\ tasks[s] \in Task /\ TaskLeaves(s)
  BY TaskTyped DEF Tidy
<1>3. /\ tasks'[s].kind = "register" /\ tasks'[s].step = "done" /\ tasks'[s].tab = tasks[s].tab
      /\ tasks'[s].user = u /\ tasks'[s].typed = tasks[s].typed
      /\ \A r \in Slots \ {s} : tasks'[r] = tasks[r]
  BY <1>1, <1>2 DEF Task
<1>4. Owner' = Owner
  BY <1>1 DEF Owner
<1>5. Owner = Nobody \/ pw'[Owner] = pw[Owner]
  <2>1. Owner = Nobody \/ pw[Owner] > 0
    <3>1. cookie \in 0 .. MaxSessions /\ MaxSessions \in Nat
      BY BrowserTyped, DeviceAssumption DEF BrowserOK
    <3>2. cookie = 0 \/ cookie \in 1 .. MaxSessions
      BY <3>1
    <3>. QED
      BY <3>2 DEF Owner, SessionsFit
  <2>. QED
    BY <1>1, <2>1, ServerTyped
<1>6. TaskLeaves(s)'
  <2>1. ~SignedIn(tasks[s].tab) /\ shown' = shown /\ tasks[s].typed.of = u
    BY <1>1, <1>2 DEF TaskLeaves, LoginLeaves, tabs
  <2>2. ~SignedIn(tasks[s].tab)'
    BY <1>3, <2>1 DEF SignedIn
  <2>. QED
    BY <1>3, <2>1, <2>2 DEF TaskLeaves, LoginLeaves
<1>7. OwnersVault'
  BY <1>1, <1>3, <1>4, <1>5, VaultKept DEF Tidy, storage
<1>8. Fewer
  BY <1>1, <1>3 DEF Fewer, Writes, Touches
<1>. QED
  BY <1>1, <1>3, <1>4, <1>6, <1>7, <1>8, QuietStep DEF Writes

\* Who the server takes a proof from is the owner of the cookie.
LEMMA ProvesOwner ==
  ASSUME Inv, NEW u, NEW p, Proves(u, p)
  PROVE  /\ u \in Users /\ Owner = u /\ u # Nobody /\ sessions[cookie] = u
         /\ cookie \in 1 .. MaxSessions /\ DOMAIN sessions = 1 .. MaxSessions /\ cookie # 0
<1>1. cookie \in 0 .. MaxSessions /\ MaxSessions \in Nat
  BY BrowserTyped, DeviceAssumption DEF BrowserOK
<1>2. u \in Users /\ Owner = u /\ u # Nobody
  BY DeviceAssumption DEF Proves
<1>3. cookie # 0 /\ sessions[cookie] = u
  BY <1>2 DEF Owner
<1>. QED
  BY <1>1, <1>2, <1>3, ServerTyped

LEMMA ServeChangeTidy ==
  ASSUME Inv, SessionsFit, Tidy, NEW s \in Slots, ServeChange(s)
  PROVE  Tidy'
<1>. DEFINE u == tasks[s].user
            new == Wrap(tasks[s].key.key, u, pw[u] + 1)
<1>1. /\ tasks[s].kind = "change" /\ tasks[s].step = "ready" /\ tasks[s].key # NoVault
      /\ Proves(u, tasks[s].typed)
      /\ pw' = [pw EXCEPT ![u] = @ + 1] /\ sessions' = Close(u, cookie)
      /\ tasks' = [tasks EXCEPT ![s].step = "done", ![s].key = new]
      /\ UNCHANGED <<cookie, storage, tabs>> /\ behind' = behind /\ out' = out
  BY DEF ServeChange, Reaches, Accepts, history
<1>2. tasks \in [Slots -> Task] /\ tasks[s] \in Task /\ TaskFits(tasks[s])
  BY TaskTyped
<1>3. /\ u \in Users /\ Owner = u /\ u # Nobody /\ sessions[cookie] = u
      /\ cookie \in 1 .. MaxSessions /\ DOMAIN sessions = 1 .. MaxSessions /\ cookie # 0
  BY <1>1, ProvesOwner
<1>4. tasks[s].key.key = u
  BY <1>1, <1>2 DEF TaskFits, Fits, Current, Proves
<1>5. /\ tasks'[s].kind = "change" /\ tasks'[s].step = "done" /\ tasks'[s].tab = tasks[s].tab
      /\ tasks'[s].user = u /\ tasks'[s].key = new
      /\ \A r \in Slots \ {s} : tasks'[r] = tasks[r]
  BY <1>1, <1>2 DEF Task
<1>6. Owner' = u
  BY <1>1, <1>3 DEF Owner, Close
<1>7. new = [key |-> u, with |-> [of |-> u, n |-> pw'[u]]]
  BY <1>1, <1>3, <1>4, ServerTyped DEF Wrap
<1>. HIDE DEF new
<1>8. TaskLeaves(s)'
  BY <1>3, <1>5, <1>6, <1>7 DEF TaskLeaves, ChangeLeaves, Current
<1>9. OwnersVault'
  BY <1>5 DEF OwnersVault
<1>10. Fewer
  BY <1>1, <1>5 DEF Fewer, Writes, Touches
<1>11. ~out
  BY <1>1 DEF Tidy, NothingLeft
<1>. QED
  BY <1>1, <1>3, <1>5, <1>6, <1>8, <1>9, <1>10, <1>11, QuietStep DEF Writes

\* What the server does that no answer is needed for, or that ends the session.
LEMMA ServeOtherTidy ==
  ASSUME Inv, SessionsFit, Tidy, NEW s \in Slots,
         ServeRecovery(s) \/ ServeDelete(s) \/ ServeLogout(s)
  PROVE  Tidy'
<1>1. tasks \in [Slots -> Task] /\ tasks[s] \in Task
  BY TaskTyped
<1>2. /\ tasks[s].kind \in {"recovery", "delete", "logout"}
      /\ UNCHANGED <<cookie, storage, tabs>> /\ behind' = behind /\ out' = out
  BY DEF ServeRecovery, ServeDelete, ServeLogout, Reaches, history
<1>3. /\ tasks'[s].kind = tasks[s].kind /\ tasks'[s].tab = tasks[s].tab
      /\ \A r \in Slots \ {s} : tasks'[r] = tasks[r]
  <2>1. CASE ServeRecovery(s)
    BY <1>1, <2>1 DEF ServeRecovery, Task
  <2>2. CASE To(s, "done")
    BY <1>1, <2>2 DEF To, Task
  <2>. QED
    BY <2>1, <2>2 DEF ServeDelete, ServeLogout
<1>4. vault' = vault /\ cookie' = cookie /\ Nobody \notin Users
  BY <1>2, DeviceAssumption DEF storage
<1>5. Fewer
  BY <1>2, <1>3 DEF Fewer, Writes, Touches
<1>6. TaskLeaves(s)'
  BY <1>2, <1>3 DEF TaskLeaves
<1>7. CASE ServeRecovery(s)
  <2>1. sessions' = sessions /\ pw' = pw
    BY <1>7 DEF ServeRecovery
  <2>2. Owner' = Owner /\ SessionsEnd
    BY <1>4, <2>1 DEF Owner, SessionsEnd
  <2>3. OwnersVault'
    BY <1>2, <1>3, <1>4, <2>1, <2>2, VaultKept DEF Tidy
  <2>. QED
    BY <1>2, <1>3, <1>5, <1>6, <2>2, <2>3, QuietStep
<1>8. CASE ServeDelete(s) \/ ServeLogout(s)
  <2>1. Owner' = Nobody
    <3>1. CASE ServeDelete(s)
      <4>1. Proves(tasks[s].user, tasks[s].typed) /\ sessions' = Close(tasks[s].user, 0)
        BY <3>1 DEF ServeDelete, Reaches, Accepts
      <4>. QED
        BY <1>4, <4>1, ProvesOwner DEF Owner, Close
    <3>2. CASE ServeLogout(s)
      <4>1. cookie = 0 \/ cookie \in DOMAIN sessions
        <5>1. cookie \in 0 .. MaxSessions /\ MaxSessions \in Nat
          BY BrowserTyped, DeviceAssumption DEF BrowserOK
        <5>2. cookie = 0 \/ cookie \in 1 .. MaxSessions
          BY <5>1
        <5>. QED
          BY <5>2, ServerTyped
      <4>. QED
        BY <1>4, <3>2, <4>1 DEF ServeLogout, Owner
    <3>. QED
      BY <1>8, <3>1, <3>2
  <2>2. OwnersVault'
    BY <1>4, <2>1 DEF OwnersVault
  <2>3. Writes(tasks[s].kind)
    BY <1>8 DEF ServeDelete, ServeLogout, Reaches, Writes
  <2>. QED
    BY <1>2, <1>3, <1>5, <1>6, <2>1, <2>2, <2>3, QuietStep
<1>. QED
  BY <1>7, <1>8 DEF ServeRecovery, ServeDelete, ServeLogout

\* What happens to the account elsewhere ends its sessions here.
LEMMA ElsewhereTidy ==
  ASSUME Inv, SessionsFit, Tidy, Ended \/ \E u \in Users : Recover(u)
  PROVE  Tidy'
<1>1. /\ tasks' = tasks /\ cookie' = cookie /\ behind' = behind /\ out' = out
      /\ UNCHANGED <<vault, idb, shown, asking, mem, queue>>
  BY DEF Ended, Recover, storage, tabs, history
<1>2. SessionsEnd
  <2>1. sessions \in [1 .. MaxSessions -> People] /\ pw \in [Users -> -1 .. MaxPw]
    BY ServerTyped
  <2>2. CASE Ended
    BY <2>1, <2>2 DEF Ended, SessionsEnd
  <2>3. ASSUME NEW u \in Users, Recover(u) PROVE SessionsEnd
    BY <2>1, <2>3 DEF Recover, SessionsEnd, Close
  <2>. QED
    BY <2>2, <2>3
<1>3. Owner' = Nobody \/ (Owner' = Owner /\ pw'[Owner] = pw[Owner])
  BY <1>1, <1>2, OwnerKept
<1>4. FinalKept
  BY <1>1, FinalSame
<1>5. Alone'
  <2>1. Fewer
    BY <1>1 DEF Fewer
  <2>. QED
    BY <1>1, <2>1, AloneKept DEF Tidy
<1>6. OwnersVault'
  BY <1>1, <1>3, VaultKept DEF Tidy
<1>7. OwnersKey'
  BY <1>1, <1>3, <1>4, KeyKept DEF Tidy
<1>8. NothingLeft'
  <2>1. \A r \in Slots : out /\ tasks[r].kind = "change" => tasks[r].key = NoVault
    BY DEF Tidy, NothingLeft
  <2>. QED
    BY <1>1, <1>4, <2>1, NothingKept DEF Tidy
<1>9. OwnMemory'
  BY <1>1, MemoryKept DEF Tidy
<1>10. ASSUME NEW r \in Slots PROVE TaskLeaves(r)'
  <2>1. tasks[r].session > 0 \/ tasks[r].kind # "login" \/ tasks[r].step # "done"
    BY DEF SessionsFit
  <2>2. Final({Nobody, tasks[r].user}) => Final({Nobody, tasks[r].user})'
    BY <1>1 DEF Final
  <2>. QED
    BY <1>1, <1>2, <2>1, <2>2, TaskKept DEF Tidy
<1>. QED
  BY <1>5, <1>6, <1>7, <1>8, <1>9, <1>10 DEF Tidy

\* A store that begins to refuse writes, or takes them again, holds what it held.
LEMMA StoresTidy ==
  ASSUME Inv, SessionsFit, Tidy, NEW x \in Stores, Refuses(x) \/ Allows(x)
  PROVE  Tidy'
<1>1. /\ UNCHANGED <<server, tasks, cookie, vault, idb, shown, asking, mem, queue>>
      /\ behind' = behind /\ out' = out
  BY DEF Refuses, Allows, tabs, history
<1>2. Owner' = Owner /\ pw' = pw /\ sessions' = sessions
  BY <1>1 DEF Owner, server
<1>3. FinalKept
  BY <1>1, FinalSame
<1>4. SessionsEnd /\ Fewer
  BY <1>1, <1>2 DEF SessionsEnd, Fewer
<1>5. Alone'
  BY <1>1, <1>4, AloneKept DEF Tidy
<1>6. OwnersVault'
  BY <1>1, <1>2, VaultKept DEF Tidy
<1>7. OwnersKey'
  BY <1>1, <1>2, <1>3, KeyKept DEF Tidy
<1>8. NothingLeft'
  <2>1. \A r \in Slots : out /\ tasks[r].kind = "change" => tasks[r].key = NoVault
    BY DEF Tidy, NothingLeft
  <2>. QED
    BY <1>1, <1>3, <2>1, NothingKept DEF Tidy
<1>9. OwnMemory'
  BY <1>1, MemoryKept DEF Tidy
<1>10. ASSUME NEW r \in Slots PROVE TaskLeaves(r)'
  <2>1. tasks[r].session > 0 \/ tasks[r].kind # "login" \/ tasks[r].step # "done"
    BY DEF SessionsFit
  <2>2. Final({Nobody, tasks[r].user}) => Final({Nobody, tasks[r].user})'
    BY <1>1 DEF Final
  <2>. QED
    BY <1>1, <1>4, <2>1, <2>2, TaskKept DEF Tidy
<1>. QED
  BY <1>5, <1>6, <1>7, <1>8, <1>9, <1>10 DEF Tidy

-----------------------------------------------------------------------------
(* The steps of the tabs.                                                  *)

\* A step of a tab that forgets rather than learns.
LEMMA TabTidy ==
  ASSUME Inv, SessionsFit, Tidy, tasks' = tasks, UNCHANGED <<server, cookie, vault>>, out' = out,
         FinalKept, "vault" \in behind => "vault" \in behind',
         \A o \in Tabs : queue'[o] # <<>> => queue[o] # <<>>,
         \A o \in Tabs : asking'[o].state # "none"
           => asking[o].state # "none" /\ mem'[o] = mem[o] /\ shown'[o] = shown[o],
         \A o \in Tabs : shown'[o] \in {shown[o], Nobody} /\ mem'[o] \in {mem[o], Nobody}
  PROVE  Tidy'
<1>1. Owner' = Owner /\ pw' = pw /\ sessions' = sessions /\ vault' = vault /\ cookie' = cookie
  BY DEF Owner, server
<1>2. SessionsEnd /\ Fewer
  BY <1>1 DEF SessionsEnd, Fewer
<1>3. Alone'
  BY <1>2, AloneKept DEF Tidy
<1>4. OwnersVault'
  BY <1>1, VaultKept DEF Tidy
<1>5. OwnersKey'
  BY <1>1, KeyKept DEF Tidy
<1>6. NothingLeft'
  <2>1. \A r \in Slots : out /\ tasks[r].kind = "change" => tasks[r].key = NoVault
    BY DEF Tidy, NothingLeft
  <2>. QED
    BY <1>1, <2>1, NothingKept DEF Tidy
<1>7. OwnMemory'
  BY MemoryKept DEF Tidy
<1>8. ASSUME NEW r \in Slots PROVE TaskLeaves(r)'
  <2>1. tasks[r].session > 0 \/ tasks[r].kind # "login" \/ tasks[r].step # "done"
    BY DEF SessionsFit
  <2>2. tasks[r].kind # "none" => tasks[r].tab \in Tabs /\ tasks[r].user \in Users
    BY TaskTyped DEF TaskFits
  <2>3. tasks[r].kind = "read"
          => (Final({Nobody, tasks[r].user}) => Final({Nobody, tasks[r].user})')
    <3>1. SUFFICES ASSUME tasks[r].kind = "read", Final({Nobody, tasks[r].user})
                   PROVE  Final({Nobody, tasks[r].user})'
      OBVIOUS
    <3>2. PICK S \in SUBSET People : S = {Nobody, tasks[r].user}
      BY <2>2, <3>1 DEF People
    <3>3. Final(S)' /\ S = {Nobody, tasks'[r].user}
      BY <3>1, <3>2 DEF FinalKept
    <3>. QED
      BY <3>3 DEF Final
  <2>. QED
    BY <1>1, <1>2, <2>1, <2>2, <2>3, TaskKept DEF Tidy
<1>. QED
  BY <1>3, <1>4, <1>5, <1>6, <1>7, <1>8 DEF Tidy

\* A write to IndexedDB done leaves the last one to do.
LEMMA FlushKeeps ==
  ASSUME Inv, NEW t \in Tabs, Flush(t)
  PROVE  FinalKept /\ \A o \in Tabs : queue'[o] # <<>> => queue[o] # <<>>
<1>1. queue \in [Tabs -> Seq(People)] /\ queue[t] \in Seq(People) /\ queue[t] # <<>>
  BY BrowserTyped DEF BrowserOK, Flush
<1>2. /\ idb' = Head(queue[t]) \/ "idb" \in behind'
      /\ queue'[t] = Tail(queue[t])
      /\ \A o \in Tabs \ {t} : queue'[o] = queue[o]
  BY <1>1 DEF Flush, Written, Kept
<1>3. ASSUME NEW q \in Seq(People), q # <<>>
      PROVE  /\ Tail(q) # <<>> => Tail(q)[Len(Tail(q))] = q[Len(q)]
             /\ Tail(q) = <<>> => Head(q) = q[Len(q)]
  <2>. DEFINE n == Len(q)
              m == Len(Tail(q))
  <2>1. n \in Nat /\ n > 0 /\ m = n - 1
    BY <1>3
  <2>2. \A i \in 1 .. m : Tail(q)[i] = q[i + 1]
    BY <1>3
  <2>3. Tail(q) \in Seq(People) /\ Head(q) = q[1]
    BY <1>3
  <2>. HIDE DEF n, m
  <2>4. Tail(q) = <<>> <=> m = 0
    BY <2>3, EmptySeq DEF m
  <2>5. CASE n = 1
    BY <2>1, <2>3, <2>4, <2>5 DEF n
  <2>6. CASE n > 1
    <3>1. m \in 1 .. m /\ m + 1 = n /\ m # 0
      BY <2>1, <2>6
    <3>2. Tail(q)[m] = q[n]
      BY <2>2, <3>1
    <3>. QED
      BY <2>4, <3>1, <3>2 DEF n, m
  <2>. QED
    BY <2>1, <2>5, <2>6
<1>4. FinalKept
  <2>1. SUFFICES ASSUME NEW S \in SUBSET People, Final(S) PROVE Final(S)'
    BY DEF FinalKept
  <2>2. \A o \in Tabs : queue'[o] # <<>> => queue'[o][Len(queue'[o])] \in S
    BY <1>1, <1>2, <1>3, <2>1, ZenonT(30) DEF Final
  <2>3. (\A o \in Tabs : queue'[o] = <<>>) => idb' \in S \/ "idb" \in behind'
    BY <1>1, <1>2, <1>3, <2>1 DEF Final
  <2>. QED
    BY <2>2, <2>3 DEF Final
<1>. QED
  BY <1>1, <1>2, <1>4

LEMMA FlushTidy ==
  ASSUME Inv, SessionsFit, Tidy, NEW t \in Tabs, Flush(t)
  PROVE  Tidy'
<1>1. /\ tasks' = tasks /\ UNCHANGED <<server, cookie, vault>> /\ out' = out
      /\ UNCHANGED <<shown, asking, mem>>
  BY DEF Flush
<1>2. "vault" \in behind => "vault" \in behind'
  BY DEF Flush, Kept
<1>. QED
  BY <1>1, <1>2, FlushKeeps, TabTidy

LEMMA AskedTidy ==
  ASSUME Inv, SessionsFit, Tidy, NEW t \in Tabs, TellSession(t) \/ Expired(t)
  PROVE  Tidy'
<1>1. /\ tasks' = tasks /\ UNCHANGED <<server, cookie, storage>> /\ behind' = behind /\ out' = out
      /\ UNCHANGED <<mem, queue>>
  BY DEF TellSession, Expired, history
<1>2. UNCHANGED <<vault, idb>> /\ FinalKept
  BY <1>1, FinalSame DEF storage
<1>3. /\ asking \in [Tabs -> [state : {"none", "asked", "told"}, user : People]]
      /\ shown \in [Tabs -> People]
  BY BrowserTyped DEF BrowserOK
<1>4. CASE TellSession(t)
  <2>1. shown' = shown /\ \A o \in Tabs : asking'[o].state # "none" => asking[o].state # "none"
    BY <1>3, <1>4 DEF TellSession
  <2>. QED
    BY <1>1, <1>2, <2>1, TabTidy
<1>5. CASE Expired(t)
  <2>1. asking' = asking /\ asking[t].state = "none" /\ shown' = [shown EXCEPT ![t] = Nobody]
    BY <1>5, DeviceAssumption DEF Expired, SignedIn, Tidy, Alone
  <2>2. \A o \in Tabs : /\ asking'[o].state # "none"
                            => asking[o].state # "none" /\ shown'[o] = shown[o]
                        /\ shown'[o] \in {shown[o], Nobody}
    BY <1>3, <2>1
  <2>. QED
    BY <1>1, <1>2, <2>2, TabTidy
<1>. QED
  BY <1>4, <1>5

\* A tab that asked who is signed in is told, while nothing touches the device.
LEMMA ShowTidy ==
  ASSUME Inv, SessionsFit, Tidy, NEW t \in Tabs, ShowSession(t)
  PROVE  Tidy'
<1>1. /\ tasks' = tasks /\ behind' = behind /\ out' = out
      /\ UNCHANGED <<server, cookie, mem, queue, vault, idb>>
      /\ asking[t].state # "none"
      /\ shown' = [shown EXCEPT ![t] = asking[t].user]
      /\ asking' = [asking EXCEPT ![t] = [state |-> "none", user |-> Nobody]]
  BY DEF ShowSession, history, storage
<1>2. /\ asking \in [Tabs -> [state : {"none", "asked", "told"}, user : People]]
      /\ shown \in [Tabs -> People]
  BY BrowserTyped DEF BrowserOK
<1>3. /\ mem[t] = Nobody
      /\ \A s \in Slots : /\ ~Writes(tasks[s].kind)
                          /\ tasks[s].kind = "read" => tasks[s].tab # t
  BY <1>1 DEF Tidy, Alone
<1>4. /\ \A o \in Tabs \ {t} : shown'[o] = shown[o]
      /\ \A o \in Tabs : asking'[o].state # "none" => asking[o].state # "none" /\ o # t
  BY <1>1, <1>2
<1>5. Owner' = Owner /\ pw' = pw
  BY <1>1 DEF Owner, server
<1>6. FinalKept
  BY <1>1, FinalSame
<1>7. Alone'
  <2>1. Fewer
    BY <1>1 DEF Fewer
  <2>. QED
    BY <1>1, <1>4, <2>1, AloneKept DEF Tidy
<1>8. OwnersVault'
  BY <1>1, <1>5, VaultKept DEF Tidy
<1>9. OwnersKey'
  BY <1>1, <1>5, <1>6, KeyKept DEF Tidy
<1>10. NothingLeft'
  <2>1. \A r \in Slots : out /\ tasks[r].kind = "change" => tasks[r].key = NoVault
    BY DEF Tidy, NothingLeft
  <2>. QED
    BY <1>1, <1>6, <2>1, NothingKept DEF Tidy
<1>11. OwnMemory'
  BY <1>1, <1>3, <1>4 DEF Tidy, OwnMemory, SignedIn
<1>12. ASSUME NEW r \in Slots PROVE TaskLeaves(r)'
  <2>1. ~Writes(tasks[r].kind) /\ TaskLeaves(r)
    BY <1>3 DEF Tidy
  <2>2. CASE tasks[r].kind = "read"
    <3>1. tasks[r].tab \in Tabs \ {t}
      BY <1>3, <2>2, TaskTyped DEF TaskFits
    <3>2. shown'[tasks[r].tab] = shown[tasks[r].tab]
      BY <1>4, <3>1
    <3>. QED
      BY <1>1, <2>1, <2>2, <3>2 DEF TaskLeaves, ReadLeaves, SignedIn, Final
  <2>3. CASE tasks[r].kind # "read"
    BY <1>1, <2>1, <2>3 DEF TaskLeaves, Writes
  <2>. QED
    BY <2>2, <2>3
<1>. QED
  BY <1>7, <1>8, <1>9, <1>10, <1>11, <1>12 DEF Tidy

\* The browser is cleared while nothing else touches the device.
LEMMA ClearTidy ==
  ASSUME Inv, Tidy, NEW s, NEW t \in Tabs, Clear(s, t), ~stray', asking' = asking,
         \A r \in Slots : tasks'[r].kind = "none" \/ (r # s /\ tasks'[r] = tasks[r])
  PROVE  Tidy'
<1>1. /\ vault' = NoVault \/ "vault" \in behind'
      /\ idb' = idb /\ mem' = [mem EXCEPT ![t] = Nobody]
      /\ queue' = [queue EXCEPT ![t] = Append(@, Nobody)]
      /\ shown' = [shown EXCEPT ![t] = Nobody]
      /\ ~Crossed(s, t) /\ ~Reading
  BY DEF Clear, Save, WriteVault, Written, Kept
<1>2. /\ queue \in [Tabs -> Seq(People)] /\ shown \in [Tabs -> People]
      /\ mem \in [Tabs -> People] /\ Nobody \in People /\ Nobody \notin Users
  BY BrowserTyped, DeviceAssumption DEF BrowserOK, People
<1>3. \A r \in Slots : ~Touches(tasks'[r].kind)
  BY <1>1 DEF Crossed, Reading, Touches, Writes
<1>4. (\A o \in Tabs \ {t} : queue'[o] = <<>>) /\ \A o \in Tabs : asking'[o].state = "none"
  BY <1>1, <1>2 DEF Crossed
<1>5. queue'[t] # <<>> /\ queue'[t][Len(queue'[t])] = Nobody
  <2>1. queue[t] \in Seq(People)
    BY <1>2
  <2>2. queue'[t] = Append(queue[t], Nobody)
    BY <1>1, <1>2
  <2>. QED
    BY <1>2, <2>1, <2>2
<1>6. Alone'
  BY <1>3, <1>4 DEF Alone, Touches
<1>7. OwnersVault'
  BY <1>1 DEF OwnersVault, NoVault, NoPassword
<1>8. OwnersKey' /\ NothingLeft'
  <2>1. ASSUME NEW S, Nobody \in S PROVE Final(S)'
    BY <1>4, <1>5, <2>1 DEF Final
  <2>2. OwnersKey'
    <3>1. PICK S : S = {Nobody, Owner'}
      OBVIOUS
    <3>2. Final(S)'
      BY <2>1, <3>1
    <3>. QED
      BY <3>1, <3>2 DEF OwnersKey, Final
  <2>3. Final({Nobody})'
    BY <2>1
  <2>. QED
    BY <1>1, <1>3, <2>2, <2>3 DEF NothingLeft, Touches, Writes, NoVault, NoPassword
<1>9. OwnMemory'
  BY <1>1, <1>2 DEF Tidy, OwnMemory, SignedIn
<1>10. \A r \in Slots : TaskLeaves(r)'
  BY <1>3 DEF TaskLeaves, Touches, Writes
<1>. QED
  BY <1>6, <1>7, <1>8, <1>9, <1>10 DEF Tidy

LEMMA LeavingTidy ==
  ASSUME Inv, Tidy, NEW s \in Slots, ~stray',
         Left(s) \/ (AnswerLost(s) /\ tasks[s].kind = "logout")
  PROVE  Tidy'
<1>1. /\ tasks[s].kind \in {"logout", "delete"} /\ Clear(s, tasks[s].tab) /\ asking' = asking
      /\ tasks' = [tasks EXCEPT ![s] = Idle]
  BY DEF Left, AnswerLost, End
<1>2. tasks[s].tab \in Tabs /\ tasks \in [Slots -> Task]
  BY <1>1, TaskTyped DEF TaskFits
<1>3. \A r \in Slots : tasks'[r].kind = "none" \/ (r # s /\ tasks'[r] = tasks[r])
  BY <1>1, <1>2 DEF Idle
<1>. QED
  BY <1>1, <1>2, <1>3, ClearTidy

LEMMA ChatExpiredTidy ==
  ASSUME Inv, Tidy, NEW t \in Tabs, ChatExpired(t), ~stray'
  PROVE  Tidy'
<1>1. Clear(0, t) /\ asking' = asking /\ tasks' = tasks
  BY DEF ChatExpired
<1>2. 0 \notin Slots
  BY DEF Slots
<1>. QED
  BY <1>1, <1>2, ClearTidy

LEMMA ReloadTidy ==
  ASSUME Inv, SessionsFit, Tidy, NEW t \in Tabs, Reload(t), ~stray'
  PROVE  Tidy'
<1>1. /\ mem' = [mem EXCEPT ![t] = Nobody] /\ queue' = [queue EXCEPT ![t] = <<>>]
      /\ shown' = [shown EXCEPT ![t] = Nobody]
      /\ asking' = [asking EXCEPT ![t] = [state |-> "asked", user |-> Nobody]]
      /\ tasks' = [s \in Slots |-> IF tasks[s].tab = t THEN Idle ELSE tasks[s]]
      /\ queue[t] = <<>> /\ ~Crossed(0, t)
      /\ UNCHANGED <<server, cookie, vault, idb>> /\ behind' = behind /\ out' = out
  BY DEF Reload, storage
<1>2. /\ queue \in [Tabs -> Seq(People)] /\ shown \in [Tabs -> People]
      /\ mem \in [Tabs -> People] /\ Nobody \in People /\ Nobody \notin Users
      /\ asking \in [Tabs -> [state : {"none", "asked", "told"}, user : People]]
  BY BrowserTyped, DeviceAssumption DEF BrowserOK, People
<1>3. queue' = queue /\ \A o \in Tabs : queue[o] = <<>>
  BY <1>1, <1>2 DEF Crossed
<1>4. \A s \in Slots : ~Writes(tasks[s].kind)
  BY <1>1 DEF Crossed, Slots
<1>5. \A s \in Slots : \/ tasks'[s].kind = "none"
                       \/ tasks'[s] = tasks[s] /\ tasks[s].tab # t
  BY <1>1 DEF Idle
<1>6. Owner' = Owner /\ pw' = pw /\ sessions' = sessions
  BY <1>1 DEF Owner, server
<1>7. FinalKept
  BY <1>1, <1>3, FinalSame
<1>8. Alone'
  <2>1. \A o \in Tabs : asking'[o].state # "none" => o = t
    BY <1>1, <1>2 DEF Crossed
  <2>2. mem'[t] = Nobody /\ shown'[t] = Nobody
    BY <1>1, <1>2
  <2>3. \A s \in Slots : ~Writes(tasks'[s].kind) /\ (tasks'[s].kind = "read" => tasks'[s].tab # t)
    BY <1>4, <1>5 DEF Writes
  <2>. QED
    BY <1>3, <2>1, <2>2, <2>3 DEF Alone
<1>9. OwnersVault'
  BY <1>1, <1>4, <1>6, VaultKept DEF Tidy, Writes
<1>10. OwnersKey'
  BY <1>1, <1>4, <1>6, <1>7, KeyKept DEF Tidy, Writes
<1>11. NothingLeft'
  <2>1. \A s \in Slots : tasks'[s].kind \notin {"login", "register", "unlock", "change"}
    BY <1>4, <1>5 DEF Writes
  <2>. QED
    BY <1>1, <1>7, <2>1, NothingKept DEF Tidy
<1>12. \A o \in Tabs : shown'[o] \in {shown[o], Nobody} /\ mem'[o] \in {mem[o], Nobody}
  BY <1>1, <1>2
<1>13. OwnMemory'
  BY <1>12, MemoryKept DEF Tidy
<1>14. ASSUME NEW r \in Slots PROVE TaskLeaves(r)'
  <2>1. CASE tasks'[r].kind = "none"
    BY <2>1 DEF TaskLeaves
  <2>2. CASE tasks'[r] = tasks[r]
    <3>1. tasks[r].session > 0 \/ tasks[r].kind # "login" \/ tasks[r].step # "done"
      BY DEF SessionsFit
    <3>2. Final({Nobody, tasks[r].user}) => Final({Nobody, tasks[r].user})'
      BY <1>1, <1>3, <2>2 DEF Final
    <3>3. SessionsEnd
      BY <1>6 DEF SessionsEnd
    <3>4. tasks[r].kind # "none" => tasks[r].tab \in Tabs
      BY TaskTyped DEF TaskFits
    <3>. QED
      BY <1>1, <1>12, <2>2, <3>1, <3>2, <3>3, <3>4, TaskKept DEF Tidy
  <2>. QED
    BY <1>5, <2>1, <2>2
<1>. QED
  BY <1>8, <1>9, <1>10, <1>11, <1>13, <1>14 DEF Tidy

-----------------------------------------------------------------------------
(* The steps that write to the device.                                     *)

\* What is the last to wait is what IndexedDB will hold.
LEMMA SaveFinal ==
  ASSUME Inv, NEW t \in Tabs, NEW u \in People, Save(t, u),
         \A o \in Tabs : queue[o] # <<>> => o = t
  PROVE  /\ \A S : u \in S => Final(S)'
         /\ \A o \in Tabs : queue'[o] # <<>> => o = t
         /\ mem'[t] = u /\ \A o \in Tabs \ {t} : mem'[o] = mem[o]
<1>1. /\ queue \in [Tabs -> Seq(People)] /\ mem \in [Tabs -> People]
      /\ queue' = [queue EXCEPT ![t] = Append(@, u)] /\ mem' = [mem EXCEPT ![t] = u]
  BY BrowserTyped DEF BrowserOK, Save
<1>2. queue'[t] # <<>> /\ queue'[t][Len(queue'[t])] = u
  <2>1. queue[t] \in Seq(People)
    BY <1>1
  <2>2. queue'[t] = Append(queue[t], u)
    BY <1>1
  <2>. QED
    BY <2>1, <2>2
<1>3. \A o \in Tabs \ {t} : queue'[o] = <<>>
  BY <1>1
<1>4. ASSUME NEW S, u \in S PROVE Final(S)'
  BY <1>2, <1>3, <1>4 DEF Final
<1>. QED
  BY <1>1, <1>3, <1>4

LEMMA LoggedInTidy ==
  ASSUME Inv, SessionsFit, Tidy, NEW s \in Slots, LoggedIn(s)
  PROVE  Tidy'
<1>1. /\ tasks[s].kind = "login" /\ tasks[s].step = "done"
      /\ cookie' = tasks[s].session /\ (vault' = tasks[s].key \/ "vault" \in behind')
      /\ tasks' = [tasks EXCEPT ![s].step = "opening"]
      /\ UNCHANGED <<pw, sessions, idb, shown, asking, mem, queue>> /\ out' = out
  BY DEF LoggedIn, To, server, tabs, WriteVault, Written, Kept
<1>2. /\ tasks \in [Slots -> Task] /\ tasks[s] \in Task /\ LoginLeaves(s)
      /\ tasks[s].session > 0 /\ Writes(tasks[s].kind)
  BY <1>1, TaskTyped DEF Tidy, TaskLeaves, SessionsFit, Writes
<1>3. /\ tasks'[s].kind = "login" /\ tasks'[s].step = "opening" /\ tasks'[s].tab = tasks[s].tab
      /\ tasks'[s].user = tasks[s].user /\ tasks'[s].typed = tasks[s].typed
      /\ tasks'[s].key = tasks[s].key
      /\ \A r \in Slots \ {s} : tasks'[r] = tasks[r]
  BY <1>1, <1>2 DEF Task
<1>4. Owner' = sessions[tasks[s].session]
  <2>1. tasks[s].session # 0
    BY <1>2
  <2>. QED
    BY <1>1, <2>1 DEF Owner
<1>5. /\ Owner' \in {tasks[s].user, Nobody}
      /\ Owner' = tasks[s].user
           => tasks[s].key = [key |-> tasks[s].user, with |-> [of |-> tasks[s].user,
                                                               n |-> pw'[tasks[s].user]]]
      /\ Nobody \notin Users
  BY <1>1, <1>2, <1>4, DeviceAssumption DEF LoginLeaves, Current
<1>6. Alone'
  <2>1. Fewer
    BY <1>1, <1>3 DEF Fewer, Writes, Touches
  <2>. QED
    BY <1>1, <2>1, AloneKept DEF Tidy
<1>7. OwnersVault'
  BY <1>1, <1>5 DEF OwnersVault, Current
<1>8. OwnersKey'
  BY <1>3 DEF OwnersKey
<1>9. NothingLeft' /\ OwnMemory'
  BY <1>1 DEF Tidy, NothingLeft, OwnMemory, SignedIn
<1>10. TaskLeaves(s)'
  <2>1. ~SignedIn(tasks[s].tab)' /\ tasks[s].typed.of = tasks[s].user
    BY <1>1, <1>2, <1>3 DEF LoginLeaves, SignedIn
  <2>. QED
    BY <1>3, <1>5, <2>1 DEF TaskLeaves, LoginLeaves, Current
<1>11. \A r \in Slots \ {s} : TaskLeaves(r)'
  BY <1>2, <1>3, OthersLeave DEF Tidy
<1>. QED
  BY <1>6, <1>7, <1>8, <1>9, <1>10, <1>11 DEF Tidy

LEMMA StoreTidy ==
  ASSUME Inv, SessionsFit, Tidy, NEW s \in Slots, StoreAtLogin(s)
  PROVE  Tidy'
<1>. DEFINE u == tasks[s].user
            t == tasks[s].tab
            k == Opened(tasks[s].key, tasks[s].typed)
<1>1. /\ tasks[s].kind = "login" /\ tasks[s].step = "opening" /\ Save(t, k)
      /\ tasks' = [tasks EXCEPT ![s].step = "saving"]
      /\ UNCHANGED <<server, cookie, vault, shown, asking>>
      /\ behind' = behind /\ out' = out
  BY DEF StoreAtLogin, To, storage, history
<1>2. /\ tasks \in [Slots -> Task] /\ tasks[s] \in Task /\ TaskFits(tasks[s]) /\ LoginLeaves(s)
      /\ Writes(tasks[s].kind) /\ t \in Tabs /\ u \in Users /\ Nobody \notin Users
  BY <1>1, TaskTyped, DeviceAssumption DEF Tidy, TaskLeaves, Writes, TaskFits
<1>3. /\ tasks'[s].kind = "login" /\ tasks'[s].step = "saving" /\ tasks'[s].tab = t
      /\ tasks'[s].user = u /\ tasks'[s].typed = tasks[s].typed
      /\ tasks'[s].key = tasks[s].key
      /\ \A r \in Slots \ {s} : tasks'[r] = tasks[r]
  BY <1>1, <1>2 DEF Task
<1>4. k \in {Nobody, u} /\ k \in People
  BY <1>1, <1>2 DEF Opened, Opens, TaskFits, Fits, LoginLeaves, People
<1>. HIDE DEF k
<1>5. Owner' = Owner /\ pw' = pw
  BY <1>1 DEF Owner, server
<1>6. \A o \in Tabs : queue[o] # <<>> => o = t
  BY <1>1, <1>2 DEF Tidy, Alone, Touches
<1>7. /\ \A S : k \in S => Final(S)'
      /\ \A o \in Tabs : queue'[o] # <<>> => o = t
      /\ mem'[t] = k /\ \A o \in Tabs \ {t} : mem'[o] = mem[o]
  BY <1>1, <1>2, <1>4, <1>6, SaveFinal
<1>8. Alone'
  <2>1. Fewer
    BY <1>1, <1>3 DEF Fewer, Writes, Touches
  <2>2. \A o \in Tabs : asking[o].state = "none"
    BY <1>2 DEF Tidy, Alone
  <2>. QED
    BY <1>1, <1>2, <1>7, <2>1, <2>2, AloneKept DEF Tidy
<1>9. OwnersVault'
  BY <1>1, <1>3, <1>5, VaultKept DEF Tidy
<1>10. OwnersKey'
  <2>1. PICK S : S = {Nobody, Owner'}
    OBVIOUS
  <2>2. Owner' \in Users => k \in S
    BY <1>1, <1>2, <1>4, <1>5, <2>1 DEF LoginLeaves
  <2>. QED
    BY <1>7, <2>1, <2>2 DEF OwnersKey, Final
<1>11. NothingLeft'
  BY <1>1 DEF Tidy, NothingLeft
<1>12. ~SignedIn(t)'
  BY <1>1, <1>2, <1>3 DEF LoginLeaves, SignedIn
<1>13. OwnMemory'
  <2>1. \A o \in Tabs : shown'[o] \in Users => o # t
    BY <1>1, <1>2 DEF LoginLeaves, SignedIn
  <2>. QED
    BY <1>1, <1>7, <2>1 DEF Tidy, OwnMemory, SignedIn
<1>14. TaskLeaves(s)'
  <2>1. tasks[s].typed.of = u /\ Owner \in {u, Nobody}
        /\ (Owner = u => tasks[s].key = [key |-> u, with |-> [of |-> u, n |-> pw[u]]])
    BY <1>1, <1>2 DEF LoginLeaves, Current
  <2>. QED
    BY <1>3, <1>4, <1>5, <1>7, <1>12, <2>1 DEF TaskLeaves, LoginLeaves, Current
<1>15. \A r \in Slots \ {s} : TaskLeaves(r)'
  BY <1>2, <1>3, OthersLeave DEF Tidy
<1>. QED
  BY <1>8, <1>9, <1>10, <1>11, <1>13, <1>14, <1>15 DEF Tidy

LEMMA EnterTidy ==
  ASSUME Inv, SessionsFit, Tidy, NEW s \in Slots, Enter(s)
  PROVE  Tidy'
<1>. DEFINE u == tasks[s].user
            t == tasks[s].tab
<1>1. /\ tasks[s].kind = "login" /\ tasks[s].step = "saving"
      /\ tasks' = [tasks EXCEPT ![s] = Idle] /\ shown' = [shown EXCEPT ![t] = u]
      /\ UNCHANGED <<server, cookie, vault, idb, asking, mem, queue>>
      /\ behind' = behind /\ out' = out
  BY DEF Enter, End, storage, history
<1>2. /\ tasks \in [Slots -> Task] /\ LoginLeaves(s) /\ Writes(tasks[s].kind)
      /\ shown \in [Tabs -> People] /\ Nobody \notin Users
  BY <1>1, TaskTyped, BrowserTyped, DeviceAssumption DEF Tidy, TaskLeaves, Writes, BrowserOK
<1>3. tasks'[s].kind = "none" /\ \A r \in Slots \ {s} : tasks'[r] = tasks[r]
  BY <1>1, <1>2 DEF Idle
<1>4. Owner' = Owner /\ pw' = pw
  BY <1>1 DEF Owner, server
<1>5. FinalKept
  BY <1>1, FinalSame
<1>6. Alone'
  <2>1. Fewer
    BY <1>1, <1>3 DEF Fewer, Writes, Touches
  <2>2. \A o \in Tabs : asking[o].state = "none"
    BY <1>2 DEF Tidy, Alone
  <2>. QED
    BY <1>1, <2>1, <2>2, AloneKept DEF Tidy
<1>7. OwnersVault'
  BY <1>1, <1>3, <1>4, VaultKept DEF Tidy
<1>8. OwnersKey'
  BY <1>1, <1>3, <1>4, <1>5, KeyKept DEF Tidy
<1>9. NothingLeft'
  BY <1>1 DEF Tidy, NothingLeft
<1>10. OwnMemory'
  BY <1>1, <1>2 DEF Tidy, OwnMemory, SignedIn, LoginLeaves
<1>11. \A r \in Slots \ {s} : TaskLeaves(r)'
  BY <1>2, <1>3, OthersLeave DEF Tidy
<1>12. TaskLeaves(s)'
  BY <1>3 DEF TaskLeaves
<1>. QED
  BY <1>6, <1>7, <1>8, <1>9, <1>10, <1>11, <1>12 DEF Tidy

LEMMA UnlockedTidy ==
  ASSUME Inv, SessionsFit, Tidy, NEW s \in Slots, Unlocked(s)
  PROVE  Tidy'
<1>. DEFINE u == tasks[s].user
            t == tasks[s].tab
<1>1. /\ tasks[s].kind = "unlock" /\ tasks' = [tasks EXCEPT ![s] = Idle]
      /\ UNCHANGED <<server, cookie, storage, vault, idb, shown, asking>>
      /\ behind' = behind /\ out' = out
  BY DEF Unlocked, End, storage, history
<1>2. /\ tasks \in [Slots -> Task] /\ TaskFits(tasks[s]) /\ UnlockLeaves(s)
      /\ Writes(tasks[s].kind) /\ t \in Tabs /\ u \in Users /\ Nobody \notin Users
  BY <1>1, TaskTyped, DeviceAssumption DEF Tidy, TaskLeaves, Writes, TaskFits
<1>3. tasks'[s].kind = "none" /\ \A r \in Slots \ {s} : tasks'[r] = tasks[r]
  BY <1>1, <1>2 DEF Idle
<1>4. Owner' = Owner /\ pw' = pw
  BY <1>1 DEF Owner, server
<1>5. CASE Save(t, u)
  <2>1. \A o \in Tabs : queue[o] # <<>> => o = t
    BY <1>2 DEF Tidy, Alone, Touches
  <2>2. /\ \A S : u \in S => Final(S)'
        /\ \A o \in Tabs : queue'[o] # <<>> => o = t
        /\ mem'[t] = u /\ \A o \in Tabs \ {t} : mem'[o] = mem[o]
    BY <1>2, <1>5, <2>1, SaveFinal DEF People
  <2>3. Alone'
    <3>1. Fewer
      BY <1>1, <1>3 DEF Fewer, Writes, Touches
    <3>2. \A o \in Tabs : asking[o].state = "none"
      BY <1>2 DEF Tidy, Alone
    <3>. QED
      BY <1>1, <1>2, <2>2, <3>1, <3>2, AloneKept DEF Tidy
  <2>4. OwnersVault'
    BY <1>1, <1>3, <1>4, VaultKept DEF Tidy
  <2>5. OwnersKey'
    <3>1. PICK S : S = {Nobody, Owner'}
      OBVIOUS
    <3>2. Owner' \in Users => u \in S
      BY <1>2, <1>4, <3>1 DEF UnlockLeaves
    <3>. QED
      BY <2>2, <3>1, <3>2 DEF OwnersKey, Final
  <2>6. NothingLeft'
    BY <1>1 DEF Tidy, NothingLeft
  <2>7. OwnMemory'
    BY <1>1, <1>2, <2>2 DEF Tidy, OwnMemory, SignedIn, UnlockLeaves
  <2>8. \A r \in Slots \ {s} : TaskLeaves(r)'
    BY <1>2, <1>3, OthersLeave DEF Tidy
  <2>9. TaskLeaves(s)'
    BY <1>3 DEF TaskLeaves
  <2>. QED
    BY <2>3, <2>4, <2>5, <2>6, <2>7, <2>8, <2>9 DEF Tidy
<1>6. CASE UNCHANGED <<mem, queue>>
  <2>1. UNCHANGED <<server, cookie, storage, tabs>>
    BY <1>1, <1>6 DEF tabs
  <2>2. TaskLeaves(s)'
    BY <1>3 DEF TaskLeaves
  <2>. QED
    BY <1>1, <1>3, <2>1, <2>2, FormTidy
<1>. QED
  BY <1>2, <1>5, <1>6 DEF Unlocked, UnlockLeaves

LEMMA KeepKeyTidy ==
  ASSUME Inv, SessionsFit, Tidy, NEW s \in Slots, KeepKey(s)
  PROVE  Tidy'
<1>. DEFINE t == tasks[s].tab
            k == tasks[s].key.key
<1>1. /\ tasks[s].kind = "read" /\ tasks[s].step = "saving" /\ mem' = [mem EXCEPT ![t] = k]
      /\ tasks' = [tasks EXCEPT ![s] = Idle]
      /\ UNCHANGED <<server, cookie, vault, idb, shown, asking, queue>>
      /\ behind' = behind /\ out' = out
  BY DEF KeepKey, End, storage, history
<1>2. /\ tasks \in [Slots -> Task] /\ ReadLeaves(s) /\ t \in Tabs /\ mem \in [Tabs -> People]
  BY <1>1, TaskTyped, BrowserTyped DEF Tidy, TaskLeaves, TaskFits, BrowserOK
<1>3. tasks'[s].kind = "none" /\ \A r \in Slots \ {s} : tasks'[r] = tasks[r]
  BY <1>1, <1>2 DEF Idle
<1>4. Owner' = Owner /\ pw' = pw
  BY <1>1 DEF Owner, server
<1>5. FinalKept
  BY <1>1, FinalSame
<1>6. Alone'
  <2>1. Fewer
    BY <1>1, <1>3 DEF Fewer, Writes, Touches
  <2>2. \A o \in Tabs : asking[o].state # "none" => o # t
    BY <1>1 DEF Tidy, Alone
  <2>3. \A o \in Tabs : asking[o].state # "none" => mem'[o] = mem[o]
    BY <1>1, <1>2, <2>2
  <2>. QED
    BY <1>1, <2>1, <2>3, AloneKept DEF Tidy
<1>7. OwnersVault'
  BY <1>1, <1>3, <1>4, VaultKept DEF Tidy
<1>8. OwnersKey'
  BY <1>1, <1>3, <1>4, <1>5, KeyKept DEF Tidy
<1>9. NothingLeft'
  <2>1. \A r \in Slots : out /\ tasks[r].kind = "change" => tasks[r].key = NoVault
    BY DEF Tidy, NothingLeft
  <2>. QED
    BY <1>1, <1>3, <1>5, <2>1, NothingKept DEF Tidy
<1>10. OwnMemory'
  BY <1>1, <1>2 DEF Tidy, OwnMemory, SignedIn, ReadLeaves
<1>11. ASSUME NEW r \in Slots PROVE TaskLeaves(r)'
  <2>1. CASE r = s
    BY <1>3, <2>1 DEF TaskLeaves
  <2>2. CASE r # s
    <3>1. ~Writes(tasks[r].kind) /\ tasks'[r] = tasks[r] /\ TaskLeaves(r)
      BY <1>1, <1>3, <2>2 DEF Tidy, Alone, Touches
    <3>2. tasks[r].kind = "read" => ReadLeaves(r)'
      BY <1>1, <3>1 DEF TaskLeaves, ReadLeaves, SignedIn, Final
    <3>. QED
      BY <3>1, <3>2 DEF TaskLeaves, Writes
  <2>. QED
    BY <2>1, <2>2
<1>. QED
  BY <1>6, <1>7, <1>8, <1>9, <1>10, <1>11 DEF Tidy

LEMMA ChangedTidy ==
  ASSUME Inv, SessionsFit, Tidy, NEW s \in Slots, Changed(s)
  PROVE  Tidy'
<1>1. /\ tasks[s].kind = "change" /\ tasks[s].step = "done"
      /\ vault' = tasks[s].key \/ "vault" \in behind'
      /\ "idb" \in behind => "idb" \in behind'
      /\ tasks' = [tasks EXCEPT ![s] = Idle]
      /\ UNCHANGED <<server, cookie, idb, shown, asking, mem, queue>> /\ out' = out
  BY DEF Changed, End, tabs, WriteVault, Written, Kept
<1>2. /\ tasks \in [Slots -> Task] /\ ChangeLeaves(s) /\ Writes(tasks[s].kind)
      /\ Nobody \notin Users
  BY <1>1, TaskTyped, DeviceAssumption DEF Tidy, TaskLeaves, Writes
<1>3. tasks'[s].kind = "none" /\ \A r \in Slots \ {s} : tasks'[r] = tasks[r]
  BY <1>1, <1>2 DEF Idle
<1>4. Owner' = Owner /\ pw' = pw
  BY <1>1 DEF Owner, server
<1>5. FinalKept
  BY <1>1, FinalSame
<1>6. Alone'
  <2>1. Fewer
    BY <1>1, <1>3 DEF Fewer, Writes, Touches
  <2>. QED
    BY <1>1, <2>1, AloneKept DEF Tidy
<1>7. OwnersVault'
  BY <1>1, <1>2, <1>4 DEF OwnersVault, ChangeLeaves, Current
<1>8. OwnersKey'
  BY <1>1, <1>3, <1>4, <1>5, KeyKept DEF Tidy
<1>9. NothingLeft'
  <2>1. Final({Nobody}) => Final({Nobody})'
    BY <1>1 DEF Final
  <2>. QED
    BY <1>1, <1>3, <2>1 DEF Tidy, NothingLeft, NoVault, NoPassword
<1>10. OwnMemory'
  BY <1>1, MemoryKept DEF Tidy
<1>11. \A r \in Slots \ {s} : TaskLeaves(r)'
  BY <1>2, <1>3, OthersLeave DEF Tidy
<1>12. TaskLeaves(s)'
  BY <1>3 DEF TaskLeaves
<1>. QED
  BY <1>6, <1>7, <1>8, <1>9, <1>10, <1>11, <1>12 DEF Tidy

-----------------------------------------------------------------------------
(* What a user asks for.                                                   *)

\* A request in a slot that was free.
LEMMA Asked ==
  ASSUME Inv, NEW s \in Slots, NEW t, NEW kind, NEW u, NEW p, NEW step, NEW key,
         Ask(s, t, kind, u, p, step, key)
  PROVE  /\ tasks[s].kind = "none" /\ tasks'[s].kind = kind /\ tasks'[s].tab = t
         /\ tasks'[s].user = u /\ tasks'[s].typed = p /\ tasks'[s].step = step
         /\ tasks'[s].key = key /\ tasks'[s].session = 0
         /\ \A r \in Slots \ {s} : tasks'[r] = tasks[r]
BY TaskTyped DEF Ask, Idle

LEMMA AskTidy ==
  ASSUME Inv, SessionsFit, Tidy, NEW s \in Slots, NEW t, NEW kind \in Kinds, NEW u, NEW p,
         NEW step, NEW key, Ask(s, t, kind, u, p, step, key), ~stray', TaskLeaves(s)',
         out' => out /\ kind \notin {"login", "register", "unlock"}
                     /\ (kind = "change" => key = NoVault)
  PROVE  Tidy'
<1>1. /\ tasks[s].kind = "none" /\ tasks'[s].kind = kind /\ tasks'[s].tab = t
      /\ tasks'[s].key = key
      /\ \A r \in Slots \ {s} : tasks'[r] = tasks[r]
  BY Asked
<1>2. /\ UNCHANGED <<server, cookie, vault, idb, behind, shown, asking, mem, queue>>
      /\ ~(Writes(kind) /\ (Crossed(s, t) \/ Reading)) /\ ~(kind = "read" /\ Crossed(s, t))
  BY DEF Ask, storage, tabs
<1>3. Owner' = Owner /\ pw' = pw /\ sessions' = sessions
  BY <1>2 DEF Owner, server
<1>4. FinalKept
  BY <1>2, FinalSame
<1>5. Alone'
  <2>1. \A r, w \in Slots : Writes(tasks'[w].kind) /\ Touches(tasks'[r].kind) => r = w
    <3>1. SUFFICES ASSUME NEW r \in Slots, NEW w \in Slots, r # w,
                          Writes(tasks'[w].kind), Touches(tasks'[r].kind)
                   PROVE  FALSE
      OBVIOUS
    <3>2. CASE w = s
      BY <1>1, <1>2, <3>1, <3>2 DEF Crossed, Reading, Touches
    <3>3. CASE r = s
      BY <1>1, <1>2, <3>1, <3>3 DEF Crossed, Touches
    <3>4. CASE w # s /\ r # s
      BY <1>1, <3>1, <3>4 DEF Tidy, Alone
    <3>. QED
      BY <3>2, <3>3, <3>4
  <2>2. \A w \in Slots, o \in Tabs : Touches(tasks'[w].kind) /\ queue[o] # <<>> => o = tasks'[w].tab
    <3>1. SUFFICES ASSUME NEW w \in Slots, NEW o \in Tabs, Touches(tasks'[w].kind), queue[o] # <<>>
                   PROVE  o = tasks'[w].tab
      OBVIOUS
    <3>2. CASE w = s
      BY <1>1, <1>2, <3>1, <3>2 DEF Crossed, Touches
    <3>3. CASE w # s
      BY <1>1, <3>1, <3>3 DEF Tidy, Alone
    <3>. QED
      BY <3>2, <3>3
  <2>3. ASSUME NEW o \in Tabs, asking[o].state # "none", NEW w \in Slots
        PROVE  ~Writes(tasks'[w].kind) /\ (tasks'[w].kind = "read" => tasks'[w].tab # o)
    <3>1. CASE w = s
      BY <1>1, <1>2, <2>3, <3>1 DEF Crossed
    <3>2. CASE w # s
      BY <1>1, <2>3, <3>2 DEF Tidy, Alone
    <3>. QED
      BY <3>1, <3>2
  <2>. QED
    BY <1>2, <2>1, <2>2, <2>3 DEF Tidy, Alone
<1>6. OwnersVault'
  <2>1. \A r \in Slots : tasks[r].kind = "change" /\ tasks[r].step = "done" => tasks'[r] = tasks[r]
    BY <1>1
  <2>. QED
    BY <1>2, <1>3, <2>1, VaultKept DEF Tidy
<1>7. OwnersKey'
  <2>1. \A r \in Slots : tasks[r].kind = "login" /\ tasks[r].step = "opening" => tasks'[r] = tasks[r]
    BY <1>1
  <2>. QED
    BY <1>3, <1>4, <2>1, KeyKept DEF Tidy
<1>8. NothingLeft'
  <2>1. SUFFICES ASSUME out' PROVE NothingLeft'
    BY DEF NothingLeft
  <2>2. Final({Nobody}) => Final({Nobody})'
    BY <1>2 DEF Final
  <2>. QED
    BY <1>1, <1>2, <2>1, <2>2 DEF Tidy, NothingLeft, NoVault, NoPassword
<1>9. OwnMemory'
  BY <1>2, MemoryKept DEF Tidy
<1>10. ASSUME NEW r \in Slots, r # s PROVE TaskLeaves(r)'
  <2>1. tasks[r].session > 0 \/ tasks[r].kind # "login" \/ tasks[r].step # "done"
    BY DEF SessionsFit
  <2>2. Final({Nobody, tasks[r].user}) => Final({Nobody, tasks[r].user})'
    BY <1>1, <1>2, <1>10 DEF Final
  <2>3. SessionsEnd
    BY <1>3 DEF SessionsEnd
  <2>. QED
    BY <1>1, <1>2, <1>10, <2>1, <2>2, <2>3, TaskKept DEF Tidy
<1>11. \A r \in Slots : TaskLeaves(r)'
  BY <1>10
<1>. QED
  BY <1>5, <1>6, <1>7, <1>8, <1>9, <1>11 DEF Tidy

LEMMA AsksTidy ==
  ASSUME Inv, SessionsFit, Tidy, NEW s \in Slots, NEW t \in Tabs, ~stray',
         \/ AskLogin(s, t) \/ AskRegister(s, t) \/ AskChange(s, t) \/ AskRecovery(s, t)
         \/ AskDelete(s, t) \/ AskLogout(s, t)
  PROVE  Tidy'
<1>1. CASE AskLogin(s, t)
  <2>1. PICK u \in Users, p \in Typed :
          ~SignedIn(t) /\ Ask(s, t, "login", u, p, "ready", NoVault) /\ out' = FALSE
    BY <1>1 DEF AskLogin
  <2>2. tasks'[s].kind = "login" /\ tasks'[s].tab = t /\ tasks'[s].step = "ready"
    BY <2>1, Asked
  <2>3. TaskLeaves(s)'
    BY <2>1, <2>2 DEF TaskLeaves, LoginLeaves, SignedIn, Ask, tabs
  <2>. QED
    BY <2>1, <2>3, AskTidy DEF Kinds
<1>2. CASE AskRegister(s, t)
  <2>1. PICK u \in Users :
          /\ ~SignedIn(t) /\ out' = FALSE
          /\ Ask(s, t, "register", u, [of |-> u, n |-> 1], "ready", NoVault)
    BY <1>2 DEF AskRegister
  <2>2. /\ tasks'[s].kind = "register" /\ tasks'[s].tab = t /\ tasks'[s].step = "ready"
        /\ tasks'[s].user = u /\ tasks'[s].typed = [of |-> u, n |-> 1]
    BY <2>1, Asked
  <2>3. TaskLeaves(s)'
    BY <2>1, <2>2 DEF TaskLeaves, LoginLeaves, SignedIn, Ask, tabs
  <2>. QED
    BY <2>1, <2>3, AskTidy DEF Kinds
<1>3. CASE AskChange(s, t)
  <2>1. PICK p \in Typed : Ask(s, t, "change", shown[t], p, "typed", NoVault) /\ out' = out
    BY <1>3 DEF AskChange
  <2>2. tasks'[s].kind = "change" /\ tasks'[s].step = "typed"
    BY <2>1, Asked
  <2>3. TaskLeaves(s)'
    BY <2>2 DEF TaskLeaves, ChangeLeaves
  <2>. QED
    BY <2>1, <2>3, AskTidy DEF Kinds
<1>4. CASE AskRecovery(s, t) \/ AskDelete(s, t) \/ AskLogout(s, t)
  <2>1. PICK kind \in {"recovery", "delete", "logout"} :
          \E p, step : Ask(s, t, kind, shown[t], p, step, NoVault) /\ out' = out
    BY <1>4 DEF AskRecovery, AskDelete, AskLogout
  <2>2. tasks'[s].kind = kind
    BY <2>1, Asked
  <2>3. TaskLeaves(s)'
    BY <2>2 DEF TaskLeaves
  <2>. QED
    BY <2>1, <2>3, AskTidy DEF Kinds
<1>. QED
  BY <1>1, <1>2, <1>3, <1>4

\* A tab unlocks, or looks for, the key of who it shows, who is signed in.
LEMMA KeysTidy ==
  ASSUME Inv, SessionsFit, Tidy, NEW s \in Slots, NEW t \in Tabs, ~stray',
         Unlock(s, t) \/ SeekKey(s, t)
  PROVE  Tidy'
<1>1. CASE Unlock(s, t)
  <2>1. PICK p \in Typed :
          /\ SignedIn(t) /\ vault # NoVault
          /\ Ask(s, t, "unlock", shown[t], p, "opening", vault) /\ out' = out
    BY <1>1 DEF Unlock
  <2>2. /\ tasks'[s].kind = "unlock" /\ tasks'[s].tab = t /\ tasks'[s].user = shown[t]
        /\ tasks'[s].key = vault /\ tasks[s].kind = "none"
    BY <2>1, Asked
  <2>3. ~Crossed(s, t) /\ shown[t] = Owner /\ Owner \in Users /\ "vault" \notin behind
    BY <2>1 DEF Ask, Writes, Stale, SignedIn
  <2>4. vault.key = Owner
    BY <2>1, <2>2, <2>3 DEF Tidy, OwnersVault, Crossed, Writes
  <2>5. ~out
    BY <2>1, <2>3 DEF Tidy, NothingLeft
  <2>6. shown' = shown /\ Owner' = Owner
    BY <2>1 DEF Ask, tabs, Owner, server
  <2>7. TaskLeaves(s)'
    BY <2>2, <2>3, <2>4, <2>6 DEF TaskLeaves, UnlockLeaves, SignedIn
  <2>. QED
    BY <2>1, <2>5, <2>7, AskTidy DEF Kinds
<1>2. CASE SeekKey(s, t)
  <2>1. /\ SignedIn(t) /\ out' = out
        /\ Ask(s, t, "read", shown[t], NoPassword, "opening", NoVault)
    BY <1>2 DEF SeekKey
  <2>2. /\ tasks'[s].kind = "read" /\ tasks'[s].tab = t /\ tasks'[s].user = shown[t]
        /\ tasks'[s].step = "opening" /\ tasks[s].kind = "none"
    BY <2>1, Asked
  <2>3. ~Crossed(s, t) /\ shown[t] = Owner /\ Owner \in Users
    BY <2>1 DEF Ask, Stale, SignedIn
  <2>4. Final({Nobody, Owner})
    BY <2>2, <2>3 DEF Tidy, OwnersKey, Crossed, Writes
  <2>5. UNCHANGED <<shown, idb, queue, behind>>
    BY <2>1 DEF Ask, tabs, storage
  <2>6. Final({Nobody, tasks[s].user})'
    BY <2>2, <2>3, <2>4, <2>5 DEF Final
  <2>7. TaskLeaves(s)'
    BY <2>2, <2>5, <2>6 DEF TaskLeaves, ReadLeaves, SignedIn
  <2>. QED
    BY <2>1, <2>7, AskTidy DEF Kinds
<1>. QED
  BY <1>1, <1>2

-----------------------------------------------------------------------------
(* Sessions, whatever has crossed.                                         *)

LEMMA SessionsKept ==
  ASSUME Inv, SessionsFit, used'.sessions = used.sessions,
         cookie' = 0 \/ cookie' = cookie \/ \E r \in Slots : cookie' = tasks[r].session,
         \A n \in 1 .. MaxSessions :
           \/ sessions'[n] = Nobody
           \/ sessions'[n] = sessions[n] /\ (pw[sessions[n]] > 0 => pw'[sessions[n]] > 0),
         \A r \in Slots :
           /\ tasks'[r].session \in {0, tasks[r].session}
           /\ tasks'[r].kind = "login" /\ tasks'[r].step = "done" => tasks'[r] = tasks[r]
  PROVE  SessionsFit'
<1>1. used.sessions \in Nat /\ 0 <= used.sessions
  <2>1. used.sessions \in 0 .. MaxSessions /\ MaxSessions \in Nat
    BY ServerTyped, DeviceAssumption
  <2>. QED
    BY <2>1
<1>2. cookie' <= used'.sessions
  BY <1>1 DEF SessionsFit
<1>3. \A r \in Slots : tasks'[r].session <= used'.sessions
  BY <1>1 DEF SessionsFit
<1>. QED
  BY <1>2, <1>3 DEF SessionsFit

\* What is asked for and mishaps are counted apart.
LEMMA CountedApart ==
  ASSUME Inv, NEW what \in {"tasks", "mishaps"}, NEW max, Count(what, max)
  PROVE  used'.sessions = used.sessions
BY ServerTyped DEF Count

\* The steps of the browser.
LEMMA BrowserSessions ==
  ASSUME Inv, SessionsFit, UNCHANGED server, used'.sessions = used.sessions,
         cookie' = 0 \/ cookie' = cookie \/ \E r \in Slots : cookie' = tasks[r].session,
         \A r \in Slots :
           /\ tasks'[r].session \in {0, tasks[r].session}
           /\ tasks'[r].kind = "login" /\ tasks'[r].step = "done" => tasks'[r] = tasks[r]
  PROVE  SessionsFit'
BY SessionsKept DEF server

LEMMA AskSessions ==
  ASSUME Inv, SessionsFit, NEW s \in Slots, NEW t \in Tabs,
         \/ AskLogin(s, t) \/ AskRegister(s, t) \/ AskChange(s, t) \/ AskRecovery(s, t)
         \/ AskDelete(s, t) \/ AskLogout(s, t) \/ Unlock(s, t) \/ SeekKey(s, t)
  PROVE  SessionsFit'
<1>1. ASSUME NEW kind, NEW u, NEW p, NEW step \in {"typed", "ready", "opening"}, NEW key,
             Ask(s, t, kind, u, p, step, key)
      PROVE  SessionsFit'
  <2>1. /\ tasks'[s].step = step /\ tasks'[s].session = 0
        /\ \A r \in Slots \ {s} : tasks'[r] = tasks[r]
    BY <1>1, Asked
  <2>2. UNCHANGED <<server, cookie>> /\ used'.sessions = used.sessions
    BY <1>1, CountedApart DEF Ask
  <2>. QED
    BY <2>1, <2>2, BrowserSessions
<1>2. CASE AskLogin(s, t)
  BY <1>1, <1>2 DEF AskLogin
<1>3. CASE AskRegister(s, t)
  BY <1>1, <1>3 DEF AskRegister
<1>4. CASE AskChange(s, t)
  BY <1>1, <1>4 DEF AskChange
<1>5. CASE AskRecovery(s, t)
  BY <1>1, <1>5 DEF AskRecovery
<1>6. CASE AskDelete(s, t)
  BY <1>1, <1>6 DEF AskDelete
<1>7. CASE AskLogout(s, t)
  BY <1>1, <1>7 DEF AskLogout
<1>8. CASE Unlock(s, t)
  BY <1>1, <1>8 DEF Unlock
<1>9. CASE SeekKey(s, t)
  BY <1>1, <1>9 DEF SeekKey
<1>. QED
  BY <1>2, <1>3, <1>4, <1>5, <1>6, <1>7, <1>8, <1>9

LEMMA TaskSessions ==
  ASSUME Inv, SessionsFit, NEW s \in Slots,
         \/ ReadVault(s) \/ Deny(s) \/ Denied(s) \/ LoggedIn(s) \/ StoreAtLogin(s) \/ Enter(s)
         \/ Registering(s) \/ Unlocked(s) \/ ReadKey(s) \/ KeepKey(s) \/ Changed(s)
         \/ CodeMade(s) \/ Left(s) \/ AnswerLost(s)
  PROVE  SessionsFit'
<1>1. tasks \in [Slots -> Task] /\ tasks[s] \in Task
  BY TaskTyped
<1>2. UNCHANGED server /\ used'.sessions = used.sessions
  BY CountedApart DEF ReadVault, Deny, Denied, LoggedIn, StoreAtLogin, Enter, Registering,
       Unlocked, ReadKey, KeepKey, Changed, CodeMade, Left, AnswerLost
<1>3. cookie' = 0 \/ cookie' = cookie \/ cookie' = tasks[s].session
  BY DEF ReadVault, Deny, Denied, LoggedIn, StoreAtLogin, Enter, Registering,
       Unlocked, ReadKey, KeepKey, Changed, CodeMade, Left, AnswerLost
<1>4. /\ \A r \in Slots \ {s} : tasks'[r] = tasks[r]
      /\ tasks'[s].session \in {0, tasks[s].session} /\ tasks'[s].step # "done"
  <2>1. CASE End(s)
    BY <1>1, <2>1 DEF End, Idle
  <2>2. CASE ReadVault(s) /\ ~End(s)
    <3>1. tasks' = [tasks EXCEPT ![s].step = "ready", ![s].key = vault]
      BY <2>2 DEF ReadVault
    <3>. QED
      BY <1>1, <3>1 DEF Task
  <2>3. CASE Deny(s)
    BY <1>1, <2>3 DEF Deny, To, Task
  <2>4. CASE LoggedIn(s)
    BY <1>1, <2>4 DEF LoggedIn, To, Task
  <2>5. CASE StoreAtLogin(s)
    BY <1>1, <2>5 DEF StoreAtLogin, To, Task
  <2>6. CASE Registering(s)
    BY <1>1, <2>6 DEF Registering, Task
  <2>7. CASE ReadKey(s)
    BY <1>1, <2>7 DEF ReadKey, Task
  <2>. QED
    BY <2>1, <2>2, <2>3, <2>4, <2>5, <2>6, <2>7
    DEF Denied, Enter, Unlocked, KeepKey, Changed, CodeMade, Left, AnswerLost
<1>. QED
  BY <1>2, <1>3, <1>4, BrowserSessions

LEMMA TabSessions ==
  ASSUME Inv, SessionsFit, NEW t \in Tabs,
         \/ Flush(t) \/ Reload(t) \/ TellSession(t) \/ ShowSession(t) \/ Expired(t)
         \/ ChatExpired(t)
  PROVE  SessionsFit'
<1>1. UNCHANGED <<server, cookie>> /\ used'.sessions = used.sessions
  BY CountedApart DEF Flush, Reload, TellSession, ShowSession, Expired, ChatExpired
<1>2. \A r \in Slots : tasks'[r] = tasks[r] \/ tasks'[r] = Idle
  BY DEF Flush, Reload, TellSession, ShowSession, Expired, ChatExpired
<1>3. Idle.session = 0 /\ Idle.step # "done"
  BY DEF Idle
<1>. QED
  BY <1>1, <1>2, <1>3, BrowserSessions

LEMMA ServeLoginSessions ==
  ASSUME Inv, SessionsFit, NEW s \in Slots, ServeLogin(s)
  PROVE  SessionsFit'
<1>. DEFINE n == used.sessions
            u == tasks[s].user
<1>1. /\ tasks[s].kind = "login" /\ tasks[s].typed = Current(u)
      /\ n < MaxSessions /\ used' = [used EXCEPT !.sessions = @ + 1]
      /\ sessions' = [sessions EXCEPT ![n + 1] = u]
      /\ tasks' = [tasks EXCEPT ![s].step = "done", ![s].key = vaultOf[u], ![s].session = n + 1]
      /\ pw' = pw /\ cookie' = cookie
  BY DEF ServeLogin, Reaches, Accepts, Count
<1>2. /\ tasks \in [Slots -> Task] /\ tasks[s] \in Task
      /\ sessions \in [1 .. MaxSessions -> People]
  BY TaskTyped, ServerTyped
<1>3. pw[u] > 0
  BY <1>1, TaskTyped DEF TaskFits, Current
<1>4. n \in Nat /\ MaxSessions \in Nat /\ used'.sessions = n + 1
  <2>1. n \in 0 .. MaxSessions /\ MaxSessions \in Nat
    BY ServerTyped, DeviceAssumption
  <2>2. used'.sessions = n + 1
    BY <1>1, ServerTyped
  <2>. QED
    BY <2>1, <2>2
<1>5. tasks'[s].session = n + 1 /\ \A r \in Slots \ {s} : tasks'[r] = tasks[r]
  BY <1>1, <1>2 DEF Task
<1>6. cookie' <= used'.sessions
  <2>1. cookie \in 0 .. MaxSessions /\ cookie <= n
    BY BrowserTyped DEF BrowserOK, SessionsFit
  <2>. QED
    BY <1>1, <1>4, <2>1
<1>7. \A m \in 1 .. MaxSessions : /\ m > used'.sessions => sessions'[m] = Nobody
                                  /\ sessions'[m] # Nobody => pw'[sessions'[m]] > 0
  <2>1. SUFFICES ASSUME NEW m \in 1 .. MaxSessions
                 PROVE  /\ m > used'.sessions => sessions'[m] = Nobody
                        /\ sessions'[m] # Nobody => pw'[sessions'[m]] > 0
    OBVIOUS
  <2>2. m = n + 1 => sessions'[m] = u
    BY <1>1, <1>2
  <2>3. m # n + 1 => sessions'[m] = sessions[m]
    BY <1>1, <1>2
  <2>4. (m > n => sessions[m] = Nobody) /\ (sessions[m] # Nobody => pw[sessions[m]] > 0)
    BY DEF SessionsFit
  <2>5. m > used'.sessions => m > n /\ m # n + 1
    BY <1>4
  <2>. QED
    BY <1>1, <1>3, <2>2, <2>3, <2>4, <2>5
<1>8. ASSUME NEW r \in Slots
      PROVE  /\ tasks'[r].session <= used'.sessions
             /\ tasks'[r].kind = "login" /\ tasks'[r].step = "done" => tasks'[r].session > 0
  <2>1. CASE r = s
    BY <1>4, <1>5, <2>1
  <2>2. CASE r # s
    <3>1. /\ tasks'[r] = tasks[r] /\ tasks[r].session \in 0 .. MaxSessions
          /\ tasks[r].session <= n
      BY <1>5, <2>2, TaskTyped DEF Task, SessionsFit
    <3>2. tasks[r].session <= used'.sessions
      BY <1>4, <3>1
    <3>. QED
      BY <3>1, <3>2 DEF SessionsFit
  <2>. QED
    BY <2>1, <2>2
<1>. QED
  BY <1>6, <1>7, <1>8 DEF SessionsFit

LEMMA ServeSessions ==
  ASSUME Inv, SessionsFit, NEW s \in Slots,
         \/ ServeRegister(s) \/ ServeChange(s) \/ ServeRecovery(s) \/ ServeDelete(s)
         \/ ServeLogout(s)
  PROVE  SessionsFit'
<1>1. tasks \in [Slots -> Task] /\ tasks[s] \in Task /\ TaskFits(tasks[s])
  BY TaskTyped
<1>2. /\ tasks[s].kind \in {"register", "change", "recovery", "delete", "logout"}
      /\ cookie' = cookie
  BY DEF ServeRegister, ServeChange, ServeRecovery, ServeDelete, ServeLogout, Reaches
<1>3. used'.sessions = used.sessions
  BY ServerTyped DEF ServeRegister, ServeChange, ServeRecovery, ServeDelete, ServeLogout
<1>4. /\ \A r \in Slots \ {s} : tasks'[r] = tasks[r]
      /\ tasks'[s].session = tasks[s].session /\ tasks'[s].kind = tasks[s].kind
  <2>1. CASE ServeRegister(s)
    BY <1>1, <2>1 DEF ServeRegister, Task
  <2>2. CASE ServeChange(s)
    BY <1>1, <2>2 DEF ServeChange, Task
  <2>3. CASE ServeRecovery(s)
    BY <1>1, <2>3 DEF ServeRecovery, Task
  <2>4. CASE To(s, "done")
    BY <1>1, <2>4 DEF To, Task
  <2>. QED
    BY <2>1, <2>2, <2>3, <2>4 DEF ServeDelete, ServeLogout
<1>5. /\ sessions \in [1 .. MaxSessions -> People] /\ pw \in [Users -> -1 .. MaxPw]
      /\ MaxPw \in Nat
  BY ServerTyped, DeviceAssumption
<1>6. \A n \in 1 .. MaxSessions :
        \/ sessions'[n] = Nobody
        \/ sessions'[n] = sessions[n] /\ (pw[sessions[n]] > 0 => pw'[sessions[n]] > 0)
  <2>1. CASE ServeRegister(s)
    <3>1. \A u \in Users : pw[u] > 0 => pw'[u] > 0
      BY <1>5, <2>1 DEF ServeRegister
    <3>2. sessions' = sessions
      BY <2>1 DEF ServeRegister
    <3>. QED
      BY <1>5, <3>1, <3>2 DEF People
  <2>2. CASE ServeChange(s)
    <3>1. \A u \in Users : pw[u] > 0 => pw'[u] > 0
      BY <1>5, <2>2 DEF ServeChange
    <3>2. sessions' = Close(tasks[s].user, cookie)
      BY <2>2 DEF ServeChange
    <3>. QED
      BY <1>5, <3>1, <3>2 DEF People, Close
  <2>3. CASE ServeRecovery(s) \/ ServeLogout(s)
    BY <1>5, <2>3 DEF ServeRecovery, ServeLogout
  <2>4. CASE ServeDelete(s)
    BY <1>5, <2>4 DEF ServeDelete, Close
  <2>. QED
    BY <2>1, <2>2, <2>3, <2>4
<1>. QED
  BY <1>2, <1>3, <1>4, <1>6, SessionsKept

LEMMA ElsewhereSessions ==
  ASSUME Inv, SessionsFit, Ended \/ \E u \in Users : Recover(u)
  PROVE  SessionsFit'
<1>1. tasks' = tasks /\ cookie' = cookie /\ used'.sessions = used.sessions
  BY CountedApart DEF Ended, Recover
<1>2. sessions \in [1 .. MaxSessions -> People] /\ pw \in [Users -> -1 .. MaxPw]
  BY ServerTyped
<1>3. \A n \in 1 .. MaxSessions :
        \/ sessions'[n] = Nobody
        \/ sessions'[n] = sessions[n] /\ (pw[sessions[n]] > 0 => pw'[sessions[n]] > 0)
  <2>1. CASE Ended
    BY <1>2, <2>1 DEF Ended
  <2>2. ASSUME NEW u \in Users, Recover(u)
        PROVE  \A n \in 1 .. MaxSessions :
                 \/ sessions'[n] = Nobody
                 \/ sessions'[n] = sessions[n] /\ (pw[sessions[n]] > 0 => pw'[sessions[n]] > 0)
    BY <1>2, <2>2 DEF Recover, Close
  <2>. QED
    BY <2>1, <2>2
<1>. QED
  BY <1>1, <1>3, SessionsKept

LEMMA StoreSessions ==
  ASSUME Inv, SessionsFit, NEW x \in Stores, Refuses(x) \/ Allows(x)
  PROVE  SessionsFit'
<1>1. UNCHANGED <<server, tasks, cookie>> /\ used'.sessions = used.sessions
  BY CountedApart DEF Refuses, Allows
<1>. QED
  BY <1>1, BrowserSessions

-----------------------------------------------------------------------------
(* The device is of who uses it.                                           *)

LEMMA InitDevice == Init => DeviceInv
<1>. SUFFICES ASSUME Init PROVE DeviceInv
  OBVIOUS
<1>1. Owner = Nobody /\ Nobody \notin Users
  BY DeviceAssumption DEF Init, Owner
<1>2. /\ cookie = 0 /\ used.sessions = 0 /\ sessions = [n \in 1 .. MaxSessions |-> Nobody]
      /\ \A s \in Slots : tasks[s].kind = "none" /\ tasks[s].session = 0
      /\ queue = [t \in Tabs |-> <<>>] /\ shown = [t \in Tabs |-> Nobody]
      /\ asking = [t \in Tabs |-> [state |-> "none", user |-> Nobody]] /\ ~out
  BY DEF Init, Idle
<1>3. SessionsFit
  BY <1>2 DEF SessionsFit
<1>4. Alone
  BY <1>2 DEF Alone, Touches, Writes
<1>5. OwnersVault /\ OwnersKey
  BY <1>1 DEF OwnersVault, OwnersKey
<1>6. NothingLeft /\ OwnMemory
  BY <1>1, <1>2 DEF NothingLeft, OwnMemory, SignedIn
<1>7. \A s \in Slots : TaskLeaves(s)
  BY <1>2 DEF TaskLeaves
<1>. QED
  BY <1>3, <1>4, <1>5, <1>6, <1>7 DEF DeviceInv, Tidy

\* A step that nothing has crossed leaves the device tidy.
LEMMA NextTidy ==
  ASSUME Inv, SessionsFit, Tidy, ~stray', Next
  PROVE  Tidy'
<1>1. CASE \E s \in Slots, t \in Tabs :
             \/ AskLogin(s, t) \/ AskRegister(s, t) \/ AskChange(s, t) \/ AskRecovery(s, t)
             \/ AskDelete(s, t) \/ AskLogout(s, t) \/ Unlock(s, t) \/ SeekKey(s, t)
  BY <1>1, AsksTidy, KeysTidy
<1>2. CASE \E s \in Slots :
             \/ ReadVault(s) \/ Deny(s) \/ ServeLogin(s) \/ ServeRegister(s) \/ ServeChange(s)
             \/ ServeRecovery(s) \/ ServeDelete(s) \/ ServeLogout(s)
             \/ Denied(s) \/ LoggedIn(s) \/ StoreAtLogin(s) \/ Enter(s) \/ Registering(s)
             \/ Unlocked(s) \/ ReadKey(s) \/ KeepKey(s) \/ Changed(s) \/ CodeMade(s)
             \/ Left(s) \/ AnswerLost(s)
  BY <1>2, FormsTidy, ServeLoginTidy, ServeRegisterTidy, ServeChangeTidy, ServeOtherTidy,
     LoggedInTidy, StoreTidy, EnterTidy, CodesTidy, UnlockedTidy, ReadKeyTidy, KeepKeyTidy,
     ChangedTidy, LeavingTidy, LostTidy
<1>3. CASE \E t \in Tabs : Flush(t) \/ Reload(t) \/ TellSession(t) \/ ShowSession(t)
                          \/ Expired(t) \/ ChatExpired(t)
  BY <1>3, FlushTidy, ReloadTidy, AskedTidy, ShowTidy, ChatExpiredTidy
<1>4. CASE Ended \/ \E u \in Users : Recover(u)
  BY <1>4, ElsewhereTidy
<1>5. CASE \E x \in Stores : Refuses(x) \/ Allows(x)
  BY <1>5, StoresTidy
<1>. QED
  BY <1>1, <1>2, <1>3, <1>4, <1>5 DEF Next

\* What has crossed once stays so.
LEMMA StrayStays ==
  ASSUME Next, stray
  PROVE  stray'
<1>1. CASE \E s \in Slots, t \in Tabs :
             \/ AskLogin(s, t) \/ AskRegister(s, t) \/ AskChange(s, t) \/ AskRecovery(s, t)
             \/ AskDelete(s, t) \/ AskLogout(s, t) \/ Unlock(s, t) \/ SeekKey(s, t)
  <2>1. SUFFICES ASSUME NEW s \in Slots, NEW t \in Tabs,
                        \/ AskLogin(s, t) \/ AskRegister(s, t) \/ AskChange(s, t)
                        \/ AskRecovery(s, t) \/ AskDelete(s, t) \/ AskLogout(s, t)
                        \/ Unlock(s, t) \/ SeekKey(s, t)
                 PROVE  stray'
    BY <1>1
  <2>2. ASSUME NEW kind, NEW u, NEW p, NEW step, NEW key, Ask(s, t, kind, u, p, step, key)
        PROVE  stray'
    BY <2>2 DEF Ask
  <2>3. CASE AskLogin(s, t)
    BY <2>2, <2>3 DEF AskLogin
  <2>4. CASE AskRegister(s, t)
    BY <2>2, <2>4 DEF AskRegister
  <2>5. CASE AskChange(s, t)
    BY <2>2, <2>5 DEF AskChange
  <2>6. CASE AskRecovery(s, t)
    BY <2>2, <2>6 DEF AskRecovery
  <2>7. CASE AskDelete(s, t)
    BY <2>2, <2>7 DEF AskDelete
  <2>8. CASE AskLogout(s, t)
    BY <2>2, <2>8 DEF AskLogout
  <2>9. CASE Unlock(s, t)
    BY <2>2, <2>9 DEF Unlock
  <2>10. CASE SeekKey(s, t)
    BY <2>2, <2>10 DEF SeekKey
  <2>. QED
    BY <2>1, <2>3, <2>4, <2>5, <2>6, <2>7, <2>8, <2>9, <2>10
<1>2. CASE \E s \in Slots :
             \/ ReadVault(s) \/ Deny(s) \/ ServeLogin(s) \/ ServeRegister(s) \/ ServeChange(s)
             \/ ServeRecovery(s) \/ ServeDelete(s) \/ ServeLogout(s)
             \/ Denied(s) \/ LoggedIn(s) \/ StoreAtLogin(s) \/ Enter(s) \/ Registering(s)
             \/ Unlocked(s) \/ ReadKey(s) \/ KeepKey(s) \/ Changed(s) \/ CodeMade(s)
             \/ Left(s) \/ AnswerLost(s)
  BY <1>2, ZenonT(30) DEF ReadVault, Deny, ServeLogin, ServeRegister, ServeChange, ServeRecovery,
       ServeDelete, ServeLogout, Denied, LoggedIn, StoreAtLogin, Enter, Registering, Unlocked,
       ReadKey, KeepKey, Changed, CodeMade, Left, AnswerLost, Clear, history
<1>3. CASE \E t \in Tabs : Flush(t) \/ Reload(t) \/ TellSession(t) \/ ShowSession(t)
                          \/ Expired(t) \/ ChatExpired(t)
  BY <1>3 DEF Flush, Reload, TellSession, ShowSession, Expired, ChatExpired, Clear, history
<1>4. CASE Ended \/ \E u \in Users : Recover(u)
  BY <1>4 DEF Ended, Recover, history
<1>5. CASE \E x \in Stores : Refuses(x) \/ Allows(x)
  BY <1>5 DEF Refuses, Allows, history
<1>. QED
  BY <1>1, <1>2, <1>3, <1>4, <1>5 DEF Next

LEMMA NextDevice == Inv /\ DeviceInv /\ [Next]_vars => DeviceInv'
<1>. SUFFICES ASSUME Inv, DeviceInv, [Next]_vars PROVE DeviceInv'
  OBVIOUS
<1>1. CASE UNCHANGED vars
  <2>1. /\ UNCHANGED <<pw, sessions, cookie, vault, idb, shown, asking, mem, queue, tasks>>
        /\ UNCHANGED <<used, out, behind, stray>>
    BY <1>1 DEF vars, server, storage, tabs, history
  <2>2. SessionsFit'
    BY <2>1 DEF DeviceInv, SessionsFit
  <2>3. ASSUME Tidy PROVE Tidy'
    <3>1. Owner' = Owner /\ \A S : Final(S) <=> Final(S)'
      BY <2>1 DEF Owner, Final
    <3>2. Alone' /\ OwnMemory'
      BY <2>1, <2>3 DEF Tidy, Alone, OwnMemory, SignedIn
    <3>3. OwnersVault'
      BY <2>1, <2>3, <3>1 DEF Tidy, OwnersVault, Current
    <3>4. OwnersKey'
      BY <2>1, <2>3, <3>1 DEF Tidy, OwnersKey, Final
    <3>5. NothingLeft'
      BY <2>1, <2>3, <3>1 DEF Tidy, NothingLeft, NoVault, NoPassword
    <3>6. ASSUME NEW s \in Slots PROVE TaskLeaves(s)'
      <4>1. TaskLeaves(s)
        BY <2>3 DEF Tidy
      <4>. QED
        BY <2>1, <3>1, <4>1
        DEF TaskLeaves, LoginLeaves, UnlockLeaves, ReadLeaves, ChangeLeaves, SignedIn, Current,
            Final
    <3>. QED
      BY <3>2, <3>3, <3>4, <3>5, <3>6 DEF Tidy
  <2>. QED
    BY <2>1, <2>2, <2>3 DEF DeviceInv
<1>2. CASE Next
  <2>1. SessionsFit /\ (~stray => Tidy)
    BY DEF DeviceInv
  <2>2. SessionsFit'
    BY <1>2, <2>1, AskSessions, TaskSessions, TabSessions, ServeLoginSessions, ServeSessions,
       ElsewhereSessions, StoreSessions DEF Next
  <2>3. ~stray' => Tidy'
    BY <1>2, <2>1, NextTidy, StrayStays
  <2>. QED
    BY <2>2, <2>3 DEF DeviceInv
<1>. QED
  BY <1>1, <1>2

\* The browser holds the keys of who uses it: a tab that shows the owner of the
\* cookie finds a vault their password opens and no open key but theirs, and
\* after a sign-out there is none, unless something came between a task and
\* what it leaves, and but for what refused its last write.
THEOREM DevicesAreTheirs == Spec => []DeviceIsTheirs
<1>1. Inv /\ DeviceInv => DeviceIsTheirs
  <2>1. SUFFICES ASSUME Inv, DeviceInv, Quiet, ~stray
                 PROVE  SignedOutIsClean /\ \A t \in Tabs : KeysOf(t)
    BY DEF DeviceIsTheirs
  <2>2. /\ \A s \in Slots : tasks[s].kind = "none"
        /\ \A t \in Tabs : queue[t] = <<>>
    BY <2>1 DEF Quiet, AtRest
  <2>3. Tidy
    BY <2>1 DEF DeviceInv
  <2>4. SignedOutIsClean
    BY <2>2, <2>3 DEF Tidy, NothingLeft, Final, SignedOutIsClean
  <2>5. ASSUME NEW t \in Tabs, SignedIn(t), shown[t] = Owner
        PROVE  /\ \/ "vault" \in behind
                  \/ vault \in {NoVault, [key |-> Owner, with |-> Current(Owner)]}
               /\ "idb" \in behind \/ idb \in {Nobody, Owner}
               /\ mem[t] \in {Nobody, Owner}
    <3>1. Owner \in Users
      BY <2>5 DEF SignedIn
    <3>2. Final({Nobody, Owner})
      BY <2>2, <2>3, <3>1 DEF Tidy, OwnersKey
    <3>3. "idb" \in behind \/ idb \in {Nobody, Owner}
      BY <2>2, <3>2 DEF Final
    <3>4. mem[t] \in {Nobody, Owner}
      BY <2>3, <2>5 DEF Tidy, OwnMemory
    <3>5. "vault" \in behind \/ vault \in {NoVault, [key |-> Owner, with |-> Current(Owner)]}
      BY <2>2, <2>3, <3>1 DEF Tidy, OwnersVault
    <3>. QED
      BY <3>3, <3>4, <3>5
  <2>. QED
    BY <2>4, <2>5 DEF KeysOf
<1>2. Spec => []DeviceInv
  BY InitDevice, NextDevice, AlwaysInv, PTL DEF Spec
<1>. QED
  BY <1>1, <1>2, AlwaysInv, PTL
=============================================================================
