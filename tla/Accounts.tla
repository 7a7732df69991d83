------------------------------ MODULE Accounts ------------------------------
(***************************************************************************)
(* The accounts of RoomDate: the credentials kept in a row of the users    *)
(* table, the sessions opened with them, and the requests that read and    *)
(* write both.  A request handler makes several statements, none of them   *)
(* in a common transaction, so that the statements of two requests         *)
(* interleave freely: each action below is one statement, with what the    *)
(* handler computes around it.                                             *)
(*                                                                         *)
(* A credential is a password together with the key-derivation parameters  *)
(* it is used with.  The browser sends the server a secret derived from    *)
(* both (the password itself under the legacy method), and wraps the       *)
(* private chat key with another key derived from both.  The row keeps the *)
(* hash of the secret, the public parameters and the wrapped key ("vault").*)
(*                                                                         *)
(* A definition introduced by "Slip" is not the code: it is the definition *)
(* below it with a mistake in it, which some property must notice.         *)
(***************************************************************************)
EXTENDS Naturals, FiniteSets

CONSTANTS
  Users,        \* user ids
  BcryptUsers,  \* users whose password may still be hashed with bcrypt
  Passwords,    \* passwords a user may type
  Salts,        \* derivation parameters of the current method (version 2)
  Legacy,       \* derivation parameters of the old method (version 1)
  Codes,        \* recovery codes
  SessionIds,   \* session ids: bounds the sessions there are at once
  Requests,     \* requests in flight at once
  None,         \* "no value"
  Deleted       \* the row of a deleted account

VARIABLES
  row,          \* users table
  session,      \* sessions table, with the history of each session
  request,      \* what each request handler has read so far
  exposed,      \* history: users whose password changed without a revocation
  overwritten   \* history: users whose hash a re-hash replaced with an older one

vars == <<row, session, request, exposed, overwritten>>
history == <<exposed, overwritten>>

Kdfs == Salts \cup {Legacy}
Credential == [pw : Passwords, kdf : Kdfs]

Row == [hash : Credential, bcrypt : BOOLEAN, kdf : Kdfs,
        vault : Credential \cup {None},
        code : Codes \cup {None}, copy : BOOLEAN, suspended : BOOLEAN]

ASSUME AccountsAssumption ==
  /\ BcryptUsers \subseteq Users
  /\ Legacy \notin Salts
  /\ None \notin Users \cup Codes \cup SessionIds \cup Passwords
  /\ None \notin Credential
  /\ {None, Deleted} \cap Row = {}
  /\ None # Deleted

\* proof and late are history: the password the session last proved to know,
\* and whether that was already out of date when the session was inserted.
Session == [state : {"absent", "live", "lapsed"},
            user : Users \cup {None}, proof : Passwords \cup {None}, late : BOOLEAN]

Ops == {"none", "login", "upgrade", "change", "recover", "setRecovery",
        "delete", "logout", "revokeOne", "revokeOthers"}
Stages == {"idle", "sent", "complete", "authorised", "rehash", "insert",
           "answered", "write", "revoke"}

Request == [op : Ops, stage : Stages, user : Users \cup {None},
            sid : SessionIds \cup {None}, target : SessionIds \cup {None},
            cred : Credential \cup {None}, new : Credential \cup {None},
            vault : Credential \cup {None}, code : Codes \cup {None}, keys : BOOLEAN]

NoRequest == [op |-> "none", stage |-> "idle", user |-> None, sid |-> None,
              target |-> None, cred |-> None, new |-> None, vault |-> None,
              code |-> None, keys |-> FALSE]

NoSession == [state |-> "absent", user |-> None, proof |-> None, late |-> FALSE]

Exists(u) == row[u] \notin {None, Deleted}
Present(s) == session[s].state \in {"live", "lapsed"}

\* An id stands for no session, past or present, that anyone still refers to.
Fresh(s) == /\ ~Present(s)
            /\ \A r \in Requests : s \notin {request[r].sid, request[r].target}
SessionsOf(u) == {s \in SessionIds : Present(s) /\ session[s].user = u}

\* The sessions table after the rows in S are deleted.
Closed(S) == [s \in SessionIds |->
                IF s \in S THEN NoSession ELSE session[s]]

Goto(r, stage) == request' = [request EXCEPT ![r].stage = stage]
Finish(r) == request' = [request EXCEPT ![r] = NoRequest]
At(r, op, stage) == request[r].op = op /\ request[r].stage = stage

-----------------------------------------------------------------------------
(* Registration: one INSERT, already with the current method.              *)

Register(u, pw, salt, keys, code) ==
  LET c == [pw |-> pw, kdf |-> salt] IN
  /\ row[u] = None
  /\ row' = [row EXCEPT ![u] =
       [hash |-> c, bcrypt |-> FALSE, kdf |-> salt,
        vault |-> IF keys THEN c ELSE None,
        code |-> code, copy |-> keys /\ code # None, suspended |-> FALSE]]
  /\ UNCHANGED <<session, request, history>>

-----------------------------------------------------------------------------
(* Sign-in.  The browser asks for the derivation parameters first, and     *)
(* sends the secret they give in a second call.                            *)

SendLogin(r, u, pw) ==
  /\ request[r] = NoRequest
  /\ Exists(u)
  /\ request' = [request EXCEPT ![r] = [NoRequest EXCEPT
       !.op = "login", !.stage = "sent", !.user = u,
       !.cred = [pw |-> pw, kdf |-> row[u].kdf]]]
  /\ UNCHANGED <<row, session, history>>

\* AccountByEmail reads the whole row at once: hash, suspension and vault.
LoginVerify(r) ==
  LET u == request[r].user IN
  /\ At(r, "login", "sent")
  /\ \/ /\ Exists(u)
        /\ row[u].hash = request[r].cred
        /\ ~row[u].suspended
        /\ request' = [request EXCEPT
             ![r].stage = IF row[u].bcrypt THEN "rehash" ELSE "insert",
             ![r].vault = row[u].vault]
     \/ /\ ~(Exists(u) /\ row[u].hash = request[r].cred /\ ~row[u].suspended)
        /\ Finish(r)
  /\ UNCHANGED <<row, session, history>>

\* UpdatePasswordHash: the hash alone, whatever the row holds by now.  A
\* failure is logged and the sign-in goes on.
Rehash(r) ==
  LET u == request[r].user
      c == request[r].cred IN
  /\ At(r, "login", "rehash")
  /\ Goto(r, "insert")
  /\ \/ /\ Exists(u)
        /\ row' = [row EXCEPT ![u].hash = c, ![u].bcrypt = FALSE]
        /\ overwritten' = IF row[u].hash = c THEN overwritten ELSE overwritten \cup {u}
        /\ exposed' = IF row[u].hash.pw = c.pw THEN exposed ELSE exposed \cup {u}
     \/ UNCHANGED <<row, history>>
  /\ UNCHANGED session

\* CreateSession, under a new random id: the INSERT fails when the user is gone (foreign key); then
\* this user's lapsed sessions go, and of the other users those that lapsed by
\* age rather than by idleness.
StartSession(r) ==
  LET u == request[r].user
      lapsed == {s \in SessionIds : session[s].state = "lapsed"} IN
  /\ At(r, "login", "insert")
  /\ \/ /\ Exists(u)
        /\ \E s \in SessionIds, swept \in SUBSET lapsed :
             /\ Fresh(s)
             /\ lapsed \cap SessionsOf(u) \subseteq swept
             /\ session' = [Closed(swept) EXCEPT ![s] =
                  [state |-> "live", user |-> u, proof |-> request[r].cred.pw,
                   late |-> request[r].cred.pw # row[u].hash.pw]]
             /\ request' = [request EXCEPT ![r].stage = "answered", ![r].sid = s]
     \/ /\ ~Exists(u)
        /\ Finish(r)
        /\ UNCHANGED session
  /\ UNCHANGED <<row, history>>

\* The browser receives the vault that LoginVerify read.  On a legacy account
\* whose vault the password opens it asks at once for the current method.
LoginAnswered(r) ==
  LET c == request[r].cred
      v == request[r].vault IN
  /\ At(r, "login", "answered")
  /\ \/ /\ c.kdf = Legacy
        /\ v \in {None, c}
        /\ \E salt \in Salts :
             request' = [request EXCEPT ![r].op = "upgrade", ![r].stage = "sent",
                           ![r].new = [pw |-> c.pw, kdf |-> salt],
                           ![r].keys = (v # None), ![r].vault = None]
     \/ /\ ~(c.kdf = Legacy /\ v \in {None, c})
        /\ Finish(r)
  /\ UNCHANGED <<row, session, history>>

-----------------------------------------------------------------------------
(* Requests made from an open session.  FromRequest accepts the cookie,    *)
(* and only then the handler reads the account in a statement of its own.  *)

\* The browser first asks for the derivation parameters, to prove the typed
\* password with them.  It sends a wrapped private key only if it holds one.
SendFromSession(r, s, op, pw, new, code, keys) ==
  LET u == session[s].user IN
  /\ request[r] = NoRequest
  /\ session[s].state = "live"
  /\ Exists(u)
  /\ keys => row[u].vault # None
  /\ request' = [request EXCEPT ![r] = [NoRequest EXCEPT
       !.op = op, !.stage = "sent", !.user = u, !.sid = s,
       !.cred = [pw |-> pw, kdf |-> row[u].kdf], !.new = new, !.code = code, !.keys = keys]]
  /\ UNCHANGED <<row, session, history>>

SendChange(r, s) ==
  \E pw, newPw \in Passwords, salt \in Salts, keys \in BOOLEAN :
    SendFromSession(r, s, "change", pw, [pw |-> newPw, kdf |-> salt], None, keys)

SendSetRecovery(r, s) ==
  \E pw \in Passwords, code \in Codes, keys \in BOOLEAN :
    SendFromSession(r, s, "setRecovery", pw, None, code, keys)

SendDelete(r, s) ==
  \E pw \in Passwords : SendFromSession(r, s, "delete", pw, None, None, FALSE)

\* FromRequest joins the session with its user: a closed or lapsed session,
\* and any session of a suspended user, is refused.
Accepted(s) == /\ session[s].state = "live"
               /\ Exists(session[s].user)
               /\ ~row[session[s].user].suspended

Authenticate(r) ==
  /\ request[r].op \in {"upgrade", "change", "setRecovery", "delete"}
  /\ request[r].stage = "sent"
  /\ \/ Accepted(request[r].sid) /\ Goto(r, "authorised")
     \/ ~Accepted(request[r].sid) /\ Finish(r)
  /\ UNCHANGED <<row, session, history>>

\* Logout and the calls of the session list carry no password: nothing is
\* read before the cookie.
AuthenticateCall(r, s) ==
  /\ request[r] = NoRequest
  /\ Accepted(s)
  /\ \E op \in {"logout", "revokeOne", "revokeOthers"},
        t \in {id \in SessionIds : Present(id)} \cup {None} :
       /\ op = "revokeOne" <=> t # None
       /\ request' = [request EXCEPT ![r] = [NoRequest EXCEPT
            !.op = op, !.stage = "authorised", !.user = session[s].user,
            !.sid = s, !.target = t]]
  /\ UNCHANGED <<row, session, history>>

\* Slip: the new recovery code is accepted without the copy of the key.
ValidWithoutCopy(r) ==
  LET u == request[r].user IN
  /\ Exists(u)
  /\ request[r].op = "upgrade" => row[u].kdf = Legacy
  /\ request[r].op \in {"upgrade", "change"} => (row[u].vault # None => request[r].keys)
  /\ row[u].hash = request[r].cred

\* Slip: the password change is accepted without the wrapped key.
ValidWithoutVault(r) ==
  LET u == request[r].user IN
  /\ Exists(u)
  /\ request[r].op = "upgrade" => row[u].kdf = Legacy
  /\ request[r].op \in {"upgrade", "setRecovery"} => (row[u].vault # None => request[r].keys)
  /\ row[u].hash = request[r].cred

\* What the handler of each operation checks on the account row it reads.
Valid(r) ==
  LET u == request[r].user IN
  /\ Exists(u)
  /\ request[r].op = "upgrade" => row[u].kdf = Legacy
  /\ request[r].op \in {"upgrade", "change", "setRecovery"} =>
       (row[u].vault # None => request[r].keys)
  /\ row[u].hash = request[r].cred

Verify(r) ==
  /\ request[r].op \in {"upgrade", "change", "setRecovery", "delete"}
  /\ request[r].stage = "authorised"
  /\ \/ /\ Valid(r)
        /\ request' = [request EXCEPT ![r].stage = "write", ![r].cred = None]
     \/ ~Valid(r) /\ Finish(r)
  /\ UNCHANGED <<row, session, history>>

\* Slip: the vault is left to a statement that never runs.
NewCredentialsKeepingVault(u, c, keys) ==
  [row[u] EXCEPT !.hash = c, !.bcrypt = FALSE, !.kdf = c.kdf]

\* UpdatePassword: hash, parameters and vault in one statement.  The vault is
\* replaced by what the request carries only where there was one.
NewCredentials(u, c, keys) ==
  [row[u] EXCEPT !.hash = c, !.bcrypt = FALSE, !.kdf = c.kdf,
                 !.vault = IF @ = None THEN None ELSE IF keys THEN c ELSE None]

UpdatePassword(r) ==
  LET u == request[r].user IN
  row' = IF Exists(u)
           THEN [row EXCEPT ![u] = NewCredentials(u, request[r].new, request[r].keys)]
           ELSE row

\* What is left to do after the write needs the user and the session only.
ToRevoke(r) ==
  request' = [request EXCEPT ![r] = [NoRequest EXCEPT
    !.op = request[r].op, !.stage = "revoke", !.user = request[r].user,
    !.sid = request[r].sid]]

\* An upgrade closes no session: it is meant to keep the password.
UpgradeWrite(r) ==
  LET u == request[r].user IN
  /\ At(r, "upgrade", "write")
  /\ UpdatePassword(r)
  /\ exposed' = IF Exists(u) /\ row[u].hash.pw # request[r].new.pw
                  THEN exposed \cup {u} ELSE exposed
  /\ Finish(r)
  /\ UNCHANGED <<session, overwritten>>

ChangeWrite(r) ==
  /\ At(r, "change", "write")
  /\ UpdatePassword(r)
  /\ session' = IF Present(request[r].sid)
                  THEN [session EXCEPT ![request[r].sid].proof = request[r].new.pw]
                  ELSE session
  /\ ToRevoke(r)
  /\ UNCHANGED history

\* Slip: the session of the request goes, and the others stay.
ChangeRevokeOwn(r) ==
  /\ At(r, "change", "revoke")
  /\ session' = Closed(SessionsOf(request[r].user) \cap {request[r].sid})
  /\ Finish(r)
  /\ UNCHANGED <<row, history>>

\* RevokeOtherSessions: all the user's sessions but the one of this request.
ChangeRevoke(r) ==
  /\ At(r, "change", "revoke")
  /\ session' = Closed(SessionsOf(request[r].user) \ {request[r].sid})
  /\ Finish(r)
  /\ UNCHANGED <<row, history>>

\* Slip: the two arguments of SetRecovery are swapped.
SetRecoveryWriteSwapped(r) ==
  LET u == request[r].user IN
  /\ At(r, "setRecovery", "write")
  /\ row' = IF Exists(u)
              THEN [row EXCEPT ![u].code = request[r].keys, ![u].copy = request[r].code]
              ELSE row
  /\ Finish(r)
  /\ UNCHANGED <<session, history>>

SetRecoveryWrite(r) ==
  LET u == request[r].user IN
  /\ At(r, "setRecovery", "write")
  /\ row' = IF Exists(u)
              THEN [row EXCEPT ![u].code = request[r].code, ![u].copy = request[r].keys]
              ELSE row
  /\ Finish(r)
  /\ UNCHANGED <<session, history>>

\* The sessions go with the user (ON DELETE CASCADE).
DeleteWrite(r) ==
  LET u == request[r].user IN
  /\ At(r, "delete", "write")
  /\ row' = [row EXCEPT ![u] = Deleted]
  /\ session' = Closed(SessionsOf(u))
  /\ Finish(r)
  /\ UNCHANGED history

SessionCall(r) ==
  LET q == request[r]
      mine == SessionsOf(q.user)
      gone == CASE q.op = "logout" -> {q.sid}
                [] q.op = "revokeOne" -> mine \cap {q.target}
                [] q.op = "revokeOthers" -> mine \ {q.sid} IN
  /\ q.op \in {"logout", "revokeOne", "revokeOthers"}
  /\ q.stage = "authorised"
  /\ session' = Closed(gone)
  /\ Finish(r)
  /\ UNCHANGED <<row, history>>

-----------------------------------------------------------------------------
(* Forgotten password: two calls with the recovery code, the second of     *)
(* which verifies it again before it reads and writes the account.         *)

CodeAccepted(u, code) ==
  /\ Exists(u)
  /\ row[u].code = code
  /\ ~row[u].suspended

\* RecoveryVerify answers with the copy of the private key, if there is one;
\* the browser wraps it again for the new password and calls RecoveryComplete.
RecoverVerify(r, u, code, pw, salt) ==
  /\ request[r] = NoRequest
  /\ CodeAccepted(u, code)
  /\ request' = [request EXCEPT ![r] = [NoRequest EXCEPT
       !.op = "recover", !.stage = "complete", !.user = u, !.code = code,
       !.new = [pw |-> pw, kdf |-> salt], !.keys = row[u].copy]]
  /\ UNCHANGED <<row, session, history>>

RecoverComplete(r) ==
  /\ At(r, "recover", "complete")
  /\ \/ CodeAccepted(request[r].user, request[r].code) /\ Goto(r, "authorised")
     \/ ~CodeAccepted(request[r].user, request[r].code) /\ Finish(r)
  /\ UNCHANGED <<row, session, history>>

RecoverRead(r) ==
  LET u == request[r].user
      ok == Exists(u) /\ (row[u].vault # None => request[r].keys) IN
  /\ At(r, "recover", "authorised")
  /\ \/ /\ ok
        /\ request' = [request EXCEPT ![r].stage = "write", ![r].code = None]
     \/ ~ok /\ Finish(r)
  /\ UNCHANGED <<row, session, history>>

RecoverWrite(r) ==
  /\ At(r, "recover", "write")
  /\ UpdatePassword(r)
  /\ ToRevoke(r)
  /\ UNCHANGED <<session, history>>

\* RevokeAllSessions.
RecoverRevoke(r) ==
  /\ At(r, "recover", "revoke")
  /\ session' = Closed(SessionsOf(request[r].user))
  /\ exposed' = exposed \ {request[r].user}
  /\ Finish(r)
  /\ UNCHANGED <<row, overwritten>>

-----------------------------------------------------------------------------
(* The administrator, the clock, and the failures.                         *)

\* Resolve with the action "suspend": one transaction.
Suspend(u) ==
  /\ Exists(u)
  /\ row' = [row EXCEPT ![u].suspended = TRUE]
  /\ session' = Closed(SessionsOf(u))
  /\ UNCHANGED <<request, history>>

Unsuspend(u) ==
  /\ Exists(u)
  /\ row[u].suspended
  /\ row' = [row EXCEPT ![u].suspended = FALSE]
  /\ UNCHANGED <<session, request, history>>

\* Thirty days from the sign-in, or seven without use: the row stays, and
\* FromRequest refuses it.
Lapse(s) ==
  /\ session[s].state = "live"
  /\ session' = [session EXCEPT ![s].state = "lapsed"]
  /\ UNCHANGED <<row, request, history>>

\* The request context is cancelled, a statement fails or the process dies:
\* what was written stays, and nothing runs again.
Abort(r) ==
  /\ request[r] # NoRequest
  /\ exposed' = IF request[r].stage = "revoke" THEN exposed \cup {request[r].user}
                                               ELSE exposed
  /\ Finish(r)
  /\ UNCHANGED <<row, session, overwritten>>

-----------------------------------------------------------------------------
OldRows ==
  {[hash |-> c, bcrypt |-> b, kdf |-> Legacy, vault |-> IF keys THEN c ELSE None,
    code |-> None, copy |-> FALSE, suspended |-> FALSE] :
     c \in [pw : Passwords, kdf : {Legacy}], b \in BOOLEAN, keys \in BOOLEAN}

\* Some accounts date from before the current method, with a vault or not.
Init ==
  /\ row \in [Users -> OldRows \cup {None}]
  /\ \A u \in Users : row[u] # None /\ row[u].bcrypt => u \in BcryptUsers
  /\ session = [s \in SessionIds |-> NoSession]
  /\ request = [r \in Requests |-> NoRequest]
  /\ exposed = {}
  /\ overwritten = {}

Login(r) == LoginVerify(r) \/ Rehash(r) \/ StartSession(r) \/ LoginAnswered(r)
Recover(r) == \/ RecoverComplete(r) \/ RecoverRead(r) \/ RecoverWrite(r)
              \/ RecoverRevoke(r)
FromSession(r) == \/ Authenticate(r) \/ Verify(r) \/ UpgradeWrite(r) \/ ChangeWrite(r)
                  \/ ChangeRevoke(r) \/ SetRecoveryWrite(r) \/ DeleteWrite(r)
                  \/ SessionCall(r)
Send(r) ==
  \/ \E u \in Users, pw \in Passwords : SendLogin(r, u, pw)
  \/ \E u \in Users, code \in Codes, pw \in Passwords, salt \in Salts :
       RecoverVerify(r, u, code, pw, salt)
  \/ \E s \in SessionIds : \/ SendChange(r, s) \/ SendSetRecovery(r, s)
                           \/ SendDelete(r, s) \/ AuthenticateCall(r, s)

Next ==
  \/ \E u \in Users, pw \in Passwords, salt \in Salts, keys \in BOOLEAN,
        code \in Codes \cup {None} : Register(u, pw, salt, keys, code)
  \/ \E r \in Requests : Send(r) \/ Login(r) \/ FromSession(r) \/ Recover(r) \/ Abort(r)
  \/ \E u \in Users : Suspend(u) \/ Unsuspend(u)
  \/ \E s \in SessionIds : Lapse(s)

Spec == Init /\ [][Next]_vars

-----------------------------------------------------------------------------
(* Properties.                                                             *)

\* Every table row and every request in flight has the shape declared above.
TypeOK ==
  /\ row \in [Users -> Row \cup {None, Deleted}]
  /\ session \in [SessionIds -> Session]
  /\ request \in [Requests -> Request]
  /\ exposed \subseteq Users
  /\ overwritten \subseteq Users

\* The three parts of a credential belong together: the hash, the parameters
\* the browser is told to use and the key that wraps the vault come from the
\* same password and parameters (users/store.go UpdatePassword), unless the
\* bcrypt re-hash of a sign-in replaced a newer hash with the one it had read.
Agrees(account) == /\ account.kdf = account.hash.kdf
                   /\ account.vault \in {None, account.hash}

CredentialsAgree ==
  \A u \in Users : Exists(u) /\ u \notin overwritten => Agrees(row[u])

\* What UpdatePassword and UpdatePasswordHash together are meant to keep for
\* every account: with the right password the browser is told parameters that
\* open both the account and the vault.  A re-hash racing a change breaks it.
AccountOpens == \A u \in Users : Exists(u) => Agrees(row[u])

\* A sign-in that succeeds hands the browser a vault that the typed password
\* opens, whatever was written between the check and the answer (users
\* Service.Login returns the row it checked).
SignInUnlocks ==
  \A r \in Requests :
    /\ request[r].op = "login"
    /\ request[r].stage \in {"rehash", "insert", "answered"}
    /\ request[r].user \notin overwritten
    => request[r].vault \in {None, request[r].cred}

\* Nobody loses the chat key by resetting the password: where there is a
\* vault and a recovery code, there is the copy of the key that the code
\* opens (checkRecovery, whose view of the vault is one statement old).
RecoveryRestoresKey ==
  \A u \in Users : Exists(u) /\ row[u].vault # None /\ row[u].code # None => row[u].copy

\* A session row belongs to an account row: sign-ins in flight cannot leave a
\* session behind the deletion of their user.
SessionsHaveOwners ==
  \A s \in SessionIds : Present(s) => Exists(session[s].user)

Revoking(u) == \E r \in Requests : request[r].stage = "revoke" /\ request[r].user = u

\* Which sessions can outlive the password they were opened with: those whose
\* revocation is still to run, those inserted by a sign-in the change overtook
\* (late), and those of a user whose last change closed nothing (exposed).
OnlyLateSessionsSurvive ==
  \A s \in SessionIds :
    LET u == session[s].user IN
    Present(s) /\ Exists(u) /\ session[s].proof # row[u].hash.pw =>
      Revoking(u) \/ session[s].late \/ u \in exposed

\* An account never gains or loses its private key: each write replaces a
\* vault by a vault and leaves an account without one as it is, though the
\* presence of the keys was checked on an earlier read.
VaultPermanent ==
  [][\A u \in Users : Exists(u) /\ Exists(u)' =>
        (row[u].vault = None <=> row'[u].vault = None)]_vars
=============================================================================
