--------------------------- MODULE AccountsProofs ---------------------------
(***************************************************************************)
(* What holds of Accounts for every set of users, passwords, sessions and  *)
(* requests.  The inductive invariant adds to the properties what each     *)
(* request in flight carries at each stage, and what it has learnt of the  *)
(* account row that later statements of other requests cannot undo.        *)
(***************************************************************************)
EXTENDS Accounts, TLAPS

\* A request carries the values that its remaining statements write.
CarriesOK(q) ==
  /\ q.stage # "idle" => q.user \in Users
  /\ q.op = "login" => q.cred \in Credential
  /\ q.op \in {"upgrade", "change", "recover"} /\ q.stage # "revoke" => q.new \in Credential
  /\ q.op \in {"upgrade", "change", "setRecovery", "delete"} => q.sid \in SessionIds
  /\ q.op = "login" /\ q.stage = "answered" => q.sid \in SessionIds
  /\ q.op = "recover" => q.sid = None
  /\ q.op = "setRecovery" => q.code \in Codes
  /\ q.stage = "revoke" => q.op \in {"change", "recover"}

RequestsCarry == \A r \in Requests : CarriesOK(request[r])

\* A request is about an account that was there when it began.
RequestsKnown ==
  \A r \in Requests : request[r].stage # "idle" => row[request[r].user] # None

\* Its session, while it is there, is one of that account.
RequestsOwnSession ==
  \A r \in Requests : LET s == request[r].sid IN
    s \in SessionIds /\ Present(s) => session[s].user = request[r].user

\* The session rows that are there belong to some user.
SessionsOwned == \A s \in SessionIds : Present(s) => session[s].user \in Users

\* A request about to write carries a key if the account has a vault: what
\* was checked on an earlier read is still so.
KeysChecked ==
  \A r \in Requests : LET u == request[r].user IN
    /\ request[r].op \in {"upgrade", "change", "setRecovery", "recover"}
    /\ request[r].stage = "write"
    /\ Exists(u)
    => (row[u].vault # None => request[r].keys)

\* A session that has outlived its password is about to be closed by a request
\* other than the one that spares it.
RevocationPending ==
  \A s \in SessionIds :
    LET u == session[s].user IN
    Present(s) /\ session[s].proof # row[u].hash.pw =>
      \/ \E r \in Requests : /\ request[r].stage = "revoke"
                             /\ request[r].user = u
                             /\ request[r].sid # s
      \/ session[s].late
      \/ u \in exposed

\* Only a user who had a bcrypt hash can have it re-hashed.
OnlyBcryptRehashed ==
  /\ \A u \in Users : Exists(u) /\ row[u].bcrypt => u \in BcryptUsers
  /\ \A r \in Requests : request[r].stage = "rehash" => request[r].user \in BcryptUsers
  /\ overwritten \subseteq BcryptUsers

TypeInv == TypeOK /\ RequestsCarry /\ SessionsOwned

-----------------------------------------------------------------------------
(* What the helpers return.                                                *)

\* Exists tells the account rows from the two markers.
LEMMA ExistsRow ==
  ASSUME TypeOK, NEW u \in Users
  PROVE  Exists(u) <=> row[u] \in Row
BY AccountsAssumption DEF TypeOK, Exists

\* UpdatePassword writes a row of the table, and what each column becomes.
LEMMA NewCredentialsRow ==
  ASSUME NEW u \in Users, row[u] \in Row, NEW c \in Credential, NEW keys \in BOOLEAN
  PROVE  LET n == NewCredentials(u, c, keys) IN
         /\ n \in Row
         /\ n.hash = c /\ n.kdf = c.kdf /\ ~n.bcrypt
         /\ n.vault \in {None, c}
         /\ n.vault = None <=> (row[u].vault = None \/ ~keys)
         /\ n.code = row[u].code /\ n.copy = row[u].copy
BY AccountsAssumption DEF NewCredentials, Row, Credential

\* Deleting rows leaves a sessions table in which the others are unchanged.
LEMMA ClosedSessions ==
  ASSUME TypeOK, NEW S
  PROVE  /\ Closed(S) \in [SessionIds -> Session]
         /\ \A s \in SessionIds : s \in S => Closed(S)[s] = NoSession
         /\ \A s \in SessionIds : s \notin S => Closed(S)[s] = session[s]
BY DEF TypeOK, Closed, NoSession, Session

\* The markers of nothing in flight and of no session have the right shape.
LEMMA MarkersTyped == NoRequest \in Request /\ NoSession \in Session /\ CarriesOK(NoRequest)
BY DEF NoRequest, Request, NoSession, Session, Ops, Stages, CarriesOK

-----------------------------------------------------------------------------
(* Types.                                                                  *)

LEMMA TypeInit == Init => TypeInv
<1> SUFFICES ASSUME Init PROVE TypeInv
  OBVIOUS
<1>1. OldRows \subseteq Row
  <2> SUFFICES ASSUME NEW c \in [pw : Passwords, kdf : {Legacy}],
                      NEW b \in BOOLEAN, NEW keys \in BOOLEAN
               PROVE  [hash |-> c, bcrypt |-> b, kdf |-> Legacy,
                       vault |-> IF keys THEN c ELSE None,
                       code |-> None, copy |-> FALSE, suspended |-> FALSE] \in Row
    BY DEF OldRows
  <2>1. c \in Credential /\ Legacy \in Kdfs
    BY DEF Credential, Kdfs
  <2> QED
    BY <2>1 DEF Row
<1>2. TypeOK
  BY <1>1, MarkersTyped DEF Init, TypeOK
<1>3. RequestsCarry
  BY MarkersTyped DEF Init, RequestsCarry
<1>4. SessionsOwned
  BY DEF Init, SessionsOwned, Present, NoSession
<1> QED
  BY <1>2, <1>3, <1>4 DEF TypeInv


\* Putting one well-formed request in the place of another keeps the type.
LEMMA RequestReplaced ==
  ASSUME TypeOK, RequestsCarry, NEW r \in Requests, NEW q \in Request, CarriesOK(q),
         request' = [request EXCEPT ![r] = q]
  PROVE  request' \in [Requests -> Request] /\ RequestsCarry'
BY DEF TypeOK, RequestsCarry

LEMMA FinishTyped ==
  ASSUME TypeOK, RequestsCarry, NEW r \in Requests, Finish(r)
  PROVE  request' \in [Requests -> Request] /\ RequestsCarry'
BY MarkersTyped, RequestReplaced DEF Finish

LEMMA GotoTyped ==
  ASSUME TypeOK, RequestsCarry, NEW r \in Requests, request[r].stage \notin {"idle", "revoke"},
         NEW stage \in Stages \ {"revoke", "answered"}, Goto(r, stage)
  PROVE  request' \in [Requests -> Request] /\ RequestsCarry'
<1> DEFINE q == [request[r] EXCEPT !.stage = stage]
<1>1. request[r] \in Request /\ CarriesOK(request[r])
  BY DEF TypeOK, RequestsCarry
<1>2. q \in Request /\ CarriesOK(q)
  BY <1>1 DEF Request, CarriesOK, Ops, Stages
<1>3. request' = [request EXCEPT ![r] = q]
  BY DEF Goto
<1> QED
  BY <1>2, <1>3, RequestReplaced

LEMMA ClosedOwned ==
  ASSUME TypeInv, NEW S, session' = Closed(S)
  PROVE  session' \in [SessionIds -> Session] /\ SessionsOwned'
BY ClosedSessions DEF TypeInv, SessionsOwned, Present, NoSession

LEMMA RequestIdle ==
  ASSUME NEW r \in Requests, request[r] = NoRequest
  PROVE  request[r].stage = "idle" /\ request[r].op = "none"
BY DEF NoRequest

LEMMA TypeSend ==
  ASSUME TypeInv, NEW r \in Requests, Send(r)
  PROVE  TypeInv'
<1> USE DEF TypeInv
<1>1. ASSUME NEW u \in Users, NEW pw \in Passwords, SendLogin(r, u, pw)
      PROVE  request' \in [Requests -> Request] /\ RequestsCarry'
  <2> DEFINE c == [pw |-> pw, kdf |-> row[u].kdf]
             q == [NoRequest EXCEPT !.op = "login", !.stage = "sent", !.user = u, !.cred = c]
  <2>1. c \in Credential
    BY <1>1, ExistsRow DEF SendLogin, Credential, Row
  <2>2. q \in Request /\ CarriesOK(q)
    BY <2>1 DEF NoRequest, Request, CarriesOK, Ops, Stages
  <2>3. request' = [request EXCEPT ![r] = q]
    BY <1>1 DEF SendLogin
  <2> QED
    BY <2>2, <2>3, RequestReplaced
<1>2. ASSUME NEW u \in Users, NEW code \in Codes, NEW pw \in Passwords, NEW salt \in Salts,
             RecoverVerify(r, u, code, pw, salt)
      PROVE  request' \in [Requests -> Request] /\ RequestsCarry'
  <2> DEFINE q == [NoRequest EXCEPT !.op = "recover", !.stage = "complete", !.user = u,
                     !.code = code, !.new = [pw |-> pw, kdf |-> salt], !.keys = row[u].copy]
  <2>1. row[u] \in Row
    BY <1>2, ExistsRow DEF RecoverVerify, CodeAccepted
  <2>2. q \in Request /\ CarriesOK(q)
    BY <2>1 DEF NoRequest, Request, CarriesOK, Ops, Stages, Row, Credential, Kdfs
  <2>3. request' = [request EXCEPT ![r] = q]
    BY <1>2 DEF RecoverVerify
  <2> QED
    BY <2>2, <2>3, RequestReplaced
<1>3. ASSUME NEW s \in SessionIds, NEW op \in {"change", "setRecovery", "delete"},
             NEW pw \in Passwords, NEW new \in Credential \cup {None},
             NEW code \in Codes \cup {None}, NEW keys \in BOOLEAN,
             op = "change" => new \in Credential,
             op = "setRecovery" => code \in Codes,
             SendFromSession(r, s, op, pw, new, code, keys)
      PROVE  request' \in [Requests -> Request] /\ RequestsCarry'
  <2> DEFINE u == session[s].user
             c == [pw |-> pw, kdf |-> row[u].kdf]
             q == [NoRequest EXCEPT !.op = op, !.stage = "sent", !.user = u, !.sid = s,
                     !.cred = c, !.new = new, !.code = code, !.keys = keys]
  <2>1. u \in Users
    BY <1>3 DEF SendFromSession, SessionsOwned, Present
  <2>2. c \in Credential
    BY <1>3, <2>1, ExistsRow DEF SendFromSession, Credential, Row
  <2>3. q \in Request /\ CarriesOK(q)
    BY <1>3, <2>1, <2>2 DEF NoRequest, Request, CarriesOK, Ops, Stages
  <2>4. request' = [request EXCEPT ![r] = q]
    BY <1>3 DEF SendFromSession
  <2> QED
    BY <2>3, <2>4, RequestReplaced
<1>4. ASSUME NEW s \in SessionIds, SendChange(r, s) \/ SendSetRecovery(r, s) \/ SendDelete(r, s)
      PROVE  /\ request' \in [Requests -> Request] /\ RequestsCarry'
             /\ UNCHANGED <<row, session, history>>
  <2>1. CASE SendChange(r, s)
    <3>1. PICK pw \in Passwords, newPw \in Passwords, salt \in Salts, keys \in BOOLEAN :
            SendFromSession(r, s, "change", pw, [pw |-> newPw, kdf |-> salt], None, keys)
      BY <2>1 DEF SendChange
    <3>2. [pw |-> newPw, kdf |-> salt] \in Credential
      BY DEF Credential, Kdfs
    <3>3. UNCHANGED <<row, session, history>>
      BY <3>1 DEF SendFromSession
    <3> QED
      BY <3>1, <3>2, <3>3, <1>3
  <2>2. CASE SendSetRecovery(r, s)
    <3>1. PICK pw \in Passwords, code \in Codes, keys \in BOOLEAN :
            SendFromSession(r, s, "setRecovery", pw, None, code, keys)
      BY <2>2 DEF SendSetRecovery
    <3>2. UNCHANGED <<row, session, history>>
      BY <3>1 DEF SendFromSession
    <3> QED
      BY <3>1, <3>2, <1>3
  <2>3. CASE SendDelete(r, s)
    <3>1. PICK pw \in Passwords : SendFromSession(r, s, "delete", pw, None, None, FALSE)
      BY <2>3 DEF SendDelete
    <3>2. UNCHANGED <<row, session, history>>
      BY <3>1 DEF SendFromSession
    <3> QED
      BY <3>1, <3>2, <1>3
  <2> QED
    BY <1>4, <2>1, <2>2, <2>3
<1>5. ASSUME NEW s \in SessionIds, AuthenticateCall(r, s)
      PROVE  request' \in [Requests -> Request] /\ RequestsCarry'
  <2>1. session[s].user \in Users
    BY <1>5 DEF AuthenticateCall, Accepted, SessionsOwned, Present
  <2>2. PICK op \in {"logout", "revokeOne", "revokeOthers"}, t \in SessionIds \cup {None} :
          request' = [request EXCEPT ![r] = [NoRequest EXCEPT
            !.op = op, !.stage = "authorised", !.user = session[s].user,
            !.sid = s, !.target = t]]
    BY <1>5 DEF AuthenticateCall
  <2> DEFINE q == [NoRequest EXCEPT !.op = op, !.stage = "authorised",
                     !.user = session[s].user, !.sid = s, !.target = t]
  <2>3. q \in Request /\ CarriesOK(q)
    BY <2>1 DEF NoRequest, Request, CarriesOK, Ops, Stages
  <2> QED
    BY <2>2, <2>3, RequestReplaced
<1>6. /\ request' \in [Requests -> Request] /\ RequestsCarry'
      /\ UNCHANGED <<row, session, history>>
  BY <1>1, <1>2, <1>4, <1>5 DEF Send, SendLogin, RecoverVerify, AuthenticateCall
<1> QED
  BY <1>6 DEF TypeOK, SessionsOwned, Present, history

LEMMA TypeLogin ==
  ASSUME TypeInv, NEW r \in Requests, Login(r)
  PROVE  TypeInv'
<1> USE DEF TypeInv
<1> DEFINE u == request[r].user
           c == request[r].cred
<1>1. request[r] \in Request /\ CarriesOK(request[r])
  BY DEF TypeOK, RequestsCarry
<1>2. CASE LoginVerify(r)
  <2>1. u \in Users
    BY <1>1, <1>2 DEF LoginVerify, At, CarriesOK
  <2>2. request' \in [Requests -> Request] /\ RequestsCarry'
    <3>1. CASE Finish(r)
      BY <3>1, FinishTyped
    <3>2. CASE /\ Exists(u)
               /\ request' = [request EXCEPT
                    ![r].stage = IF row[u].bcrypt THEN "rehash" ELSE "insert",
                    ![r].vault = row[u].vault]
      <4> DEFINE stage == IF row[u].bcrypt THEN "rehash" ELSE "insert"
                 q == [request[r] EXCEPT !.stage = stage, !.vault = row[u].vault]
      <4>1. row[u].vault \in Credential \cup {None}
        BY <2>1, <3>2, ExistsRow DEF Row
      <4>2. stage \in {"rehash", "insert"}
        OBVIOUS
      <4>3. request[r].op = "login" /\ request[r].stage = "sent"
        BY <1>2 DEF LoginVerify, At
      <4> HIDE DEF stage
      <4>4. q \in Request /\ CarriesOK(q)
        BY <1>1, <4>1, <4>2, <4>3 DEF Request, CarriesOK, Stages
      <4>5. request' = [request EXCEPT ![r] = q]
        BY <3>2 DEF stage
      <4> QED
        BY <4>4, <4>5, RequestReplaced
    <3> QED
      BY <1>2, <3>1, <3>2 DEF LoginVerify
  <2> QED
    BY <1>2, <2>2 DEF LoginVerify, TypeOK, SessionsOwned, Present, history
<1>3. CASE Rehash(r)
  <2>1. u \in Users /\ c \in Credential
    BY <1>1, <1>3 DEF Rehash, At, CarriesOK
  <2>2. request' \in [Requests -> Request] /\ RequestsCarry'
    BY <1>3, GotoTyped DEF Rehash, At, Stages
  <2>3. row' \in [Users -> Row \cup {None, Deleted}]
    <3>1. Exists(u) => [row[u] EXCEPT !.hash = c, !.bcrypt = FALSE] \in Row
      BY <2>1, ExistsRow DEF Row
    <3> QED
      BY <1>3, <2>1, <3>1 DEF Rehash, TypeOK
  <2>4. exposed' \subseteq Users /\ overwritten' \subseteq Users
    BY <1>3, <2>1 DEF Rehash, TypeOK, history
  <2> QED
    BY <1>3, <2>2, <2>3, <2>4 DEF Rehash, TypeOK, SessionsOwned, Present
<1>4. CASE StartSession(r)
  <2>1. u \in Users /\ c \in Credential /\ request[r].op = "login"
    BY <1>1, <1>4 DEF StartSession, At, CarriesOK
  <2>2. /\ request' \in [Requests -> Request] /\ RequestsCarry'
        /\ session' \in [SessionIds -> Session] /\ SessionsOwned'
    <3>1. CASE Finish(r) /\ UNCHANGED session
      BY <3>1, FinishTyped DEF TypeOK, SessionsOwned, Present
    <3>2. ASSUME NEW s \in SessionIds, NEW swept,
                 session' = [Closed(swept) EXCEPT ![s] =
                   [state |-> "live", user |-> u, proof |-> c.pw,
                    late |-> c.pw # row[u].hash.pw]],
                 request' = [request EXCEPT ![r].stage = "answered", ![r].sid = s]
          PROVE  /\ request' \in [Requests -> Request] /\ RequestsCarry'
                 /\ session' \in [SessionIds -> Session] /\ SessionsOwned'
      <4> DEFINE q == [request[r] EXCEPT !.stage = "answered", !.sid = s]
                 n == [state |-> "live", user |-> u, proof |-> c.pw,
                       late |-> c.pw # row[u].hash.pw]
      <4>1. q \in Request /\ CarriesOK(q)
        BY <1>1, <2>1 DEF Request, CarriesOK, Stages
      <4>2. request' = [request EXCEPT ![r] = q]
        BY <3>2
      <4>3. n \in Session
        BY <2>1 DEF Session, Credential
      <4>4. session' \in [SessionIds -> Session]
        BY <3>2, <4>3, ClosedSessions
      <4>5. SessionsOwned'
        <5> SUFFICES ASSUME NEW t \in SessionIds, Present(t)'
                     PROVE  session'[t].user \in Users
          BY DEF SessionsOwned
        <5>1. CASE t = s
          BY <2>1, <3>2, <5>1, ClosedSessions
        <5>2. CASE t # s
          <6>1. session'[t] = Closed(swept)[t]
            BY <3>2, <5>2, ClosedSessions
          <6> QED
            BY <6>1, ClosedSessions DEF Present, SessionsOwned, NoSession
        <5> QED
          BY <5>1, <5>2
      <4> QED
        BY <4>1, <4>2, <4>4, <4>5, RequestReplaced
    <3> QED
      BY <1>4, <3>1, <3>2 DEF StartSession
  <2> QED
    BY <1>4, <2>2 DEF StartSession, TypeOK, history
<1>5. CASE LoginAnswered(r)
  <2>1. c \in Credential /\ request[r].op = "login" /\ request[r].sid \in SessionIds
        /\ request[r].stage = "answered"
    BY <1>1, <1>5 DEF LoginAnswered, At, CarriesOK
  <2>2. request' \in [Requests -> Request] /\ RequestsCarry'
    <3>1. CASE Finish(r)
      BY <3>1, FinishTyped
    <3>2. ASSUME NEW salt \in Salts,
                 request' = [request EXCEPT ![r].op = "upgrade", ![r].stage = "sent",
                               ![r].new = [pw |-> c.pw, kdf |-> salt],
                               ![r].keys = (request[r].vault # None), ![r].vault = None]
          PROVE  request' \in [Requests -> Request] /\ RequestsCarry'
      <4> DEFINE n == [pw |-> c.pw, kdf |-> salt]
                 q == [request[r] EXCEPT !.op = "upgrade", !.stage = "sent", !.new = n,
                         !.keys = (request[r].vault # None), !.vault = None]
      <4>1. n \in Credential
        BY <2>1 DEF Credential, Kdfs
      <4>2. q \in Request /\ CarriesOK(q)
        BY <1>1, <2>1, <4>1, ZenonT(30) DEF Request, CarriesOK, Stages, Ops
      <4>3. request' = [request EXCEPT ![r] = q]
        BY <3>2
      <4> QED
        BY <4>2, <4>3, RequestReplaced
    <3> QED
      BY <1>5, <3>1, <3>2 DEF LoginAnswered
  <2> QED
    BY <1>5, <2>2 DEF LoginAnswered, TypeOK, SessionsOwned, Present, history
<1> QED
  BY <1>2, <1>3, <1>4, <1>5 DEF Login

\* The statement of a password write leaves a users table.
LEMMA UpdatePasswordTyped ==
  ASSUME TypeInv, NEW r \in Requests, request[r].user \in Users,
         request[r].new \in Credential, UpdatePassword(r)
  PROVE  row' \in [Users -> Row \cup {None, Deleted}]
<1> DEFINE u == request[r].user
<1>1. request[r].keys \in BOOLEAN
  BY DEF TypeInv, TypeOK, Request
<1>2. CASE Exists(u)
  <2>1. NewCredentials(u, request[r].new, request[r].keys) \in Row
    BY <1>1, <1>2, ExistsRow, NewCredentialsRow DEF TypeInv
  <2> QED
    BY <1>2, <2>1 DEF UpdatePassword, TypeInv, TypeOK
<1>3. CASE ~Exists(u)
  BY <1>3 DEF UpdatePassword, TypeInv, TypeOK
<1> QED
  BY <1>2, <1>3

\* A change and a recovery go on to their revocation.
LEMMA ToRevokeTyped ==
  ASSUME TypeInv, NEW r \in Requests, request[r].op \in {"change", "recover"},
         request[r].stage # "idle", ToRevoke(r)
  PROVE  request' \in [Requests -> Request] /\ RequestsCarry'
<1> DEFINE q == [NoRequest EXCEPT !.op = request[r].op, !.stage = "revoke",
                   !.user = request[r].user, !.sid = request[r].sid]
<1>1. request[r] \in Request /\ CarriesOK(request[r])
  BY DEF TypeInv, TypeOK, RequestsCarry
<1>2. q \in Request
  BY <1>1 DEF Request, Stages, NoRequest
<1>3. /\ q.op = request[r].op /\ q.stage = "revoke"
      /\ q.user = request[r].user /\ q.sid = request[r].sid
  BY DEF NoRequest
<1>4. CarriesOK(q)
  BY <1>1, <1>3 DEF CarriesOK
<1>5. request' = [request EXCEPT ![r] = q]
  BY DEF ToRevoke
<1> QED
  BY <1>2, <1>4, <1>5, RequestReplaced DEF TypeInv

LEMMA TypeFromSession ==
  ASSUME TypeInv, NEW r \in Requests, FromSession(r)
  PROVE  TypeInv'
<1> DEFINE u == request[r].user
<1>0. /\ request[r] \in Request /\ CarriesOK(request[r])
      /\ TypeOK /\ RequestsCarry /\ SessionsOwned
  BY DEF TypeInv, TypeOK, RequestsCarry
<1>1. CASE Authenticate(r)
  <2>1. request' \in [Requests -> Request] /\ RequestsCarry'
    BY <1>0, <1>1, GotoTyped, FinishTyped DEF Authenticate, Stages
  <2> QED
    BY <1>0, <1>1, <2>1 DEF Authenticate, TypeInv, TypeOK, SessionsOwned, Present, history
<1>2. CASE Verify(r)
  <2>1. request' \in [Requests -> Request] /\ RequestsCarry'
    <3> DEFINE q == [request[r] EXCEPT !.stage = "write", !.cred = None]
    <3>1. q \in Request /\ CarriesOK(q)
      BY <1>0, <1>2 DEF Verify, Request, CarriesOK, Stages
    <3>2. CASE request' = [request EXCEPT ![r].stage = "write", ![r].cred = None]
      <4>1. request' = [request EXCEPT ![r] = q]
        BY <3>2
      <4> QED
        BY <1>0, <3>1, <4>1, RequestReplaced
    <3>3. CASE Finish(r)
      BY <1>0, <3>3, FinishTyped
    <3> QED
      BY <1>2, <3>2, <3>3 DEF Verify
  <2> QED
    BY <1>0, <1>2, <2>1 DEF Verify, TypeInv, TypeOK, SessionsOwned, Present, history
<1>3. CASE UpgradeWrite(r)
  <2>1. u \in Users /\ request[r].new \in Credential
    BY <1>0, <1>3 DEF UpgradeWrite, At, CarriesOK
  <2>2. row' \in [Users -> Row \cup {None, Deleted}]
    BY <1>3, <2>1, UpdatePasswordTyped DEF UpgradeWrite
  <2>3. request' \in [Requests -> Request] /\ RequestsCarry'
    BY <1>0, <1>3, FinishTyped DEF UpgradeWrite
  <2>4. exposed' \subseteq Users
    BY <1>0, <1>3, <2>1 DEF UpgradeWrite, TypeOK
  <2> QED
    BY <1>0, <1>3, <2>2, <2>3, <2>4 DEF UpgradeWrite, TypeInv, TypeOK, SessionsOwned, Present
<1>4. CASE ChangeWrite(r)
  <2>1. /\ u \in Users /\ request[r].new \in Credential /\ request[r].sid \in SessionIds
        /\ request[r].op = "change" /\ request[r].stage = "write"
    BY <1>0, <1>4 DEF ChangeWrite, At, CarriesOK
  <2>2. row' \in [Users -> Row \cup {None, Deleted}]
    BY <1>4, <2>1, UpdatePasswordTyped DEF ChangeWrite
  <2>3. request' \in [Requests -> Request] /\ RequestsCarry'
    BY <1>4, <2>1, ToRevokeTyped DEF ChangeWrite
  <2>4. session' \in [SessionIds -> Session] /\ SessionsOwned'
    BY <1>0, <1>4, <2>1 DEF ChangeWrite, TypeOK, Session, Credential, SessionsOwned, Present
  <2> QED
    BY <1>0, <1>4, <2>2, <2>3, <2>4 DEF ChangeWrite, TypeInv, TypeOK, history
<1>5. CASE ChangeRevoke(r)
  BY <1>0, <1>5, ClosedOwned, FinishTyped DEF ChangeRevoke, TypeInv, TypeOK, history
<1>6. CASE SetRecoveryWrite(r)
  <2>1. u \in Users /\ request[r].code \in Codes /\ request[r].keys \in BOOLEAN
    BY <1>0, <1>6 DEF SetRecoveryWrite, At, CarriesOK, Request
  <2>2. Exists(u) => [row[u] EXCEPT !.code = request[r].code, !.copy = request[r].keys] \in Row
    BY <1>0, <2>1, ExistsRow DEF Row
  <2>3. row' \in [Users -> Row \cup {None, Deleted}]
    BY <1>0, <1>6, <2>1, <2>2 DEF SetRecoveryWrite, TypeOK
  <2> QED
    BY <1>0, <1>6, <2>3, FinishTyped
       DEF SetRecoveryWrite, TypeInv, TypeOK, SessionsOwned, Present, history
<1>7. CASE DeleteWrite(r)
  <2>1. row' \in [Users -> Row \cup {None, Deleted}]
    BY <1>0, <1>7 DEF DeleteWrite, TypeOK
  <2> QED
    BY <1>0, <1>7, <2>1, ClosedOwned, FinishTyped DEF DeleteWrite, TypeInv, TypeOK, history
<1>8. CASE SessionCall(r)
  BY <1>0, <1>8, ClosedOwned, FinishTyped DEF SessionCall, TypeInv, TypeOK, history
<1> QED
  BY <1>1, <1>2, <1>3, <1>4, <1>5, <1>6, <1>7, <1>8 DEF FromSession

LEMMA TypeRecover ==
  ASSUME TypeInv, NEW r \in Requests, Recover(r)
  PROVE  TypeInv'
<1> DEFINE u == request[r].user
<1>0. /\ request[r] \in Request /\ CarriesOK(request[r])
      /\ TypeOK /\ RequestsCarry /\ SessionsOwned
  BY DEF TypeInv, TypeOK, RequestsCarry
<1>1. CASE RecoverComplete(r)
  <2>1. request' \in [Requests -> Request] /\ RequestsCarry'
    BY <1>0, <1>1, GotoTyped, FinishTyped DEF RecoverComplete, At, Stages
  <2> QED
    BY <1>0, <1>1, <2>1 DEF RecoverComplete, TypeInv, TypeOK, SessionsOwned, Present, history
<1>2. CASE RecoverRead(r)
  <2>1. request' \in [Requests -> Request] /\ RequestsCarry'
    <3> DEFINE q == [request[r] EXCEPT !.stage = "write", !.code = None]
    <3>1. q \in Request /\ CarriesOK(q)
      BY <1>0, <1>2 DEF RecoverRead, At, Request, CarriesOK, Stages
    <3>2. CASE request' = [request EXCEPT ![r].stage = "write", ![r].code = None]
      <4>1. request' = [request EXCEPT ![r] = q]
        BY <3>2
      <4> QED
        BY <1>0, <3>1, <4>1, RequestReplaced
    <3>3. CASE Finish(r)
      BY <1>0, <3>3, FinishTyped
    <3> QED
      BY <1>2, <3>2, <3>3 DEF RecoverRead
  <2> QED
    BY <1>0, <1>2, <2>1 DEF RecoverRead, TypeInv, TypeOK, SessionsOwned, Present, history
<1>3. CASE RecoverWrite(r)
  <2>1. /\ u \in Users /\ request[r].new \in Credential
        /\ request[r].op = "recover" /\ request[r].stage = "write"
    BY <1>0, <1>3 DEF RecoverWrite, At, CarriesOK
  <2>2. row' \in [Users -> Row \cup {None, Deleted}]
    BY <1>3, <2>1, UpdatePasswordTyped DEF RecoverWrite
  <2>3. request' \in [Requests -> Request] /\ RequestsCarry'
    BY <1>3, <2>1, ToRevokeTyped DEF RecoverWrite
  <2> QED
    BY <1>0, <1>3, <2>2, <2>3 DEF RecoverWrite, TypeInv, TypeOK, SessionsOwned, Present, history
<1>4. CASE RecoverRevoke(r)
  BY <1>0, <1>4, ClosedOwned, FinishTyped DEF RecoverRevoke, TypeInv, TypeOK
<1> QED
  BY <1>1, <1>2, <1>3, <1>4 DEF Recover

LEMMA TypeOthers ==
  ASSUME TypeInv,
         \/ \E u \in Users, pw \in Passwords, salt \in Salts, keys \in BOOLEAN,
               code \in Codes \cup {None} : Register(u, pw, salt, keys, code)
         \/ \E r \in Requests : Abort(r)
         \/ \E u \in Users : Suspend(u) \/ Unsuspend(u)
         \/ \E s \in SessionIds : Lapse(s)
  PROVE  TypeInv'
<1>0. TypeOK /\ RequestsCarry /\ SessionsOwned
  BY DEF TypeInv
<1>1. ASSUME NEW u \in Users, NEW pw \in Passwords, NEW salt \in Salts, NEW keys \in BOOLEAN,
             NEW code \in Codes \cup {None}, Register(u, pw, salt, keys, code)
      PROVE  TypeInv'
  <2> DEFINE c == [pw |-> pw, kdf |-> salt]
  <2>1. c \in Credential /\ salt \in Kdfs
    BY DEF Credential, Kdfs
  <2>2. row' \in [Users -> Row \cup {None, Deleted}]
    <3>1. [hash |-> c, bcrypt |-> FALSE, kdf |-> salt,
           vault |-> IF keys THEN c ELSE None,
           code |-> code, copy |-> keys /\ code # None, suspended |-> FALSE] \in Row
      BY <2>1 DEF Row
    <3> QED
      BY <1>0, <1>1, <3>1 DEF Register, TypeOK
  <2> QED
    BY <1>0, <1>1, <2>2
       DEF Register, TypeInv, TypeOK, RequestsCarry, SessionsOwned, Present, history
<1>2. ASSUME NEW r \in Requests, Abort(r)
      PROVE  TypeInv'
  <2>1. exposed' \subseteq Users
    BY <1>0, <1>2 DEF Abort, TypeOK, RequestsCarry, CarriesOK
  <2> QED
    BY <1>0, <1>2, <2>1, FinishTyped DEF Abort, TypeInv, TypeOK, SessionsOwned, Present
<1>3. ASSUME NEW u \in Users, Suspend(u)
      PROVE  TypeInv'
  <2>1. [row[u] EXCEPT !.suspended = TRUE] \in Row
    BY <1>0, <1>3, ExistsRow DEF Suspend, Row
  <2>2. row' \in [Users -> Row \cup {None, Deleted}]
    BY <1>0, <1>3, <2>1 DEF Suspend, TypeOK
  <2> QED
    BY <1>0, <1>3, <2>2, ClosedOwned DEF Suspend, TypeInv, TypeOK, RequestsCarry, history
<1>4. ASSUME NEW u \in Users, Unsuspend(u)
      PROVE  TypeInv'
  <2>1. [row[u] EXCEPT !.suspended = FALSE] \in Row
    BY <1>0, <1>4, ExistsRow DEF Unsuspend, Row
  <2>2. row' \in [Users -> Row \cup {None, Deleted}]
    BY <1>0, <1>4, <2>1 DEF Unsuspend, TypeOK
  <2> QED
    BY <1>0, <1>4, <2>2
       DEF Unsuspend, TypeInv, TypeOK, RequestsCarry, SessionsOwned, Present, history
<1>5. ASSUME NEW s \in SessionIds, Lapse(s)
      PROVE  TypeInv'
  <2>1. session' \in [SessionIds -> Session] /\ SessionsOwned'
    BY <1>0, <1>5 DEF Lapse, TypeOK, Session, SessionsOwned, Present
  <2> QED
    BY <1>0, <1>5, <2>1 DEF Lapse, TypeInv, TypeOK, RequestsCarry, history
<1> QED
  BY <1>1, <1>2, <1>3, <1>4, <1>5

LEMMA TypeStep == TypeInv /\ [Next]_vars => TypeInv'
<1> SUFFICES ASSUME TypeInv, [Next]_vars PROVE TypeInv'
  OBVIOUS
<1>1. CASE UNCHANGED vars
  BY <1>1 DEF vars, TypeInv, TypeOK, RequestsCarry, SessionsOwned, Present
<1>2. CASE Next
  BY <1>2, TypeSend, TypeLogin, TypeFromSession, TypeRecover, TypeOthers DEF Next
<1> QED
  BY <1>1, <1>2

\* Every reachable state has the declared shape: the tables and the requests
\* in flight hold only values of the sets they are declared over.
THEOREM Typing == Spec => []TypeOK
<1>1. TypeInv => TypeOK
  BY DEF TypeInv
<1> QED
  BY <1>1, TypeInit, TypeStep, PTL DEF Spec

-----------------------------------------------------------------------------
(* What one step can do to the row of a user: the properties of the users  *)
(* table follow from these seven cases, whatever the request that wrote.   *)

Created(u) == /\ row[u] = None
              /\ row'[u] \in Row
              /\ Agrees(row'[u])
              /\ ~row'[u].bcrypt
              /\ row'[u].vault # None /\ row'[u].code # None => row'[u].copy

SameCredentials(u) == /\ Exists(u) /\ row'[u] \in Row
                      /\ row'[u].hash = row[u].hash
                      /\ row'[u].kdf = row[u].kdf
                      /\ row'[u].vault = row[u].vault
                      /\ row'[u].bcrypt = row[u].bcrypt

Moderated(u) == /\ SameCredentials(u)
                /\ row'[u].code = row[u].code
                /\ row'[u].copy = row[u].copy

Recoded(u) == /\ SameCredentials(u)
              /\ row[u].vault # None => row'[u].copy

Rehashed(u) == /\ Exists(u) /\ row'[u] \in Row
               /\ row'[u] = [row[u] EXCEPT !.hash = row'[u].hash, !.bcrypt = FALSE]
               /\ row'[u].hash = row[u].hash \/ u \in overwritten'

Rewritten(u) == /\ Exists(u) /\ row'[u] \in Row
                /\ Agrees(row'[u])
                /\ ~row'[u].bcrypt
                /\ row'[u].vault = None <=> row[u].vault = None
                /\ row'[u].code = row[u].code
                /\ row'[u].copy = row[u].copy

Removed(u) == row'[u] = Deleted /\ session' = Closed(SessionsOf(u))

RowStep(u) == \/ row'[u] = row[u]
              \/ Removed(u)
              \/ Created(u) \/ Moderated(u) \/ Recoded(u) \/ Rehashed(u) \/ Rewritten(u)

\* A password write whose request was checked for the key keeps the vault.
LEMMA UpdatePasswordStep ==
  ASSUME TypeInv, KeysChecked, NEW r \in Requests, request[r].stage = "write",
         request[r].op \in {"upgrade", "change", "recover"}, UpdatePassword(r)
  PROVE  \A u \in Users : row'[u] = row[u] \/ Rewritten(u)
<1> DEFINE v == request[r].user
<1>1. /\ v \in Users /\ request[r].new \in Credential /\ request[r].keys \in BOOLEAN
      /\ row \in [Users -> Row \cup {None, Deleted}]
  BY DEF TypeInv, TypeOK, RequestsCarry, CarriesOK, Request
<1>2. CASE Exists(v)
  <2> DEFINE n == NewCredentials(v, request[r].new, request[r].keys)
  <2>1. row[v] \in Row
    BY <1>1, <1>2, ExistsRow DEF TypeInv
  <2>2. row[v].vault # None => request[r].keys
    BY <1>2 DEF KeysChecked
  <2>3. /\ n \in Row
        /\ n.hash = request[r].new /\ n.kdf = request[r].new.kdf /\ ~n.bcrypt
        /\ n.vault \in {None, request[r].new}
        /\ n.vault = None <=> (row[v].vault = None \/ ~request[r].keys)
        /\ n.code = row[v].code /\ n.copy = row[v].copy
    BY <1>1, <2>1, NewCredentialsRow
  <2>4. row' = [row EXCEPT ![v] = n]
    BY <1>2 DEF UpdatePassword
  <2> HIDE DEF n
  <2>5. row'[v] = n /\ \A u \in Users : u # v => row'[u] = row[u]
    BY <1>1, <2>4
  <2>6. n.kdf = n.hash.kdf /\ n.vault \in {None, n.hash}
        /\ (n.vault = None <=> row[v].vault = None)
    BY <1>1, <2>2, <2>3
  <2>7. Rewritten(v)
    BY <1>2, <2>3, <2>5, <2>6 DEF Rewritten, Agrees
  <2> QED
    BY <2>5, <2>7
<1>3. CASE ~Exists(v)
  BY <1>3 DEF UpdatePassword
<1> QED
  BY <1>2, <1>3

LEMMA RowSteps ==
  ASSUME TypeInv, KeysChecked, Next
  PROVE  \A u \in Users : RowStep(u)
<1>0. /\ row \in [Users -> Row \cup {None, Deleted}]
      /\ \A r \in Requests : request[r] \in Request /\ CarriesOK(request[r])
  BY DEF TypeInv, TypeOK, RequestsCarry
<1>1. ASSUME NEW v \in Users, NEW pw \in Passwords, NEW salt \in Salts, NEW keys \in BOOLEAN,
             NEW code \in Codes \cup {None}, Register(v, pw, salt, keys, code)
      PROVE  \A u \in Users : RowStep(u)
  <2> DEFINE c == [pw |-> pw, kdf |-> salt]
             n == [hash |-> c, bcrypt |-> FALSE, kdf |-> salt,
                   vault |-> IF keys THEN c ELSE None,
                   code |-> code, copy |-> keys /\ code # None, suspended |-> FALSE]
  <2>1. c \in Credential /\ salt \in Kdfs /\ c # None /\ c.kdf = salt
    BY AccountsAssumption DEF Credential, Kdfs
  <2> HIDE DEF c
  <2>2. /\ n \in Row /\ n.kdf = n.hash.kdf /\ n.vault \in {None, n.hash} /\ ~n.bcrypt
        /\ n.vault # None /\ n.code # None => n.copy
    BY <2>1 DEF Row
  <2>3. row[v] = None /\ row' = [row EXCEPT ![v] = n]
    BY <1>1 DEF Register, c
  <2> HIDE DEF n
  <2>4. row'[v] = n /\ \A u \in Users : u # v => row'[u] = row[u]
    BY <1>0, <2>3
  <2>5. Created(v)
    BY <2>2, <2>3, <2>4 DEF Created, Agrees
  <2> QED
    BY <2>4, <2>5 DEF RowStep
<1>2. ASSUME NEW r \in Requests, Send(r) \/ Abort(r)
      PROVE  \A u \in Users : RowStep(u)
  BY <1>2 DEF Send, Abort, SendLogin, RecoverVerify, SendChange, SendSetRecovery, SendDelete,
              SendFromSession, AuthenticateCall, RowStep
<1>3. ASSUME NEW r \in Requests, Login(r)
      PROVE  \A u \in Users : RowStep(u)
  <2>1. CASE LoginVerify(r) \/ StartSession(r) \/ LoginAnswered(r)
    BY <2>1 DEF LoginVerify, StartSession, LoginAnswered, RowStep
  <2>2. CASE Rehash(r)
    <3> DEFINE v == request[r].user
               c == request[r].cred
    <3>1. v \in Users /\ c \in Credential
      BY <1>0, <2>2 DEF Rehash, At, CarriesOK
    <3>2. CASE UNCHANGED row
      BY <3>2 DEF RowStep
    <3>3. CASE /\ Exists(v)
               /\ row' = [row EXCEPT ![v].hash = c, ![v].bcrypt = FALSE]
               /\ overwritten' = IF row[v].hash = c THEN overwritten ELSE overwritten \cup {v}
      <4> DEFINE n == [row[v] EXCEPT !.hash = c, !.bcrypt = FALSE]
      <4>1. row[v] \in Row
        BY <3>1, <3>3, ExistsRow DEF TypeInv
      <4>2. n \in Row /\ n.hash = c
        BY <3>1, <4>1 DEF Row
      <4>3. row'[v] = n /\ \A u \in Users : u # v => row'[u] = row[u]
        BY <1>0, <3>1, <3>3
      <4>4. Rehashed(v)
        BY <3>3, <4>2, <4>3 DEF Rehashed
      <4> QED
        BY <4>3, <4>4 DEF RowStep
    <3> QED
      BY <2>2, <3>2, <3>3 DEF Rehash
  <2> QED
    BY <1>3, <2>1, <2>2 DEF Login
<1>4. ASSUME NEW r \in Requests, FromSession(r)
      PROVE  \A u \in Users : RowStep(u)
  <2> DEFINE v == request[r].user
  <2>1. CASE Authenticate(r) \/ Verify(r) \/ ChangeRevoke(r) \/ SessionCall(r)
    BY <2>1 DEF Authenticate, Verify, ChangeRevoke, SessionCall, RowStep
  <2>2. CASE UpgradeWrite(r) \/ ChangeWrite(r)
    BY <2>2, UpdatePasswordStep DEF UpgradeWrite, ChangeWrite, At, RowStep
  <2>3. CASE SetRecoveryWrite(r)
    <3> DEFINE n == [row[v] EXCEPT !.code = request[r].code, !.copy = request[r].keys]
    <3>1. /\ v \in Users /\ request[r].code \in Codes /\ request[r].keys \in BOOLEAN
          /\ request[r].op = "setRecovery" /\ request[r].stage = "write"
      BY <1>0, <2>3 DEF SetRecoveryWrite, At, CarriesOK, Request
    <3>2. CASE ~Exists(v)
      BY <2>3, <3>2 DEF SetRecoveryWrite, RowStep
    <3>3. CASE Exists(v)
      <4>1. row[v] \in Row
        BY <3>1, <3>3, ExistsRow DEF TypeInv
      <4>2. /\ n \in Row /\ n.hash = row[v].hash /\ n.kdf = row[v].kdf
            /\ n.vault = row[v].vault /\ n.bcrypt = row[v].bcrypt /\ n.copy = request[r].keys
        BY <3>1, <4>1 DEF Row
      <4>3. row'[v] = n /\ \A u \in Users : u # v => row'[u] = row[u]
        BY <1>0, <2>3, <3>1, <3>3 DEF SetRecoveryWrite
      <4>4. row[v].vault # None => request[r].keys
        BY <3>1, <3>3 DEF KeysChecked
      <4>5. Recoded(v)
        BY <3>3, <4>2, <4>3, <4>4 DEF Recoded, SameCredentials
      <4> QED
        BY <4>3, <4>5 DEF RowStep
    <3> QED
      BY <3>2, <3>3
  <2>4. CASE DeleteWrite(r)
    BY <1>0, <2>4 DEF DeleteWrite, At, CarriesOK, Removed, RowStep
  <2> QED
    BY <1>4, <2>1, <2>2, <2>3, <2>4 DEF FromSession
<1>5. ASSUME NEW r \in Requests, Recover(r)
      PROVE  \A u \in Users : RowStep(u)
  <2>1. CASE RecoverComplete(r) \/ RecoverRead(r) \/ RecoverRevoke(r)
    BY <2>1 DEF RecoverComplete, RecoverRead, RecoverRevoke, RowStep
  <2>2. CASE RecoverWrite(r)
    BY <2>2, UpdatePasswordStep DEF RecoverWrite, At, RowStep
  <2> QED
    BY <1>5, <2>1, <2>2 DEF Recover
<1>6. ASSUME NEW v \in Users, Suspend(v) \/ Unsuspend(v)
      PROVE  \A u \in Users : RowStep(u)
  <2>1. PICK b \in BOOLEAN : Exists(v) /\ row' = [row EXCEPT ![v].suspended = b]
    BY <1>6 DEF Suspend, Unsuspend
  <2> DEFINE n == [row[v] EXCEPT !.suspended = b]
  <2>2. row[v] \in Row
    BY <2>1, ExistsRow DEF TypeInv
  <2>3. /\ n \in Row /\ n.hash = row[v].hash /\ n.kdf = row[v].kdf /\ n.vault = row[v].vault
        /\ n.bcrypt = row[v].bcrypt /\ n.code = row[v].code /\ n.copy = row[v].copy
    BY <2>2 DEF Row
  <2>4. row'[v] = n /\ \A u \in Users : u # v => row'[u] = row[u]
    BY <1>0, <2>1
  <2>5. Moderated(v)
    BY <2>1, <2>3, <2>4 DEF Moderated, SameCredentials
  <2> QED
    BY <2>4, <2>5 DEF RowStep
<1>7. ASSUME NEW s \in SessionIds, Lapse(s)
      PROVE  \A u \in Users : RowStep(u)
  BY <1>7 DEF Lapse, RowStep
<1> QED
  BY <1>1, <1>2, <1>3, <1>4, <1>5, <1>6, <1>7 DEF Next


\* An account that was there is not made again, keeps or lacks its vault as
\* before, and leaves a row behind.
LEMMA VaultKept ==
  ASSUME TypeInv, NEW u \in Users, RowStep(u), row[u] # None
  PROVE  /\ row'[u] # None
         /\ row'[u] # Deleted =>
              Exists(u) /\ (row'[u].vault = None <=> row[u].vault = None)
<1>1. /\ row[u] = Deleted \/ (row[u] \in Row /\ Exists(u))
      /\ None \notin Row /\ Deleted \notin Row /\ None # Deleted
  BY AccountsAssumption DEF TypeInv, TypeOK, Exists
<1>2. CASE Rehashed(u)
  <2>1. row'[u].vault = row[u].vault
    BY <1>1, <1>2 DEF Rehashed, Row, Exists
  <2> QED
    BY <1>1, <1>2, <2>1 DEF Rehashed
<1>3. CASE Moderated(u) \/ Recoded(u) \/ Rewritten(u)
  BY <1>1, <1>3 DEF Moderated, Recoded, SameCredentials, Rewritten
<1> QED
  BY <1>1, <1>2, <1>3 DEF RowStep, Removed, Created

LEMMA OverwrittenGrows == ASSUME Next PROVE overwritten \subseteq overwritten'
<1>1. ASSUME NEW r \in Requests, Login(r) PROVE overwritten \subseteq overwritten'
  BY <1>1 DEF Login, LoginVerify, Rehash, StartSession, LoginAnswered, history
<1>2. ASSUME NEW r \in Requests, FromSession(r) \/ Recover(r) \/ Abort(r)
      PROVE  overwritten' = overwritten
  BY <1>2 DEF FromSession, Authenticate, Verify, UpgradeWrite, ChangeWrite, ChangeRevoke,
     SetRecoveryWrite, DeleteWrite, SessionCall, Recover, RecoverComplete, RecoverRead,
     RecoverWrite, RecoverRevoke, Abort, history
<1>3. ASSUME NEW r \in Requests, Send(r) PROVE overwritten' = overwritten
  BY <1>3 DEF Send, SendLogin, RecoverVerify, SendChange, SendSetRecovery, SendDelete,
     SendFromSession, AuthenticateCall, history
<1> QED
  BY <1>1, <1>2, <1>3 DEF Next, Register, Suspend, Unsuspend, Lapse, history

LEMMA AgreeStep ==
  ASSUME TypeInv, CredentialsAgree, overwritten \subseteq overwritten',
         \A u \in Users : RowStep(u)
  PROVE  CredentialsAgree'
<1> SUFFICES ASSUME NEW u \in Users, row'[u] \notin {None, Deleted}, u \notin overwritten'
             PROVE  Agrees(row'[u])
  BY DEF CredentialsAgree, Exists
<1>1. RowStep(u)
  OBVIOUS
<1>2. Exists(u) => row[u] \in Row /\ Agrees(row[u])
  BY ExistsRow DEF TypeInv, CredentialsAgree
<1>3. CASE Rehashed(u)
  <2>1. row'[u].hash = row[u].hash
    BY <1>3 DEF Rehashed
  <2>2. row'[u].kdf = row[u].kdf /\ row'[u].vault = row[u].vault
    BY <1>2, <1>3 DEF Rehashed, Row
  <2> QED
    BY <1>2, <1>3, <2>1, <2>2 DEF Rehashed, Agrees
<1> QED
  BY <1>1, <1>2, <1>3
     DEF RowStep, Removed, Exists, Created, Moderated, Recoded, SameCredentials, Rewritten, Agrees

LEMMA CopyStep ==
  ASSUME TypeInv, RecoveryRestoresKey, \A u \in Users : RowStep(u)
  PROVE  RecoveryRestoresKey'
<1> SUFFICES ASSUME NEW u \in Users, row'[u] \notin {None, Deleted},
                    row'[u].vault # None, row'[u].code # None
             PROVE  row'[u].copy
  BY DEF RecoveryRestoresKey, Exists
<1>1. RowStep(u)
  OBVIOUS
<1>2. Exists(u) => row[u] \in Row /\ (row[u].vault # None /\ row[u].code # None => row[u].copy)
  BY ExistsRow DEF TypeInv, RecoveryRestoresKey
<1>3. CASE Rehashed(u)
  <2>1. row'[u].vault = row[u].vault /\ row'[u].code = row[u].code /\ row'[u].copy = row[u].copy
    BY <1>2, <1>3 DEF Rehashed, Row
  <2> QED
    BY <1>2, <1>3, <2>1 DEF Rehashed
<1> QED
  BY <1>1, <1>2, <1>3
     DEF RowStep, Removed, Exists, Created, Moderated, Recoded, SameCredentials, Rewritten

-----------------------------------------------------------------------------
(* What a request in flight knows of its account.                          *)

\* A new request: the account and the session it names are there.
Opened(q, n) ==
  /\ q = NoRequest
  /\ n.user \in Users /\ Exists(n.user)
  /\ n.stage \in {"sent", "complete", "authorised"}
  /\ n.sid \in SessionIds => Present(n.sid) /\ session[n.sid].user = n.user

\* A request that goes on about the same account, and what it read there.
Continued(q, n) ==
  /\ q.stage \notin {"idle", "revoke"}
  /\ n.user = q.user
  /\ \/ n.sid = q.sid
     \/ /\ n.sid \in SessionIds /\ Fresh(n.sid)
        /\ session'[n.sid].state = "live" /\ session'[n.sid].user = n.user
  /\ n.stage = "write" =>
       /\ Exists(n.user)
       /\ n.op \in {"upgrade", "change", "setRecovery", "recover"} =>
            (row[n.user].vault # None => n.keys)
  /\ n.stage = "rehash" => Exists(n.user) /\ row[n.user].bcrypt
  /\ n.op = "login" =>
       /\ q.op = "login" /\ n.cred = q.cred
       /\ \/ n.vault = q.vault /\ q.stage \in {"rehash", "insert"}
          \/ n.vault = row[n.user].vault /\ Exists(n.user) /\ row[n.user].hash = n.cred

RequestStep(r) == \/ request'[r] = request[r]
                  \/ request'[r] = NoRequest
                  \/ Opened(request[r], request'[r])
                  \/ Continued(request[r], request'[r])

\* One action puts at most one request in the place of another.
LEMMA OneRequest ==
  ASSUME TypeInv, NEW r \in Requests, NEW q, request' = [request EXCEPT ![r] = q],
         q = NoRequest \/ Opened(request[r], q) \/ Continued(request[r], q)
  PROVE  \A p \in Requests : RequestStep(p)
<1>1. request'[r] = q /\ \A p \in Requests : p # r => request'[p] = request[p]
  BY DEF TypeInv, TypeOK
<1>2. RequestStep(r)
  BY <1>1 DEF RequestStep
<1> QED
  BY <1>1, <1>2 DEF RequestStep


LEMMA OneFinished ==
  ASSUME TypeInv, NEW r \in Requests, Finish(r)
  PROVE  \A p \in Requests : RequestStep(p)
BY OneRequest DEF Finish

LEMMA OneMoved ==
  ASSUME TypeInv, NEW r \in Requests, NEW stage \in {"authorised", "insert"}, Goto(r, stage),
         request[r].stage \notin {"idle", "revoke"},
         request[r].op = "login" => request[r].stage = "rehash"
  PROVE  \A p \in Requests : RequestStep(p)
<1> DEFINE q == [request[r] EXCEPT !.stage = stage]
<1>1. request[r] \in Request
  BY DEF TypeInv, TypeOK
<1>2. Continued(request[r], q)
  BY <1>1 DEF Continued, Request
<1>3. request' = [request EXCEPT ![r] = q]
  BY DEF Goto
<1> QED
  BY <1>2, <1>3, OneRequest

LEMMA RevokeStep ==
  ASSUME TypeInv, NEW r \in Requests, ToRevoke(r), request[r].stage = "write",
         request[r].op \in {"change", "recover"}
  PROVE  \A p \in Requests : RequestStep(p)
<1> DEFINE q == [NoRequest EXCEPT !.op = request[r].op, !.stage = "revoke",
                   !.user = request[r].user, !.sid = request[r].sid]
<1>1. /\ q.op = request[r].op /\ q.stage = "revoke"
      /\ q.user = request[r].user /\ q.sid = request[r].sid
  BY DEF NoRequest
<1>2. request' = [request EXCEPT ![r] = q]
  BY DEF ToRevoke
<1> HIDE DEF q
<1>3. Continued(request[r], q)
  BY <1>1 DEF Continued
<1> QED
  BY <1>2, <1>3, OneRequest

LEMMA SendSteps ==
  ASSUME TypeInv, NEW r \in Requests, Send(r)
  PROVE  \A p \in Requests : RequestStep(p)
<1>0. SessionsOwned /\ None \notin SessionIds
  BY AccountsAssumption DEF TypeInv
<1>1. ASSUME NEW u \in Users, NEW pw, SendLogin(r, u, pw)
      PROVE  \A p \in Requests : RequestStep(p)
  <2> DEFINE q == [NoRequest EXCEPT !.op = "login", !.stage = "sent", !.user = u,
                     !.cred = [pw |-> pw, kdf |-> row[u].kdf]]
  <2>1. q.user = u /\ q.sid = None /\ q.stage = "sent"
    BY DEF NoRequest
  <2>2. Opened(request[r], q)
    BY <1>0, <1>1, <2>1 DEF SendLogin, Opened
  <2>3. request' = [request EXCEPT ![r] = q]
    BY <1>1 DEF SendLogin
  <2> QED
    BY <2>2, <2>3, OneRequest
<1>2. ASSUME NEW u \in Users, NEW code, NEW pw, NEW salt, RecoverVerify(r, u, code, pw, salt)
      PROVE  \A p \in Requests : RequestStep(p)
  <2> DEFINE q == [NoRequest EXCEPT !.op = "recover", !.stage = "complete", !.user = u,
                     !.code = code, !.new = [pw |-> pw, kdf |-> salt], !.keys = row[u].copy]
  <2>1. q.user = u /\ q.sid = None /\ q.stage = "complete"
    BY DEF NoRequest
  <2>2. Opened(request[r], q)
    BY <1>0, <1>2, <2>1 DEF RecoverVerify, CodeAccepted, Opened
  <2>3. request' = [request EXCEPT ![r] = q]
    BY <1>2 DEF RecoverVerify
  <2> QED
    BY <2>2, <2>3, OneRequest
<1>3. ASSUME NEW s \in SessionIds, NEW op, NEW pw, NEW new, NEW code, NEW keys,
             SendFromSession(r, s, op, pw, new, code, keys)
      PROVE  \A p \in Requests : RequestStep(p)
  <2> DEFINE u == session[s].user
             q == [NoRequest EXCEPT !.op = op, !.stage = "sent", !.user = u, !.sid = s,
                     !.cred = [pw |-> pw, kdf |-> row[u].kdf], !.new = new,
                     !.code = code, !.keys = keys]
  <2>1. q.user = u /\ q.sid = s /\ q.stage = "sent"
    BY DEF NoRequest
  <2>2. Opened(request[r], q)
    BY <1>0, <1>3, <2>1 DEF SendFromSession, Opened, Present, SessionsOwned
  <2>3. request' = [request EXCEPT ![r] = q]
    BY <1>3 DEF SendFromSession
  <2> QED
    BY <2>2, <2>3, OneRequest
<1>4. ASSUME NEW s \in SessionIds, AuthenticateCall(r, s)
      PROVE  \A p \in Requests : RequestStep(p)
  <2>1. PICK op \in {"logout", "revokeOne", "revokeOthers"},
             t \in {id \in SessionIds : Present(id)} \cup {None} :
          request' = [request EXCEPT ![r] = [NoRequest EXCEPT
            !.op = op, !.stage = "authorised", !.user = session[s].user,
            !.sid = s, !.target = t]]
    BY <1>4 DEF AuthenticateCall
  <2> DEFINE q == [NoRequest EXCEPT !.op = op, !.stage = "authorised",
                     !.user = session[s].user, !.sid = s, !.target = t]
  <2>2. q.user = session[s].user /\ q.sid = s /\ q.stage = "authorised"
    BY DEF NoRequest
  <2>3. Opened(request[r], q)
    BY <1>0, <1>4, <2>2 DEF AuthenticateCall, Accepted, Opened, Present, SessionsOwned
  <2> QED
    BY <2>1, <2>3, OneRequest
<1> QED
  BY <1>1, <1>2, <1>3, <1>4 DEF Send, SendChange, SendSetRecovery, SendDelete

LEMMA LoginSteps ==
  ASSUME TypeInv, NEW r \in Requests, Login(r)
  PROVE  \A p \in Requests : RequestStep(p)
<1> DEFINE u == request[r].user
           c == request[r].cred
<1>0. request[r] \in Request /\ CarriesOK(request[r])
  BY DEF TypeInv, TypeOK, RequestsCarry
<1>1. CASE LoginVerify(r)
  <2> DEFINE stage == IF row[u].bcrypt THEN "rehash" ELSE "insert"
             q == [request[r] EXCEPT !.stage = stage, !.vault = row[u].vault]
  <2>1. CASE Finish(r)
    BY <2>1, OneFinished
  <2>2. CASE Exists(u) /\ row[u].hash = c
               /\ request' = [request EXCEPT
                    ![r].stage = IF row[u].bcrypt THEN "rehash" ELSE "insert",
                    ![r].vault = row[u].vault]
    <3>1. /\ q.user = u /\ q.sid = request[r].sid /\ q.op = request[r].op /\ q.cred = c
          /\ q.vault = row[u].vault /\ q.stage = stage
      BY <1>0 DEF Request
    <3>2. stage \in {"rehash", "insert"} /\ (stage = "rehash" => row[u].bcrypt)
      OBVIOUS
    <3>3. request' = [request EXCEPT ![r] = q]
      BY <2>2
    <3>4. request[r].stage = "sent" /\ request[r].op = "login"
      BY <1>1 DEF LoginVerify, At
    <3> HIDE DEF q, stage
    <3>5. Continued(request[r], q)
      BY <2>2, <3>1, <3>2, <3>4 DEF Continued
    <3> QED
      BY <3>3, <3>5, OneRequest
  <2> QED
    BY <1>1, <2>1, <2>2 DEF LoginVerify
<1>2. CASE Rehash(r)
  BY <1>2, OneMoved DEF Rehash, At
<1>3. CASE StartSession(r)
  <2>1. CASE Finish(r)
    BY <2>1, OneFinished
  <2>2. ASSUME NEW s \in SessionIds, NEW swept, Fresh(s),
               session' = [Closed(swept) EXCEPT ![s] =
                 [state |-> "live", user |-> u, proof |-> c.pw,
                  late |-> c.pw # row[u].hash.pw]],
               request' = [request EXCEPT ![r].stage = "answered", ![r].sid = s]
        PROVE  \A p \in Requests : RequestStep(p)
    <3> DEFINE q == [request[r] EXCEPT !.stage = "answered", !.sid = s]
    <3>1. session'[s].state = "live" /\ session'[s].user = u
      BY <2>2, ClosedSessions DEF TypeInv
    <3>2. Continued(request[r], q)
      BY <1>0, <1>3, <2>2, <3>1 DEF StartSession, At, Continued, Request
    <3> QED
      BY <2>2, <3>2, OneRequest, ZenonT(30)
  <2> QED
    BY <1>3, <2>1, <2>2 DEF StartSession
<1>4. CASE LoginAnswered(r)
  <2>1. CASE Finish(r)
    BY <2>1, OneFinished
  <2>2. ASSUME NEW salt,
               request' = [request EXCEPT ![r].op = "upgrade", ![r].stage = "sent",
                             ![r].new = [pw |-> c.pw, kdf |-> salt],
                             ![r].keys = (request[r].vault # None), ![r].vault = None]
        PROVE  \A p \in Requests : RequestStep(p)
    <3> DEFINE q == [request[r] EXCEPT !.op = "upgrade", !.stage = "sent",
                       !.new = [pw |-> c.pw, kdf |-> salt],
                       !.keys = (request[r].vault # None), !.vault = None]
    <3>1. Continued(request[r], q)
      BY <1>0, <1>4 DEF LoginAnswered, At, Continued, Request
    <3>2. request' = [request EXCEPT ![r] = q]
      BY <2>2
    <3> HIDE DEF q
    <3> QED
      BY <3>1, <3>2, OneRequest
  <2> QED
    BY <1>4, <2>1, <2>2 DEF LoginAnswered
<1> QED
  BY <1>1, <1>2, <1>3, <1>4 DEF Login


LEMMA FromSessionSteps ==
  ASSUME TypeInv, NEW r \in Requests, FromSession(r)
  PROVE  \A p \in Requests : RequestStep(p)
<1> DEFINE u == request[r].user
<1>0. request[r] \in Request /\ CarriesOK(request[r])
  BY DEF TypeInv, TypeOK, RequestsCarry
<1>1. CASE Authenticate(r)
  BY <1>1, OneMoved, OneFinished DEF Authenticate
<1>2. CASE Verify(r)
  <2> DEFINE q == [request[r] EXCEPT !.stage = "write", !.cred = None]
  <2>1. CASE Finish(r)
    BY <2>1, OneFinished
  <2>2. CASE Valid(r) /\ request' = [request EXCEPT ![r].stage = "write", ![r].cred = None]
    <3>1. /\ q.user = u /\ q.sid = request[r].sid /\ q.op = request[r].op
          /\ q.keys = request[r].keys /\ q.stage = "write"
      BY <1>0 DEF Request
    <3>2. request' = [request EXCEPT ![r] = q]
      BY <2>2
    <3> HIDE DEF q
    <3>3. Continued(request[r], q)
      BY <1>2, <2>2, <3>1 DEF Verify, Valid, Continued
    <3> QED
      BY <3>2, <3>3, OneRequest
  <2> QED
    BY <1>2, <2>1, <2>2 DEF Verify
<1>3. CASE UpgradeWrite(r) \/ ChangeRevoke(r) \/ SetRecoveryWrite(r) \/ DeleteWrite(r)
             \/ SessionCall(r)
  BY <1>3, OneFinished
     DEF UpgradeWrite, ChangeRevoke, SetRecoveryWrite, DeleteWrite, SessionCall
<1>4. CASE ChangeWrite(r)
  BY <1>4, RevokeStep DEF ChangeWrite, At
<1> QED
  BY <1>1, <1>2, <1>3, <1>4 DEF FromSession

LEMMA RecoverSteps ==
  ASSUME TypeInv, NEW r \in Requests, Recover(r)
  PROVE  \A p \in Requests : RequestStep(p)
<1> DEFINE u == request[r].user
<1>0. request[r] \in Request /\ CarriesOK(request[r])
  BY DEF TypeInv, TypeOK, RequestsCarry
<1>1. CASE RecoverComplete(r)
  BY <1>1, OneMoved, OneFinished DEF RecoverComplete, At
<1>2. CASE RecoverRead(r)
  <2> DEFINE q == [request[r] EXCEPT !.stage = "write", !.code = None]
  <2>1. CASE Finish(r)
    BY <2>1, OneFinished
  <2>2. CASE /\ Exists(u) /\ (row[u].vault # None => request[r].keys)
             /\ request' = [request EXCEPT ![r].stage = "write", ![r].code = None]
    <3>1. /\ q.user = u /\ q.sid = request[r].sid /\ q.op = request[r].op
          /\ q.keys = request[r].keys /\ q.stage = "write"
      BY <1>0 DEF Request
    <3>2. request' = [request EXCEPT ![r] = q]
      BY <2>2
    <3> HIDE DEF q
    <3>3. Continued(request[r], q)
      BY <1>2, <2>2, <3>1 DEF RecoverRead, At, Continued
    <3> QED
      BY <3>2, <3>3, OneRequest
  <2> QED
    BY <1>2, <2>1, <2>2 DEF RecoverRead
<1>3. CASE RecoverWrite(r)
  BY <1>3, RevokeStep DEF RecoverWrite, At
<1>4. CASE RecoverRevoke(r)
  BY <1>4, OneFinished DEF RecoverRevoke
<1> QED
  BY <1>1, <1>2, <1>3, <1>4 DEF Recover

LEMMA RequestSteps ==
  ASSUME TypeInv, Next
  PROVE  \A p \in Requests : RequestStep(p)
<1>1. CASE UNCHANGED request
  BY <1>1 DEF RequestStep
<1>2. ASSUME NEW r \in Requests, Abort(r) PROVE \A p \in Requests : RequestStep(p)
  BY <1>2, OneFinished DEF Abort
<1> QED
  BY <1>1, <1>2, SendSteps, LoginSteps, FromSessionSteps, RecoverSteps
     DEF Next, Register, Suspend, Unsuspend, Lapse

LEMMA KnownStep ==
  ASSUME TypeInv, RequestsKnown, \A p \in Requests : RequestStep(p),
         \A u \in Users : RowStep(u)
  PROVE  RequestsKnown'
<1> SUFFICES ASSUME NEW p \in Requests, request'[p].stage # "idle"
             PROVE  row'[request'[p].user] # None
  BY DEF RequestsKnown
<1>1. request[p].stage # "idle" => request[p].user \in Users /\ row[request[p].user] # None
  BY DEF RequestsKnown, TypeInv, RequestsCarry, CarriesOK
<1>2. request'[p].user \in Users /\ row[request'[p].user] # None
  BY <1>1 DEF RequestStep, Opened, Continued, NoRequest, Exists
<1> QED
  BY <1>2, VaultKept

LEMMA KeysStep ==
  ASSUME TypeInv, RequestsKnown, KeysChecked, \A p \in Requests : RequestStep(p),
         \A u \in Users : RowStep(u)
  PROVE  KeysChecked'
<1> SUFFICES ASSUME NEW p \in Requests,
                    request'[p].op \in {"upgrade", "change", "setRecovery", "recover"},
                    request'[p].stage = "write",
                    row'[request'[p].user] \notin {None, Deleted},
                    row'[request'[p].user].vault # None
             PROVE  request'[p].keys
  BY DEF KeysChecked, Exists
<1> DEFINE u == request'[p].user
<1>1. request[p].stage # "idle" => request[p].user \in Users /\ row[request[p].user] # None
  BY DEF RequestsKnown, TypeInv, RequestsCarry, CarriesOK
<1>2. request'[p] = request[p] \/ Continued(request[p], request'[p])
  BY DEF RequestStep, Opened, NoRequest
<1>3. u \in Users /\ row[u] # None
  BY <1>1, <1>2 DEF Continued
<1>4. Exists(u) /\ row[u].vault # None
  BY <1>3, VaultKept
<1> QED
  BY <1>2, <1>4 DEF Continued, KeysChecked


LEMMA SignInStep ==
  ASSUME TypeInv, CredentialsAgree, SignInUnlocks, overwritten \subseteq overwritten',
         \A p \in Requests : RequestStep(p)
  PROVE  SignInUnlocks'
<1> SUFFICES ASSUME NEW p \in Requests, request'[p].op = "login",
                    request'[p].stage \in {"rehash", "insert", "answered"},
                    request'[p].user \notin overwritten'
             PROVE  request'[p].vault \in {None, request'[p].cred}
  BY DEF SignInUnlocks
<1>1. request[p].stage # "idle" => request[p].user \in Users
  BY DEF TypeInv, RequestsCarry, CarriesOK
<1>2. request'[p] = request[p] \/ Continued(request[p], request'[p])
  BY DEF RequestStep, Opened, NoRequest
<1>3. request[p].user = request'[p].user /\ request[p].user \in Users \ overwritten
  BY <1>1, <1>2 DEF Continued
<1>4. CASE request'[p].vault = row[request'[p].user].vault /\ Exists(request'[p].user)
             /\ row[request'[p].user].hash = request'[p].cred
  BY <1>3, <1>4 DEF CredentialsAgree, Agrees
<1> QED
  BY <1>2, <1>3, <1>4 DEF Continued, SignInUnlocks

LEMMA OverwrittenOnlyAtRehash ==
  ASSUME Next, NEW u \in overwritten'
  PROVE  u \in overwritten \/ \E r \in Requests : request[r].stage = "rehash" /\ request[r].user = u
<1>1. ASSUME NEW r \in Requests, Login(r)
      PROVE  u \in overwritten \/ (request[r].stage = "rehash" /\ request[r].user = u)
  BY <1>1 DEF Login, LoginVerify, Rehash, At, StartSession, LoginAnswered, history
<1>2. ASSUME NEW r \in Requests, FromSession(r) \/ Recover(r) \/ Abort(r)
      PROVE  overwritten' = overwritten
  BY <1>2 DEF FromSession, Authenticate, Verify, UpgradeWrite, ChangeWrite, ChangeRevoke,
     SetRecoveryWrite, DeleteWrite, SessionCall, Recover, RecoverComplete, RecoverRead,
     RecoverWrite, RecoverRevoke, Abort, history
<1>3. ASSUME NEW r \in Requests, Send(r) PROVE overwritten' = overwritten
  BY <1>3 DEF Send, SendLogin, RecoverVerify, SendChange, SendSetRecovery, SendDelete,
     SendFromSession, AuthenticateCall, history
<1> QED
  BY <1>1, <1>2, <1>3 DEF Next, Register, Suspend, Unsuspend, Lapse, history

LEMMA BcryptStep ==
  ASSUME TypeInv, OnlyBcryptRehashed, Next,
         \A p \in Requests : RequestStep(p), \A u \in Users : RowStep(u)
  PROVE  OnlyBcryptRehashed'
<1>1. ASSUME NEW u \in Users, row'[u] \notin {None, Deleted}, row'[u].bcrypt
      PROVE  u \in BcryptUsers
  <2>1. Exists(u) => row[u] \in Row /\ (row[u].bcrypt => u \in BcryptUsers)
    BY ExistsRow DEF TypeInv, OnlyBcryptRehashed
  <2>2. RowStep(u)
    OBVIOUS
  <2>3. ~Rehashed(u)
    <3>1. Rehashed(u) => ~row'[u].bcrypt
      BY <2>1 DEF Rehashed, Row
    <3> QED
      BY <1>1, <3>1
  <2> QED
    BY <1>1, <2>1, <2>2, <2>3
       DEF RowStep, Removed, Exists, Created, Moderated, Recoded, SameCredentials, Rewritten
<1>2. ASSUME NEW p \in Requests, request'[p].stage = "rehash"
      PROVE  request'[p].user \in BcryptUsers
  <2>1. request'[p] = request[p] \/ Continued(request[p], request'[p])
    BY <1>2 DEF RequestStep, Opened, NoRequest
  <2>2. request[p].stage # "idle" => request[p].user \in Users
    BY DEF TypeInv, RequestsCarry, CarriesOK
  <2> QED
    BY <1>2, <2>1, <2>2 DEF Continued, OnlyBcryptRehashed
<1>3. overwritten' \subseteq BcryptUsers
  BY OverwrittenOnlyAtRehash DEF OnlyBcryptRehashed
<1> QED
  BY <1>1, <1>2, <1>3 DEF OnlyBcryptRehashed, Exists

-----------------------------------------------------------------------------
(* The theorems on credentials and keys.                                   *)

CredInv == /\ TypeInv
           /\ RequestsKnown
           /\ KeysChecked
           /\ OnlyBcryptRehashed
           /\ CredentialsAgree
           /\ SignInUnlocks
           /\ RecoveryRestoresKey

LEMMA CredInit == Init => CredInv
<1> SUFFICES ASSUME Init PROVE CredInv
  OBVIOUS
<1>1. \A r \in Requests : request[r].stage = "idle" /\ request[r].op = "none"
  BY DEF Init, NoRequest
<1>2. \A old \in OldRows : Agrees(old) /\ old.code = None
  <2> SUFFICES ASSUME NEW c \in [pw : Passwords, kdf : {Legacy}],
                      NEW b \in BOOLEAN, NEW keys \in BOOLEAN
               PROVE  LET old == [hash |-> c, bcrypt |-> b, kdf |-> Legacy,
                                  vault |-> IF keys THEN c ELSE None,
                                  code |-> None, copy |-> FALSE, suspended |-> FALSE] IN
                      Agrees(old) /\ old.code = None
    BY DEF OldRows
  <2> QED
    BY DEF Agrees
<1>3. RequestsKnown /\ KeysChecked /\ SignInUnlocks
  BY <1>1 DEF RequestsKnown, KeysChecked, SignInUnlocks
<1>4. CredentialsAgree /\ RecoveryRestoresKey
  BY <1>2 DEF Init, Exists, CredentialsAgree, RecoveryRestoresKey
<1>5. OnlyBcryptRehashed
  BY <1>1 DEF Init, OnlyBcryptRehashed, Exists
<1> QED
  BY <1>3, <1>4, <1>5, TypeInit DEF CredInv

LEMMA CredStep == CredInv /\ [Next]_vars => CredInv'
<1> SUFFICES ASSUME CredInv, [Next]_vars PROVE CredInv'
  OBVIOUS
<1>1. CASE UNCHANGED vars
  BY <1>1, TypeStep DEF CredInv, vars, RequestsKnown, KeysChecked, OnlyBcryptRehashed,
     CredentialsAgree, SignInUnlocks, RecoveryRestoresKey, Exists
<1>2. CASE Next
  <2>1. TypeInv /\ \A u \in Users : RowStep(u)
    BY <1>2, RowSteps DEF CredInv
  <2>2. \A p \in Requests : RequestStep(p)
    BY <1>2, <2>1, RequestSteps
  <2>3. overwritten \subseteq overwritten'
    BY <1>2, OverwrittenGrows
  <2>4. TypeInv'
    BY <1>2, <2>1, TypeStep
  <2>5. RequestsKnown' /\ KeysChecked'
    BY <2>1, <2>2, KnownStep, KeysStep DEF CredInv
  <2>6. CredentialsAgree' /\ RecoveryRestoresKey'
    BY <2>1, <2>3, AgreeStep, CopyStep DEF CredInv
  <2>7. SignInUnlocks'
    BY <2>1, <2>2, <2>3, SignInStep DEF CredInv
  <2>8. OnlyBcryptRehashed'
    BY <1>2, <2>1, <2>2, BcryptStep DEF CredInv
  <2> QED
    BY <2>4, <2>5, <2>6, <2>7, <2>8 DEF CredInv
<1> QED
  BY <1>1, <1>2

LEMMA CredInvariant == Spec => []CredInv
BY CredInit, CredStep, PTL DEF Spec

\* Whatever interleaving of sign-ins, upgrades, changes and recoveries, the
\* hash, the derivation parameters and the vault of an account come from one
\* password, unless a bcrypt re-hash put an old hash back.
THEOREM CredentialsBelongTogether == Spec => []CredentialsAgree
<1>1. CredInv => CredentialsAgree
  BY DEF CredInv
<1> QED
  BY <1>1, CredInvariant, PTL

\* A sign-in that succeeds answers with a vault that the typed password opens.
THEOREM SignInsUnlock == Spec => []SignInUnlocks
<1>1. CredInv => SignInUnlocks
  BY DEF CredInv
<1> QED
  BY <1>1, CredInvariant, PTL

\* An account with a recovery code has the copy of its key that the code opens.
THEOREM RecoveryKeepsTheKey == Spec => []RecoveryRestoresKey
<1>1. CredInv => RecoveryRestoresKey
  BY DEF CredInv
<1> QED
  BY <1>1, CredInvariant, PTL

\* No write adds a vault to an account or takes it away.
THEOREM VaultsArePermanent == Spec => VaultPermanent
<1>1. CredInv /\ [Next]_vars =>
        [\A u \in Users : Exists(u) /\ Exists(u)' =>
           (row[u].vault = None <=> row'[u].vault = None)]_vars
  <2> SUFFICES ASSUME CredInv, Next, NEW u \in Users, Exists(u), Exists(u)'
               PROVE  row[u].vault = None <=> row'[u].vault = None
    BY DEF vars
  <2>1. TypeInv /\ RowStep(u)
    BY RowSteps DEF CredInv
  <2> QED
    BY <2>1, VaultKept DEF Exists
<1> QED
  BY <1>1, CredInvariant, PTL DEF Spec, VaultPermanent

\* Once no account is left with a bcrypt hash, the exception is gone: every
\* account can be opened with the parameters its browser is told to use.
THEOREM AccountsOpenWithoutBcrypt ==
  ASSUME BcryptUsers = {}
  PROVE  Spec => []AccountOpens
<1>1. CredInv => AccountOpens
  BY DEF CredInv, OnlyBcryptRehashed, CredentialsAgree, AccountOpens
<1> QED
  BY <1>1, CredInvariant, PTL


-----------------------------------------------------------------------------
(* Sessions.  What one step can do to a row of the sessions table.         *)

Inserted(s) ==
  LET n == session'[s] IN
  /\ Fresh(s)
  /\ UNCHANGED row
  /\ n.user \in Users /\ Exists(n.user)
  /\ n.late \/ n.proof = row[n.user].hash.pw

\* The session of a password change has just proved the new password.
Reproved(s) ==
  LET u == session[s].user
      n == session'[s] IN
  /\ Present(s)
  /\ n.user = u /\ n.late = session[s].late
  /\ row'[u] \notin {None, Deleted} => n.proof = row'[u].hash.pw

Aged(s) ==
  LET n == session'[s] IN
  /\ Present(s)
  /\ n.user = session[s].user /\ n.late = session[s].late /\ n.proof = session[s].proof

SessionStep(s) == \/ session'[s] = session[s]
                  \/ session'[s] = NoSession
                  \/ Inserted(s) \/ Reproved(s) \/ Aged(s)

LEMMA ClosedSteps ==
  ASSUME TypeInv, NEW S, session' = Closed(S)
  PROVE  \A t \in SessionIds : SessionStep(t)
BY ClosedSessions DEF TypeInv, SessionStep

LEMMA SessionSteps ==
  ASSUME TypeInv, RequestsOwnSession, Next
  PROVE  \A t \in SessionIds : SessionStep(t)
<1>0. /\ session \in [SessionIds -> Session] /\ row \in [Users -> Row \cup {None, Deleted}]
      /\ \A r \in Requests : request[r] \in Request /\ CarriesOK(request[r])
  BY DEF TypeInv, TypeOK, RequestsCarry
<1>1. CASE UNCHANGED session
  BY <1>1 DEF SessionStep
<1>2. ASSUME NEW r \in Requests, StartSession(r)
      PROVE  \A t \in SessionIds : SessionStep(t)
  <2> DEFINE u == request[r].user
             c == request[r].cred
  <2>1. CASE ~Exists(u)
    BY <1>1, <1>2, <2>1 DEF StartSession
  <2>2. ASSUME Exists(u), NEW s \in SessionIds, NEW swept, Fresh(s),
               session' = [Closed(swept) EXCEPT ![s] =
                 [state |-> "live", user |-> u, proof |-> c.pw,
                  late |-> c.pw # row[u].hash.pw]]
        PROVE  \A t \in SessionIds : SessionStep(t)
    <3>1. u \in Users /\ UNCHANGED row
      BY <1>0, <1>2 DEF StartSession, At, CarriesOK
    <3> DEFINE late == c.pw # row[u].hash.pw
    <3>2. session'[s] = [state |-> "live", user |-> u, proof |-> c.pw, late |-> late]
      BY <2>2, ClosedSessions DEF TypeInv
    <3>3. late \/ c.pw = row[u].hash.pw
      OBVIOUS
    <3> HIDE DEF late
    <3>4. session'[s].user = u /\ session'[s].proof = c.pw /\ session'[s].late = late
      BY <3>2
    <3>5. Inserted(s)
      BY <2>2, <3>1, <3>3, <3>4 DEF Inserted
    <3>6. \A t \in SessionIds : t # s => session'[t] = Closed(swept)[t]
      BY <2>2, ClosedSessions DEF TypeInv
    <3>7. \A t \in SessionIds : t # s => session'[t] \in {session[t], NoSession}
      BY <3>6, ClosedSessions DEF TypeInv
    <3> QED
      BY <3>5, <3>7 DEF SessionStep
  <2> QED
    BY <1>2, <2>1, <2>2 DEF StartSession
<1>3. ASSUME NEW r \in Requests, ChangeWrite(r)
      PROVE  \A t \in SessionIds : SessionStep(t)
  <2> DEFINE s == request[r].sid
             u == request[r].user
  <2>1. /\ s \in SessionIds /\ u \in Users /\ request[r].new \in Credential
        /\ request[r].keys \in BOOLEAN
    BY <1>0, <1>3 DEF ChangeWrite, At, CarriesOK, Request
  <2>2. CASE ~Present(s)
    BY <1>1, <1>3, <2>2 DEF ChangeWrite
  <2>3. CASE Present(s)
    <3>1. session' = [session EXCEPT ![s].proof = request[r].new.pw]
      BY <1>3, <2>3 DEF ChangeWrite
    <3>2. /\ \A t \in SessionIds : t # s => session'[t] = session[t]
          /\ session'[s].user = session[s].user /\ session'[s].late = session[s].late
          /\ session'[s].proof = request[r].new.pw
      BY <1>0, <2>1, <3>1 DEF Session
    <3>3. session[s].user = u
      BY <2>1, <2>3 DEF RequestsOwnSession
    <3>4. row'[u] \notin {None, Deleted} => row'[u].hash = request[r].new
      <4>1. CASE Exists(u)
        <5>1. row[u] \in Row
          BY <2>1, <4>1, ExistsRow DEF TypeInv
        <5>2. NewCredentials(u, request[r].new, request[r].keys).hash = request[r].new
          BY <2>1, <5>1, NewCredentialsRow
        <5> QED
          BY <1>0, <1>3, <2>1, <4>1, <5>2 DEF ChangeWrite, UpdatePassword
      <4>2. CASE ~Exists(u)
        BY <1>3, <4>2 DEF ChangeWrite, UpdatePassword, Exists
      <4> QED
        BY <4>1, <4>2
    <3>5. Reproved(s)
      BY <2>3, <3>2, <3>3, <3>4 DEF Reproved
    <3> QED
      BY <3>2, <3>5 DEF SessionStep
  <2> QED
    BY <2>2, <2>3
<1>4. ASSUME NEW s \in SessionIds, Lapse(s)
      PROVE  \A t \in SessionIds : SessionStep(t)
  <2>1. /\ \A t \in SessionIds : t # s => session'[t] = session[t]
        /\ session'[s] = [session[s] EXCEPT !.state = "lapsed"]
        /\ session[s] \in Session
    BY <1>0, <1>4 DEF Lapse
  <2>2. Aged(s)
    BY <1>4, <2>1 DEF Lapse, Aged, Present, Session
  <2> QED
    BY <2>1, <2>2 DEF SessionStep
<1>5. ASSUME NEW r \in Requests, Login(r) \/ FromSession(r) \/ Recover(r)
      PROVE  \A t \in SessionIds : SessionStep(t)
  BY <1>1, <1>2, <1>3, <1>5, ClosedSteps
     DEF Login, LoginVerify, Rehash, LoginAnswered, FromSession, Authenticate, Verify,
         UpgradeWrite, ChangeRevoke, SetRecoveryWrite, DeleteWrite, SessionCall,
         Recover, RecoverComplete, RecoverRead, RecoverWrite, RecoverRevoke
<1>6. ASSUME NEW r \in Requests, Send(r) \/ Abort(r)
      PROVE  UNCHANGED session
  BY <1>6 DEF Send, SendLogin, RecoverVerify, SendChange, SendSetRecovery, SendDelete,
     SendFromSession, AuthenticateCall, Abort
<1>7. ASSUME NEW u \in Users, Suspend(u) \/ Unsuspend(u)
      PROVE  \A t \in SessionIds : SessionStep(t)
  BY <1>1, <1>7, ClosedSteps DEF Suspend, Unsuspend
<1> QED
  BY <1>1, <1>4, <1>5, <1>6, <1>7 DEF Next, Register

LEMMA OwnersStep ==
  ASSUME TypeInv, TypeInv', SessionsHaveOwners,
         \A t \in SessionIds : SessionStep(t), \A u \in Users : RowStep(u)
  PROVE  SessionsHaveOwners'
<1> SUFFICES ASSUME NEW t \in SessionIds, session'[t].state \in {"live", "lapsed"}
             PROVE  row'[session'[t].user] \notin {None, Deleted}
  BY DEF SessionsHaveOwners, Present, Exists
<1> DEFINE u == session'[t].user
<1>1. SessionStep(t) /\ session'[t] # NoSession
  BY DEF NoSession
<1>2. CASE Inserted(t)
  BY <1>2 DEF Inserted, Exists
<1>3. CASE session'[t] = session[t] \/ Reproved(t) \/ Aged(t)
  <2>1. Present(t) /\ u = session[t].user
    BY <1>3 DEF Reproved, Aged, Present
  <2>2. u \in Users /\ Exists(u) /\ row[u] \in Row
    BY <2>1, ExistsRow DEF SessionsHaveOwners, TypeInv, SessionsOwned
  <2>3. ~Removed(u)
    <3>1. CASE session' = Closed(SessionsOf(u))
      <4>1. t \in SessionsOf(u)
        BY <2>1 DEF SessionsOf
      <4>2. session'[t] = NoSession
        BY <3>1, <4>1, ClosedSessions DEF TypeInv
      <4> QED
        BY <1>1, <4>2
    <3> QED
      BY <3>1 DEF Removed
  <2>4. row'[u] \notin {None, Deleted}
    BY <2>2, <2>3, AccountsAssumption
       DEF RowStep, Created, Moderated, Recoded, SameCredentials, Rehashed, Rewritten, Exists
  <2> QED
    BY <2>4
<1> QED
  BY <1>1, <1>2, <1>3 DEF SessionStep

LEMMA OwnSessionStep ==
  ASSUME TypeInv, RequestsOwnSession,
         \A t \in SessionIds : SessionStep(t), \A p \in Requests : RequestStep(p)
  PROVE  RequestsOwnSession'
<1> SUFFICES ASSUME NEW p \in Requests, request'[p].sid \in SessionIds,
                    session'[request'[p].sid].state \in {"live", "lapsed"}
             PROVE  session'[request'[p].sid].user = request'[p].user
  BY DEF RequestsOwnSession, Present
<1> DEFINE s == request'[p].sid
<1>0. SessionStep(s) /\ session'[s] # NoSession
  BY DEF NoSession
<1>1. CASE request'[p] = request[p] \/ (Continued(request[p], request'[p]) /\ s = request[p].sid)
  <2>1. s = request[p].sid /\ request'[p].user = request[p].user
    BY <1>1 DEF Continued
  <2>2. ~Inserted(s)
    BY <2>1 DEF Inserted, Fresh
  <2>3. Present(s) /\ session'[s].user = session[s].user
    BY <1>0, <2>2 DEF SessionStep, Reproved, Aged, Present
  <2> QED
    BY <2>1, <2>3 DEF RequestsOwnSession
<1>2. CASE Opened(request[p], request'[p])
  <2>1. Present(s) /\ session[s].user = request'[p].user
    BY <1>2 DEF Opened
  <2>2. session'[s].user = session[s].user
    BY <1>0, <2>1 DEF SessionStep, Inserted, Fresh, Reproved, Aged
  <2> QED
    BY <2>1, <2>2
<1>3. CASE Continued(request[p], request'[p]) /\ s # request[p].sid
  BY <1>3 DEF Continued
<1>4. request'[p] # NoRequest
  BY AccountsAssumption DEF NoRequest
<1> QED
  BY <1>1, <1>2, <1>3, <1>4 DEF RequestStep


\* The sessions of a user that a step leaves there.
Left(u, s) == session'[s].state \in {"live", "lapsed"} /\ session'[s].user = u

LEMMA ClosedLeft ==
  ASSUME TypeInv, NEW S, NEW u, session' = Closed(SessionsOf(u) \ S)
  PROVE  \A s \in SessionIds : Left(u, s) => s \in S
<1> SUFFICES ASSUME NEW s \in SessionIds, Left(u, s), s \notin S PROVE FALSE
  OBVIOUS
<1>1. session'[s] # NoSession
  BY DEF Left, NoSession
<1>2. s \notin SessionsOf(u) \ S /\ session'[s] = session[s]
  BY <1>1, ClosedSessions DEF TypeInv
<1> QED
  BY <1>2 DEF Left, SessionsOf, Present

LEMMA AllClosed ==
  ASSUME TypeInv, NEW u, session' = Closed(SessionsOf(u))
  PROVE  \A s \in SessionIds : ~Left(u, s)
<1> SUFFICES ASSUME NEW s \in SessionIds, Left(u, s) PROVE FALSE
  OBVIOUS
<1>1. session'[s] # NoSession
  BY DEF Left, NoSession
<1>2. s \notin SessionsOf(u) /\ session'[s] = session[s]
  BY <1>1, ClosedSessions DEF TypeInv
<1> QED
  BY <1>2 DEF Left, SessionsOf, Present

\* A revocation ends by closing what it has to close, or by exposing the user.
LEMMA RevocationEnds ==
  ASSUME TypeInv, Next, NEW p \in Requests, request[p].stage = "revoke"
  PROVE  \/ request'[p] = request[p]
         \/ request[p].user \in exposed'
         \/ \A s \in SessionIds : Left(request[p].user, s) => s = request[p].sid
<1>0. /\ request \in [Requests -> Request]
      /\ request[p].op \in {"change", "recover"} /\ request[p] # NoRequest
  BY DEF TypeInv, TypeOK, RequestsCarry, CarriesOK, NoRequest
<1>1. CASE ChangeRevoke(p)
  <2>1. session' = Closed(SessionsOf(request[p].user) \ {request[p].sid})
    BY <1>1 DEF ChangeRevoke
  <2>2. \A s \in SessionIds : Left(request[p].user, s) => s \in {request[p].sid}
    BY <2>1, ClosedLeft, Zenon
  <2> QED
    BY <2>2
<1>2. CASE RecoverRevoke(p)
  <2>1. session' = Closed(SessionsOf(request[p].user))
    BY <1>2 DEF RecoverRevoke
  <2>2. \A s \in SessionIds : ~Left(request[p].user, s)
    BY <2>1, AllClosed, Zenon
  <2> QED
    BY <2>2
<1>3. CASE Abort(p)
  BY <1>3 DEF Abort
<1>4. ASSUME NEW r \in Requests, Send(r) \/ Login(r) \/ FromSession(r) \/ Recover(r) \/ Abort(r),
             r # p
      PROVE  request'[p] = request[p]
  BY <1>0, <1>4, ZenonT(30) DEF Send, SendLogin, RecoverVerify, SendChange, SendSetRecovery, SendDelete,
     SendFromSession, AuthenticateCall, Login, LoginVerify, Rehash, StartSession, LoginAnswered,
     FromSession, Authenticate, Verify, UpgradeWrite, ChangeWrite, ChangeRevoke,
     SetRecoveryWrite, DeleteWrite, SessionCall, Recover, RecoverComplete, RecoverRead,
     RecoverWrite, RecoverRevoke, Abort, Finish, Goto, ToRevoke
<1>5. ASSUME Send(p) \/ Login(p) \/ FromSession(p) \/ Recover(p)
      PROVE  ChangeRevoke(p) \/ RecoverRevoke(p)
  BY <1>0, <1>5 DEF Send, SendLogin, RecoverVerify, SendChange, SendSetRecovery, SendDelete,
     SendFromSession, AuthenticateCall, Login, LoginVerify, Rehash, StartSession, LoginAnswered,
     FromSession, Authenticate, Verify, UpgradeWrite, ChangeWrite,
     SetRecoveryWrite, DeleteWrite, SessionCall, Recover, RecoverComplete, RecoverRead,
     RecoverWrite, At
<1> QED
  BY <1>1, <1>2, <1>3, <1>4, <1>5 DEF Next, Register, Suspend, Unsuspend, Lapse

\* A user stops being exposed when all the sessions close.
LEMMA ExposureEnds ==
  ASSUME TypeInv, Next, NEW u \in exposed
  PROVE  u \in exposed' \/ \A s \in SessionIds : ~Left(u, s)
<1>1. ASSUME NEW r \in Requests, RecoverRevoke(r)
      PROVE  u \in exposed' \/ \A s \in SessionIds : ~Left(u, s)
  <2>1. session' = Closed(SessionsOf(request[r].user))
    BY <1>1 DEF RecoverRevoke
  <2>2. \A s \in SessionIds : ~Left(request[r].user, s)
    BY <2>1, AllClosed, Zenon
  <2> QED
    BY <1>1, <2>2 DEF RecoverRevoke
<1>2. ASSUME NEW r \in Requests, Send(r) \/ Login(r) \/ FromSession(r) \/ Abort(r)
      PROVE  u \in exposed'
  BY <1>2 DEF Send, SendLogin, RecoverVerify, SendChange, SendSetRecovery, SendDelete,
     SendFromSession, AuthenticateCall, Login, LoginVerify, Rehash, StartSession, LoginAnswered,
     FromSession, Authenticate, Verify, UpgradeWrite, ChangeWrite, ChangeRevoke,
     SetRecoveryWrite, DeleteWrite, SessionCall, Abort, history
<1>3. ASSUME NEW r \in Requests, RecoverComplete(r) \/ RecoverRead(r) \/ RecoverWrite(r)
      PROVE  u \in exposed'
  BY <1>3 DEF RecoverComplete, RecoverRead, RecoverWrite, history
<1> QED
  BY <1>1, <1>2, <1>3 DEF Next, Recover, Register, Suspend, Unsuspend, Lapse, history

\* A new password comes with a revocation to follow, or exposes the user.
LEMMA PasswordChanges ==
  ASSUME TypeInv, RequestsOwnSession, KeysChecked, Next,
         NEW s \in SessionIds, Present(s), NEW u \in Users, session[s].user = u,
         Exists(u), row'[u] \notin {None, Deleted}, row'[u].hash.pw # row[u].hash.pw
  PROVE  \/ u \in exposed'
         \/ session'[s].proof = row'[u].hash.pw
         \/ \E p \in Requests : /\ request'[p].stage = "revoke"
                                /\ request'[p].user = u
                                /\ request'[p].sid # s
<1>0. /\ row \in [Users -> Row \cup {None, Deleted}] /\ session \in [SessionIds -> Session]
      /\ request \in [Requests -> Request]
      /\ \A r \in Requests : CarriesOK(request[r])
      /\ row[u] \in Row
  BY ExistsRow DEF TypeInv, TypeOK, RequestsCarry
<1>1. ASSUME NEW r \in Requests, UpgradeWrite(r) \/ ChangeWrite(r) \/ RecoverWrite(r)
      PROVE  /\ request[r].user = u /\ row'[u].hash = request[r].new
             /\ request[r].new \in Credential
  <2>1. /\ request[r].new \in Credential /\ request[r].keys \in BOOLEAN
        /\ request[r].user \in Users
    BY <1>0, <1>1 DEF UpgradeWrite, ChangeWrite, RecoverWrite, At, CarriesOK, Request
  <2>2. NewCredentials(u, request[r].new, request[r].keys).hash = request[r].new
    BY <1>0, <2>1, NewCredentialsRow
  <2>3. UpdatePassword(r)
    BY <1>1 DEF UpgradeWrite, ChangeWrite, RecoverWrite
  <2>4. request[r].user = u
    BY <1>0, <2>1, <2>3 DEF UpdatePassword
  <2> QED
    BY <1>0, <2>1, <2>2, <2>3, <2>4 DEF UpdatePassword
<1>2. ASSUME NEW r \in Requests, UpgradeWrite(r) PROVE u \in exposed'
  BY <1>1, <1>2 DEF UpgradeWrite
<1>3. ASSUME NEW r \in Requests, ToRevoke(r)
      PROVE  /\ request'[r].stage = "revoke"
             /\ request'[r].user = request[r].user /\ request'[r].sid = request[r].sid
  BY <1>0, <1>3 DEF ToRevoke, NoRequest
<1>4. ASSUME NEW r \in Requests, RecoverWrite(r)
      PROVE  /\ request'[r].stage = "revoke" /\ request'[r].user = u /\ request'[r].sid # s
  BY <1>0, <1>1, <1>3, <1>4, AccountsAssumption DEF RecoverWrite, At, CarriesOK
<1>5. ASSUME NEW r \in Requests, ChangeWrite(r), request[r].sid = s
      PROVE  session'[s].proof = row'[u].hash.pw
  BY <1>0, <1>1, <1>5 DEF ChangeWrite, Session
<1>6. ASSUME NEW r \in Requests, ChangeWrite(r), request[r].sid # s
      PROVE  /\ request'[r].stage = "revoke" /\ request'[r].user = u /\ request'[r].sid # s
  BY <1>1, <1>3, <1>6 DEF ChangeWrite
<1>7. ASSUME NEW r \in Requests, Rehash(r) PROVE u \in exposed'
  <2>1. request[r].cred \in Credential /\ request[r].user \in Users
    BY <1>0, <1>7 DEF Rehash, At, CarriesOK
  <2>2. row' # row
    OBVIOUS
  <2>3. /\ row' = [row EXCEPT ![request[r].user].hash = request[r].cred,
                              ![request[r].user].bcrypt = FALSE]
        /\ exposed' = IF row[request[r].user].hash.pw = request[r].cred.pw
                        THEN exposed ELSE exposed \cup {request[r].user}
    BY <1>7, <2>2 DEF Rehash
  <2>4. request[r].user = u
    BY <1>0, <2>1, <2>3
  <2>5. row'[u].hash = request[r].cred
    BY <1>0, <2>1, <2>3, <2>4 DEF Row
  <2> QED
    BY <2>3, <2>4, <2>5
<1>8. ~ \E v \in Users, pw \in Passwords, salt \in Salts, keys \in BOOLEAN,
           code \in Codes \cup {None} : Register(v, pw, salt, keys, code)
  BY <1>0 DEF Register, Exists
<1>9. ~ \E v \in Users : Suspend(v) \/ Unsuspend(v)
  BY <1>0 DEF Suspend, Unsuspend, Row
<1>10. ASSUME NEW r \in Requests PROVE ~DeleteWrite(r)
  BY <1>0 DEF DeleteWrite, At, CarriesOK
<1>11. ASSUME NEW r \in Requests PROVE ~SetRecoveryWrite(r)
  BY <1>0 DEF SetRecoveryWrite, At, CarriesOK, Row
<1>12. ASSUME NEW r \in Requests, Send(r) \/ Abort(r) PROVE FALSE
  BY <1>12 DEF Send, SendLogin, RecoverVerify, SendChange, SendSetRecovery, SendDelete,
     SendFromSession, AuthenticateCall, Abort
<1>13. ASSUME NEW r \in Requests, Login(r) PROVE Rehash(r)
  BY <1>13 DEF Login, LoginVerify, StartSession, LoginAnswered
<1>14. ASSUME NEW r \in Requests, FromSession(r) PROVE UpgradeWrite(r) \/ ChangeWrite(r)
  BY <1>10, <1>11, <1>14 DEF FromSession, Authenticate, Verify, ChangeRevoke, SessionCall
<1>15. ASSUME NEW r \in Requests, Recover(r) PROVE RecoverWrite(r)
  BY <1>15 DEF Recover, RecoverComplete, RecoverRead, RecoverRevoke
<1> QED
  BY <1>2, <1>4, <1>5, <1>6, <1>7, <1>8, <1>9, <1>12, <1>13, <1>14, <1>15 DEF Next, Lapse


LEMMA PendingStep ==
  ASSUME TypeInv, TypeInv', RequestsOwnSession, KeysChecked, RevocationPending,
         SessionsHaveOwners, SessionsHaveOwners', Next,
         \A t \in SessionIds : SessionStep(t), \A u \in Users : RowStep(u)
  PROVE  RevocationPending'
<1> SUFFICES ASSUME NEW s \in SessionIds, session'[s].state \in {"live", "lapsed"},
                    session'[s].proof # row'[session'[s].user].hash.pw
             PROVE  \/ \E p \in Requests : /\ request'[p].stage = "revoke"
                                           /\ request'[p].user = session'[s].user
                                           /\ request'[p].sid # s
                    \/ session'[s].late
                    \/ session'[s].user \in exposed'
  BY DEF RevocationPending, Present
<1> DEFINE u == session'[s].user
<1>1. SessionStep(s) /\ session'[s] # NoSession
  BY DEF NoSession
<1>2. u \in Users /\ row'[u] \notin {None, Deleted}
  BY DEF TypeInv, SessionsOwned, SessionsHaveOwners, Present, Exists
<1>3. CASE Inserted(s)
  BY <1>3 DEF Inserted
<1>4. CASE Reproved(s)
  BY <1>2, <1>4 DEF Reproved
<1>5. CASE session'[s] = session[s] \/ Aged(s)
  <2>1. /\ Present(s) /\ u = session[s].user /\ session'[s].proof = session[s].proof
        /\ session'[s].late = session[s].late
    BY <1>5 DEF Aged, Present
  <2>2. Exists(u)
    BY <2>1 DEF SessionsHaveOwners
  <2>3. CASE row'[u].hash.pw # row[u].hash.pw
    <3>1. \/ u \in exposed'
          \/ session'[s].proof = row'[u].hash.pw
          \/ \E p \in Requests : /\ request'[p].stage = "revoke"
                                 /\ request'[p].user = u
                                 /\ request'[p].sid # s
      <4>1. PICK v \in Users : v = u
        BY <1>2
      <4>2. \/ v \in exposed'
            \/ session'[s].proof = row'[v].hash.pw
            \/ \E p \in Requests : /\ request'[p].stage = "revoke"
                                   /\ request'[p].user = v
                                   /\ request'[p].sid # s
        BY <1>2, <2>1, <2>2, <2>3, <4>1, PasswordChanges
      <4> QED
        BY <4>1, <4>2
    <3> QED
      BY <3>1
  <2>4. CASE row'[u].hash.pw = row[u].hash.pw
    <3>1. \/ \E p \in Requests : /\ request[p].stage = "revoke"
                                 /\ request[p].user = u
                                 /\ request[p].sid # s
          \/ session[s].late
          \/ u \in exposed
      BY <2>1, <2>4 DEF RevocationPending
    <3>2. CASE session[s].late
      BY <2>1, <3>2
    <3>3. CASE u \in exposed
      <4>1. PICK v \in exposed : v = u
        BY <3>3
      <4>2. Left(v, s)
        BY <4>1 DEF Left
      <4> QED
        BY <4>1, <4>2, ExposureEnds
    <3>4. CASE \E p \in Requests : /\ request[p].stage = "revoke"
                                   /\ request[p].user = u
                                   /\ request[p].sid # s
      <4>1. PICK p \in Requests : /\ request[p].stage = "revoke"
                                  /\ request[p].user = u
                                  /\ request[p].sid # s
        BY <3>4
      <4>2. Left(request[p].user, s)
        BY <4>1 DEF Left
      <4>3. request'[p] = request[p] \/ request[p].user \in exposed'
        BY <4>1, <4>2, RevocationEnds
      <4> QED
        BY <4>1, <4>3
    <3> QED
      BY <3>1, <3>2, <3>3, <3>4
  <2> QED
    BY <2>3, <2>4
<1> QED
  BY <1>1, <1>3, <1>4, <1>5 DEF SessionStep

-----------------------------------------------------------------------------
(* The theorems on sessions.                                               *)

Inv == /\ CredInv
       /\ RequestsOwnSession
       /\ SessionsHaveOwners
       /\ RevocationPending

LEMMA InvInit == Init => Inv
<1> SUFFICES ASSUME Init PROVE Inv
  OBVIOUS
<1>1. \A s \in SessionIds : ~Present(s)
  BY DEF Init, Present, NoSession
<1> QED
  BY <1>1, CredInit DEF Inv, RequestsOwnSession, SessionsHaveOwners, RevocationPending

LEMMA InvStep == Inv /\ [Next]_vars => Inv'
<1> SUFFICES ASSUME Inv, [Next]_vars PROVE Inv'
  OBVIOUS
<1>1. CredInv'
  BY CredStep DEF Inv
<1>2. TypeInv /\ TypeInv' /\ KeysChecked
  BY <1>1 DEF Inv, CredInv
<1>3. CASE UNCHANGED vars
  BY <1>1, <1>3 DEF Inv, vars, RequestsOwnSession, SessionsHaveOwners, RevocationPending,
     Present, Exists
<1>4. CASE Next
  <2>1. \A u \in Users : RowStep(u)
    BY <1>2, <1>4, RowSteps
  <2>2. \A p \in Requests : RequestStep(p)
    BY <1>2, <1>4, RequestSteps
  <2>3. \A t \in SessionIds : SessionStep(t)
    BY <1>2, <1>4, SessionSteps DEF Inv
  <2>4. RequestsOwnSession'
    BY <1>2, <2>2, <2>3, OwnSessionStep DEF Inv
  <2>5. SessionsHaveOwners'
    BY <1>2, <2>1, <2>3, OwnersStep DEF Inv
  <2>6. RevocationPending'
    BY <1>2, <1>4, <2>1, <2>3, <2>5, PendingStep DEF Inv
  <2> QED
    BY <1>1, <2>4, <2>5, <2>6 DEF Inv
<1> QED
  BY <1>3, <1>4

LEMMA Invariant == Spec => []Inv
BY InvInit, InvStep, PTL DEF Spec

\* No sign-in, however late, leaves a session of a deleted account.
THEOREM SessionsBelongToAccounts == Spec => []SessionsHaveOwners
<1>1. Inv => SessionsHaveOwners
  BY DEF Inv
<1> QED
  BY <1>1, Invariant, PTL

\* A session outlives the password it was opened with only while its
\* revocation is under way, if the change overtook the sign-in, or if the last
\* change revoked nothing.
THEOREM RevocationsReachSessions == Spec => []OnlyLateSessionsSurvive
<1>1. Inv => OnlyLateSessionsSurvive
  BY DEF Inv, RevocationPending, OnlyLateSessionsSurvive, Revoking
<1> QED
  BY <1>1, Invariant, PTL

=============================================================================
