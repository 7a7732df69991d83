---------------------------- MODULE PhotosProofs ----------------------------
(***************************************************************************)
(* What holds of Photos for any names, requests and limit.  The limit is   *)
(* kept because a request that has counted holds the lock and counted what *)
(* is there; a photo that only one request ever moved is, at each moment,  *)
(* that request's, or listed, or on its way out, and never two of these.   *)
(***************************************************************************)
EXTENDS Photos, FiniteSetTheorems, TLAPS

Held == {"copied", "moved", "smallCopied", "ready", "counted"}

\* The request has moved the photo and is going to list it; it is deleting it,
\* or will with the listing; it has moved the small version.
Holds(q, p) == q.stage \in Held /\ q.photo = p
Touches(q, p) == q.stage \in {"purge", "doomed"} /\ (Final(p) \in q.todo \/ FinalSmall(p) \in q.todo)
HasSmall(q) == q.small = TRUE \/ q.stage = "smallCopied"

RequestFits(q) ==
  /\ q.stage \notin {"idle", "doomed", "purge"} => q.photo \in Photos
  /\ q.small = TRUE => q.stage \in {"ready", "counted"}

RequestsFit == \A r \in Requests : RequestFits(request[r])

\* What a request has counted is still what there is.
CountsHold ==
  /\ IsFiniteSet(Listed) /\ WithinLimit
  /\ \A r \in Requests : request[r].stage = "counted" => lock = r /\ Cardinality(Listed) < MaxImages

\* Copied once, and by nobody who takes its addition for refused.
Sole(p) == copies[p] = 1 /\ p \notin unsure

\* Such a photo is its request's alone until it is listed, and then nobody
\* deletes it before its row.
Life(p) ==
  /\ copies[p] = 0 => /\ p \notin Listed
                      /\ \A r \in Requests : ~Holds(request[r], p) /\ ~Touches(request[r], p)
  /\ Sole(p) =>
       /\ \A r, s \in Requests : Holds(request[r], p) /\ Holds(request[s], p) => r = s
       /\ \A r \in Requests : Holds(request[r], p) =>
            /\ p \notin Listed /\ Final(p) \in bucket
            /\ HasSmall(request[r]) => FinalSmall(p) \in bucket
            /\ \A s \in Requests : ~Touches(request[s], p)
       /\ p \in Listed =>
            /\ KeysOf(p) \subseteq bucket
            /\ \A s \in Requests : Touches(request[s], p) => request[s].stage = "doomed"
Lives == \A p \in Photos : Life(p)

\* The objects a request answers for, whatever happens to the others.
Accounts(q) ==
  {o \in Object : \/ q.stage \in Held /\ o = Final(q.photo)
                  \/ q.stage \in Held /\ HasSmall(q) /\ o = FinalSmall(q.photo)
                  \/ q.stage = "purge" /\ o \in q.todo}

StraysKnown ==
  \A p \in Photos, o \in bucket :
    o \in Keys(p, TRUE) =>
      \/ p \in Listed /\ o \in KeysOf(p)
      \/ \E r \in Requests : o \in Accounts(request[r])
      \/ o \in lost
      \/ p \in raced

Inv == TypeOK /\ RequestsFit /\ CountsHold /\ Lives /\ StraysKnown

-----------------------------------------------------------------------------
(* Names of objects and requests.                                          *)

\* Objects of different names, sizes or places differ.
LEMMA Names ==
  ASSUME NEW p \in Photos, NEW q \in Photos
  PROVE  /\ Final(p) \in Object /\ FinalSmall(p) \in Object
         /\ Pending(p) \in Object /\ PendingSmall(p) \in Object
         /\ Final(p) # FinalSmall(q)
         /\ Final(p) = Final(q) => p = q
         /\ FinalSmall(p) = FinalSmall(q) => p = q
         /\ Pending(p) # Final(q) /\ Pending(p) # FinalSmall(q)
         /\ PendingSmall(p) # Final(q) /\ PendingSmall(p) # FinalSmall(q)
BY DEF Final, FinalSmall, Pending, PendingSmall, Object, Sizes

\* The keys of a photo.
LEMMA KeysAre ==
  ASSUME NEW p, NEW small \in BOOLEAN
  PROVE  /\ \A o : o \in Keys(p, TRUE) <=> o = Final(p) \/ o = FinalSmall(p)
         /\ \A o : o \in Keys(p, small) <=> o = Final(p) \/ (o = FinalSmall(p) /\ small = TRUE)
BY DEF Keys

\* No object is of two photos.
LEMMA OwnKeys ==
  ASSUME NEW p \in Photos, NEW k \in Photos, NEW o, o \in Keys(p, TRUE), o \in Keys(k, TRUE)
  PROVE  p = k
BY Names DEF Keys

LEMMA KeysStored ==
  ASSUME NEW p \in Photos
  PROVE  Keys(p, TRUE) \subseteq Object
BY Names DEF Keys

LEMMA NoRequestFits ==
  NoRequest \in Request /\ RequestFits(NoRequest) /\ NoRequest.stage = "idle"
BY DEF NoRequest, Request, RequestFits, Stages

\* The requests after a step of one of them.
LEMMA OneRequest ==
  ASSUME TypeOK, RequestsFit, NEW r \in Requests, NEW x \in Request, RequestFits(x),
         request' = [request EXCEPT ![r] = x]
  PROVE  /\ request' \in [Requests -> Request] /\ RequestsFit'
         /\ request'[r] = x /\ \A s \in Requests \ {r} : request'[s] = request[s]
BY DEF TypeOK, RequestsFit

-----------------------------------------------------------------------------
(* Steps of a request that leave the rows alone and delete nothing that is *)
(* published.                                                              *)

\* The keys of a photo that is listed.
LEMMA KeysOfAre ==
  ASSUME TypeOK, NEW p \in Photos
  PROVE  /\ \A o : o \in KeysOf(p) <=> o = Final(p) \/ (o = FinalSmall(p) /\ rows[p] = "varied")
         /\ KeysOf(p) \subseteq Object /\ KeysOf(p) \subseteq Keys(p, TRUE)
<1>1. \A o : o \in KeysOf(p) <=> o = Final(p) \/ (o = FinalSmall(p) /\ rows[p] = "varied")
  BY DEF KeysOf, Keys
<1>. QED
  BY <1>1, KeysAre, Names

\* One photo.
LEMMA LifeKept ==
  ASSUME Inv, NEW r \in Requests, NEW x \in Request, RequestFits(x),
         request' = [request EXCEPT ![r] = x],
         NEW p \in Photos, copies'[p] = copies[p], rows'[p] = rows[p],
         p \in unsure' <=> p \in unsure,
         Final(p) \in bucket => Final(p) \in bucket',
         FinalSmall(p) \in bucket => FinalSmall(p) \in bucket',
         Holds(x, p) => /\ Holds(request[r], p)
                        /\ HasSmall(x) => HasSmall(request[r]) \/ FinalSmall(p) \in bucket',
         Touches(x, p) => \/ Holds(request[r], p)
                          \/ Touches(request[r], p) /\ x.stage = request[r].stage
                          \/ p \in Listed /\ x.stage = "doomed"
  PROVE  Life(p)'
<1>1. /\ request'[r] = x /\ \A s \in Requests \ {r} : request'[s] = request[s]
      /\ copies'[p] = copies[p] /\ (Sole(p)' <=> Sole(p))
      /\ (p \in Listed' <=> p \in Listed) /\ KeysOf(p)' = KeysOf(p)
  BY OneRequest DEF Inv, Listed, KeysOf, Sole
<1>2. Life(p)
  BY DEF Inv, Lives
<1>3. Touches(x, p) => ~Holds(x, p)
  BY DEF Touches, Holds, Held
<1>4. copies[p] = 0 => /\ p \notin Listed'
                       /\ \A s \in Requests : ~Holds(request'[s], p) /\ ~Touches(request'[s], p)
  BY <1>1, <1>2 DEF Life
<1>5. ASSUME Sole(p)
      PROVE  /\ \A q, s \in Requests : Holds(request'[q], p) /\ Holds(request'[s], p) => q = s
             /\ \A q \in Requests : Holds(request'[q], p) =>
                  /\ p \notin Listed' /\ Final(p) \in bucket'
                  /\ HasSmall(request'[q]) => FinalSmall(p) \in bucket'
                  /\ \A s \in Requests : ~Touches(request'[s], p)
  BY <1>1, <1>2, <1>3, <1>5 DEF Life
<1>6. ASSUME Sole(p), p \in Listed'
      PROVE  /\ KeysOf(p)' \subseteq bucket'
             /\ \A s \in Requests : Touches(request'[s], p) => request'[s].stage = "doomed"
  <2>1. p \in Listed /\ KeysOf(p) \subseteq bucket
    BY <1>1, <1>2, <1>6 DEF Life
  <2>2. KeysOf(p)' \subseteq bucket'
    BY <1>1, <2>1, KeysOfAre DEF Inv
  <2>. QED
    BY <1>1, <1>2, <1>6, <2>1, <2>2 DEF Life
<1>. QED
  BY <1>1, <1>4, <1>5, <1>6 DEF Life

\* All of them.
LEMMA LivesKept ==
  ASSUME Inv, NEW r \in Requests, NEW x \in Request, RequestFits(x),
         request' = [request EXCEPT ![r] = x], UNCHANGED <<rows, copies, unsure>>,
         \A p \in Photos :
           /\ Final(p) \in bucket => Final(p) \in bucket'
           /\ FinalSmall(p) \in bucket => FinalSmall(p) \in bucket'
           /\ Holds(x, p) => /\ Holds(request[r], p)
                             /\ HasSmall(x) => HasSmall(request[r]) \/ FinalSmall(p) \in bucket'
           /\ Touches(x, p) => \/ Holds(request[r], p)
                               \/ Touches(request[r], p) /\ x.stage = request[r].stage
                               \/ p \in Listed /\ x.stage = "doomed"
  PROVE  Lives'
BY LifeKept DEF Lives

LEMMA StraysKept ==
  ASSUME Inv, NEW r \in Requests, NEW x \in Request, RequestFits(x),
         request' = [request EXCEPT ![r] = x], UNCHANGED <<rows, raced>>, lost \subseteq lost',
         \A p \in Photos, o \in bucket' : o \in Keys(p, TRUE) =>
           \/ o \in bucket \ Accounts(request[r])
           \/ o \in Accounts(x) \/ o \in lost'
  PROVE  StraysKnown'
<1>. SUFFICES ASSUME NEW p \in Photos, NEW o \in bucket', o \in Keys(p, TRUE)
              PROVE  \/ p \in Listed' /\ o \in KeysOf(p)'
                     \/ \E s \in Requests : o \in Accounts(request'[s])
                     \/ o \in lost'
                     \/ p \in raced'
  BY DEF StraysKnown, Keys, Final, FinalSmall
<1>1. /\ request'[r] = x /\ \A s \in Requests \ {r} : request'[s] = request[s]
      /\ Listed' = Listed /\ KeysOf(p)' = KeysOf(p)
  BY OneRequest DEF Inv, Listed, KeysOf
<1>. QED
  BY <1>1 DEF Inv, StraysKnown

LEMMA CountsKept ==
  ASSUME Inv, NEW r \in Requests, NEW x \in Request, RequestFits(x),
         request' = [request EXCEPT ![r] = x], UNCHANGED rows,
         x.stage # "counted",
         lock' = lock \/ lock = r
  PROVE  CountsHold'
<1>1. request'[r] = x /\ \A s \in Requests \ {r} : request'[s] = request[s]
  BY OneRequest DEF Inv
<1>2. Listed' = Listed
  BY DEF Listed
<1>. QED
  BY <1>1, <1>2 DEF Inv, CountsHold, WithinLimit

-----------------------------------------------------------------------------
(* The steps of the confirmation.                                          *)

\* Before the file is moved, and at the end, the request answers for nothing.
LEMMA NothingYet ==
  ASSUME NEW q, q.stage \notin Held \cup {"purge", "doomed"}
  PROVE  /\ Accounts(q) = {}
         /\ \A p : ~Holds(q, p) /\ ~Touches(q, p)
BY DEF Accounts, Holds, Touches

\* Another stage, with what the request has.
LEMMA StageFits ==
  ASSUME Inv, NEW r \in Requests, request[r].stage \notin {"idle", "doomed", "purge"},
         NEW stage \in Stages, request[r].small = TRUE => stage \in {"ready", "counted"}
  PROVE  LET x == [request[r] EXCEPT !.stage = stage] IN
         /\ x \in Request /\ RequestFits(x)
         /\ x.stage = stage /\ x.photo = request[r].photo /\ x.small = request[r].small
         /\ x.todo = request[r].todo
         /\ Goto(r, stage) => request' = [request EXCEPT ![r] = x]
<1>1. request[r] \in Request /\ RequestFits(request[r]) /\ request \in [Requests -> Request]
  BY DEF Inv, TypeOK, RequestsFit
<1>. QED
  BY <1>1 DEF Request, RequestFits, Goto

LEMMA ConfirmInv ==
  ASSUME Inv, NEW r \in Requests, NEW p \in Photos, Confirm(r, p)
  PROVE  Inv'
<1>. DEFINE x == [NoRequest EXCEPT !.stage = "sent", !.photo = p]
<1>1. x \in Request /\ RequestFits(x) /\ x.stage = "sent"
  BY DEF NoRequest, Request, RequestFits, Stages
<1>2. request' = [request EXCEPT ![r] = x] /\ request[r].stage = "idle"
      /\ UNCHANGED <<listing, lock, rows, bucket, bad, upload, copies, lost, raced, unsure>>
  BY NoRequestFits DEF Confirm, history
<1>. HIDE DEF x
<1>3. Accounts(x) = {} /\ Accounts(request[r]) = {} /\ \A k : ~Holds(x, k) /\ ~Touches(x, k)
  BY <1>1, <1>2, NothingYet DEF Held
<1>4. Lives' /\ StraysKnown' /\ CountsHold'
  BY <1>1, <1>2, <1>3, LivesKept, StraysKept, CountsKept
<1>. QED
  BY <1>1, <1>2, <1>4, OneRequest DEF Inv, TypeOK

\* The request stops here, having moved nothing.
LEMMA StopInv ==
  ASSUME Inv, NEW r \in Requests, Finish(r), request[r].stage \notin Held \cup {"purge"},
         UNCHANGED <<listing, lock, rows, bucket, bad, upload, copies, lost, raced, unsure>>
  PROVE  Inv'
<1>1. Accounts(request[r]) = {} /\ \A k : ~Holds(NoRequest, k) /\ ~Touches(NoRequest, k)
  BY NothingYet, NoRequestFits DEF Held, Accounts
<1>2. Lives' /\ StraysKnown' /\ CountsHold'
  BY <1>1, LivesKept, StraysKept, CountsKept, NoRequestFits DEF Finish
<1>. QED
  BY <1>2, OneRequest, NoRequestFits DEF Inv, TypeOK, Finish

\* It goes on, having moved nothing.
LEMMA GoOnInv ==
  ASSUME Inv, NEW r \in Requests, NEW stage \in {"editable", "inspected"}, Goto(r, stage),
         request[r].stage \in {"sent", "editable"},
         UNCHANGED <<listing, lock, rows, bucket, bad, upload, copies, lost, raced, unsure>>
  PROVE  Inv'
<1>1. PICK x : x = [request[r] EXCEPT !.stage = stage]
  OBVIOUS
<1>2. /\ stage \in Stages /\ (request[r].small = TRUE => stage \in {"ready", "counted"})
      /\ request[r].stage \notin {"idle", "doomed", "purge"}
  BY DEF Stages, Inv, RequestsFit, RequestFits
<1>3. x \in Request /\ RequestFits(x) /\ x.stage = stage /\ request' = [request EXCEPT ![r] = x]
  BY <1>1, <1>2, StageFits
<1>4. /\ Accounts(x) = {} /\ Accounts(request[r]) = {}
      /\ \A k : ~Holds(x, k) /\ ~Touches(x, k)
  BY <1>3, NothingYet DEF Held
<1>5. Lives' /\ StraysKnown' /\ CountsHold'
  BY <1>3, <1>4, LivesKept, StraysKept, CountsKept
<1>. QED
  BY <1>3, <1>5, OneRequest DEF Inv, TypeOK

\* It deletes some objects, and is done then.
LEMMA PurgeFits ==
  ASSUME NEW objects \in SUBSET Object
  PROVE  LET x == [NoRequest EXCEPT !.stage = "purge", !.todo = objects] IN
         /\ x \in Request /\ RequestFits(x) /\ x.stage = "purge" /\ x.todo = objects
         /\ Accounts(x) = objects
         /\ \A p : ~Holds(x, p)
         /\ \A p : Touches(x, p) <=> Final(p) \in objects \/ FinalSmall(p) \in objects
BY DEF NoRequest, Request, RequestFits, Stages, Accounts, Holds, Held, Touches

LEMMA CheckEditableInv ==
  ASSUME Inv, NEW r \in Requests, CheckEditable(r)
  PROVE  Inv'
BY StopInv, GoOnInv DEF CheckEditable, Held, history

LEMMA InspectInv ==
  ASSUME Inv, NEW r \in Requests, Inspect(r)
  PROVE  Inv'
<1>. DEFINE o == Pending(request[r].photo)
<1>1. /\ request[r].stage = "editable" /\ request[r].photo \in Photos
      /\ UNCHANGED <<listing, lock, rows, bucket, bad, upload, copies, lost, raced, unsure>>
  BY DEF Inspect, Inv, RequestsFit, RequestFits, history
<1>2. CASE Finish(r) \/ Goto(r, "inspected")
  BY <1>1, <1>2, StopInv, GoOnInv DEF Held
<1>3. CASE Purge(r, {o})
  <2>1. PICK x : x = [NoRequest EXCEPT !.stage = "purge", !.todo = {o}]
    OBVIOUS
  <2>2. /\ {o} \in SUBSET Object
        /\ \A p \in Photos : Final(p) # o /\ FinalSmall(p) # o
    BY <1>1, Names
  <2>. HIDE DEF o
  <2>3. /\ x \in Request /\ RequestFits(x) /\ x.stage = "purge"
        /\ \A p \in Photos : ~Holds(x, p) /\ ~Touches(x, p)
    BY <2>1, <2>2, PurgeFits
  <2>4. request' = [request EXCEPT ![r] = x]
    BY <1>3, <2>1 DEF Purge
  <2>5. Accounts(request[r]) = {}
    BY <1>1, NothingYet DEF Held
  <2>6. Lives' /\ StraysKnown' /\ CountsHold'
    BY <1>1, <2>3, <2>4, <2>5, LivesKept, StraysKept, CountsKept
  <2>. QED
    BY <1>1, <2>3, <2>4, <2>6, OneRequest DEF Inv, TypeOK
<1>. QED
  BY <1>2, <1>3 DEF Inspect

\* What a request that has moved the photo answers for.
LEMMA AccountsHeld ==
  ASSUME NEW q \in Request, RequestFits(q), q.stage \in Held
  PROVE  /\ q.photo \in Photos
         /\ \A o : o \in Accounts(q) <=> \/ o = Final(q.photo)
                                         \/ o = FinalSmall(q.photo) /\ HasSmall(q)
         /\ \A p : Holds(q, p) <=> p = q.photo
         /\ \A p : ~Touches(q, p)
<1>1. q.photo \in Photos
  BY DEF RequestFits, Held
<1>. QED
  BY <1>1, Names DEF Accounts, Holds, Touches, Held

LEMMA CopyInv ==
  ASSUME Inv, NEW r \in Requests, Copy(r)
  PROVE  Inv'
<1>0. PICK p : p = request[r].photo
  OBVIOUS
<1>1. /\ request[r].stage = "inspected" /\ p \in Photos /\ request[r].small # TRUE
      /\ UNCHANGED <<listing, lock, rows, bad, upload, lost, raced, unsure>>
  BY <1>0 DEF Copy, Inv, RequestsFit, RequestFits
<1>2. CASE Finish(r) /\ UNCHANGED <<bucket, copies>>
  BY <1>1, <1>2, StopInv DEF Held
<1>3. CASE /\ bucket' = bucket \cup {Final(p)}
           /\ copies' = [copies EXCEPT ![p] = IF @ = 0 THEN 1 ELSE 2]
           /\ Goto(r, "copied")
  <2>1. PICK x : x = [request[r] EXCEPT !.stage = "copied"]
    OBVIOUS
  <2>2. /\ x \in Request /\ RequestFits(x) /\ x.stage = "copied" /\ x.photo = p
        /\ x.small # TRUE /\ request' = [request EXCEPT ![r] = x]
    BY <1>0, <1>1, <1>3, <2>1, StageFits DEF Stages
  <2>3. /\ \A o : o \in Accounts(x) <=> o = Final(p)
        /\ \A k : (Holds(x, k) <=> k = p) /\ ~Touches(x, k)
        /\ ~HasSmall(x)
    BY <2>2, AccountsHeld DEF Held, HasSmall
  <2>4. Accounts(request[r]) = {} /\ \A k : ~Holds(request[r], k) /\ ~Touches(request[r], k)
    BY <1>1, NothingYet DEF Held
  <2>5. \A k \in Photos \ {p} : Life(k)'
    BY <1>1, <1>3, <2>2, <2>3, LifeKept DEF Inv, TypeOK
  <2>6. Life(p)'
    <3>1. copies'[p] # 0 /\ (Sole(p)' => copies[p] = 0)
      BY <1>1, <1>3 DEF Inv, TypeOK, Sole
    <3>2. /\ request'[r] = x /\ \A s \in Requests \ {r} : request'[s] = request[s]
          /\ Listed' = Listed
      BY <1>1, <2>2, OneRequest DEF Inv, Listed
    <3>3. copies[p] = 0 => /\ p \notin Listed
                           /\ \A s \in Requests : ~Holds(request[s], p) /\ ~Touches(request[s], p)
      BY <1>1 DEF Inv, Lives, Life
    <3>4. Final(p) \in bucket'
      BY <1>3
    <3>5. Sole(p)' => /\ p \notin Listed'
                      /\ \A s \in Requests : Holds(request'[s], p) => s = r
                      /\ \A s \in Requests : ~Touches(request'[s], p)
      BY <2>3, <3>1, <3>2, <3>3
    <3>. QED
      BY <2>3, <3>1, <3>2, <3>4, <3>5 DEF Life
  <2>7. Lives' /\ StraysKnown' /\ CountsHold'
    <3>1. Lives'
      BY <2>5, <2>6 DEF Lives
    <3>2. StraysKnown'
      BY <1>1, <1>3, <2>2, <2>3, <2>4, StraysKept
    <3>3. CountsHold'
      BY <1>1, <2>2, CountsKept
    <3>. QED
      BY <3>1, <3>2, <3>3
  <2>8. bucket' \subseteq Object /\ copies' \in [Photos -> 0 .. 2]
    BY <1>1, <1>3, Names DEF Inv, TypeOK
  <2>. QED
    BY <1>1, <2>2, <2>7, <2>8, OneRequest DEF Inv, TypeOK
<1>. QED
  BY <1>0, <1>2, <1>3 DEF Copy

\* A failure leaves to nobody what the request answered for.
LEMMA DropInv ==
  ASSUME Inv, NEW r \in Requests, Finish(r),
         UNCHANGED <<listing, rows, bucket, bad, upload, copies, raced, unsure>>,
         lock' = lock \/ (lock = r /\ lock' = None),
         lost \cup (Accounts(request[r]) \cap bucket) \subseteq lost', lost' \subseteq Object
  PROVE  Inv'
<1>1. \A k : ~Holds(NoRequest, k) /\ ~Touches(NoRequest, k)
  BY NothingYet, NoRequestFits DEF Held
<1>2. Lives' /\ StraysKnown' /\ CountsHold'
  BY <1>1, LivesKept, StraysKept, CountsKept, NoRequestFits DEF Finish
<1>. QED
  BY <1>2, OneRequest, NoRequestFits DEF Inv, TypeOK, Finish

LEMMA RemovePendingInv ==
  ASSUME Inv, NEW r \in Requests, RemovePending(r)
  PROVE  Inv'
<1>. DEFINE p == request[r].photo
<1>1. /\ request[r] \in Request /\ RequestFits(request[r]) /\ request[r].stage = "copied"
      /\ request[r].small # TRUE
      /\ UNCHANGED <<listing, lock, rows, bad, upload, copies, raced, unsure>>
  BY DEF RemovePending, Inv, TypeOK, RequestsFit, RequestFits
<1>2. /\ p \in Photos /\ ~HasSmall(request[r]) /\ \A k : Holds(request[r], k) <=> k = p
      /\ \A o : o \in Accounts(request[r]) <=> o = Final(p)
  <2>1. ~HasSmall(request[r]) /\ request[r].stage \in Held
    BY <1>1 DEF Held, HasSmall
  <2>. QED
    BY <1>1, <2>1, AccountsHeld
<1>3. CASE lost' = lost \cup {Final(p)} /\ Finish(r) /\ UNCHANGED bucket
  <2>1. lost \cup (Accounts(request[r]) \cap bucket) \subseteq lost' /\ lost' \subseteq Object
    BY <1>2, <1>3, Names DEF Inv, TypeOK
  <2>. QED
    BY <1>1, <1>3, <2>1, DropInv
<1>4. CASE bucket' = bucket \ {Pending(p)} /\ Goto(r, "moved") /\ UNCHANGED lost
  <2>1. PICK x : x = [request[r] EXCEPT !.stage = "moved"]
    OBVIOUS
  <2>2. /\ x \in Request /\ RequestFits(x) /\ x.stage = "moved" /\ x.photo = p
        /\ x.small # TRUE /\ request' = [request EXCEPT ![r] = x]
    BY <1>1, <1>4, <2>1, StageFits DEF Stages
  <2>. HIDE DEF p
  <2>3. /\ \A o : o \in Accounts(x) <=> o = Final(p)
        /\ \A k : (Holds(x, k) <=> k = p) /\ ~Touches(x, k)
        /\ ~HasSmall(x)
    BY <2>2, AccountsHeld DEF Held, HasSmall
  <2>4. \A k \in Photos : Final(k) # Pending(p) /\ FinalSmall(k) # Pending(p)
    BY <1>2, Names
  <2>5. Lives'
    BY <1>1, <1>2, <1>4, <2>2, <2>3, <2>4, LivesKept
  <2>6. StraysKnown' /\ CountsHold'
    BY <1>1, <1>2, <1>4, <2>2, <2>3, StraysKept, CountsKept
  <2>. QED
    BY <1>1, <1>4, <2>2, <2>5, <2>6, OneRequest DEF Inv, TypeOK
<1>. QED
  BY <1>3, <1>4 DEF RemovePending

LEMMA TakeSmallInv ==
  ASSUME Inv, NEW r \in Requests, TakeSmall(r)
  PROVE  Inv'
<1>. DEFINE p == request[r].photo
<1>1. /\ request[r] \in Request /\ RequestFits(request[r]) /\ request[r].stage = "moved"
      /\ request[r].small # TRUE
      /\ UNCHANGED <<listing, lock, rows, bad, upload, copies, lost, raced, unsure>>
  BY DEF TakeSmall, Inv, TypeOK, RequestsFit, RequestFits, history
<1>2. /\ p \in Photos /\ ~HasSmall(request[r]) /\ \A k : Holds(request[r], k) <=> k = p
      /\ \A o : o \in Accounts(request[r]) <=> o = Final(p)
  <2>1. ~HasSmall(request[r]) /\ request[r].stage \in Held
    BY <1>1 DEF Held, HasSmall
  <2>. QED
    BY <1>1, <2>1, AccountsHeld
<1>3. \A k \in Photos : Final(k) # PendingSmall(p) /\ FinalSmall(k) # PendingSmall(p)
  BY <1>2, Names
<1>4. ASSUME NEW stage \in {"smallCopied", "ready"}, Goto(r, stage)
      PROVE  \E x \in Request :
               /\ RequestFits(x) /\ x.stage = stage /\ request' = [request EXCEPT ![r] = x]
               /\ HasSmall(x) => stage = "smallCopied"
               /\ \A k : (Holds(x, k) <=> k = p) /\ ~Touches(x, k)
               /\ \A o : o \in Accounts(x) <=> \/ o = Final(p)
                                               \/ o = FinalSmall(p) /\ stage = "smallCopied"
  <2>1. PICK x : x = [request[r] EXCEPT !.stage = stage]
    OBVIOUS
  <2>2. stage \in Stages /\ request[r].stage \notin {"idle", "doomed", "purge"}
    BY <1>1 DEF Stages
  <2>3. /\ x \in Request /\ RequestFits(x) /\ x.stage = stage /\ x.photo = p
        /\ x.small # TRUE /\ request' = [request EXCEPT ![r] = x]
    BY <1>1, <1>4, <2>1, <2>2, StageFits
  <2>. HIDE DEF p
  <2>4. x.stage \in Held /\ (HasSmall(x) <=> stage = "smallCopied")
    BY <2>3 DEF Held, HasSmall
  <2>5. /\ \A k : (Holds(x, k) <=> k = p) /\ ~Touches(x, k)
        /\ \A o : o \in Accounts(x) <=> \/ o = Final(p)
                                        \/ o = FinalSmall(p) /\ HasSmall(x)
    BY <2>3, <2>4, AccountsHeld
  <2>. QED
    BY <2>3, <2>4, <2>5
<1>. HIDE DEF p
<1>5. CASE bucket' = bucket \cup {FinalSmall(p)} /\ Goto(r, "smallCopied")
  <2>1. PICK x \in Request :
          /\ RequestFits(x) /\ x.stage = "smallCopied" /\ request' = [request EXCEPT ![r] = x]
          /\ \A k : (Holds(x, k) <=> k = p) /\ ~Touches(x, k)
          /\ \A o : o \in Accounts(x) <=> o = Final(p) \/ o = FinalSmall(p)
    BY <1>4, <1>5
  <2>2. Lives'
    BY <1>1, <1>2, <1>5, <2>1, LivesKept
  <2>3. StraysKnown' /\ CountsHold'
    BY <1>1, <1>2, <1>5, <2>1, StraysKept, CountsKept
  <2>4. bucket' \subseteq Object
    BY <1>2, <1>5, Names DEF Inv, TypeOK
  <2>. QED
    BY <1>1, <2>1, <2>2, <2>3, <2>4, OneRequest DEF Inv, TypeOK
<1>6. CASE (bucket' = bucket \ {PendingSmall(p)} \/ UNCHANGED bucket) /\ Goto(r, "ready")
  <2>1. PICK x \in Request :
          /\ RequestFits(x) /\ x.stage = "ready" /\ request' = [request EXCEPT ![r] = x]
          /\ ~HasSmall(x)
          /\ \A k : (Holds(x, k) <=> k = p) /\ ~Touches(x, k)
          /\ \A o : o \in Accounts(x) <=> o = Final(p)
    BY <1>4, <1>6
  <2>2. Lives'
    BY <1>1, <1>2, <1>3, <1>6, <2>1, LivesKept
  <2>3. StraysKnown' /\ CountsHold'
    BY <1>1, <1>2, <1>6, <2>1, StraysKept, CountsKept
  <2>. QED
    BY <1>1, <1>6, <2>1, <2>2, <2>3, OneRequest DEF Inv, TypeOK
<1>. QED
  BY <1>5, <1>6 DEF TakeSmall, p

LEMMA RemovePendingSmallInv ==
  ASSUME Inv, NEW r \in Requests, RemovePendingSmall(r)
  PROVE  Inv'
<1>0. PICK p : p = request[r].photo
  OBVIOUS
<1>1. /\ request[r] \in Request /\ RequestFits(request[r]) /\ request[r].stage = "smallCopied"
      /\ request[r].small # TRUE
      /\ UNCHANGED <<listing, lock, rows, bad, upload, copies, raced, unsure>>
  BY DEF RemovePendingSmall, Inv, TypeOK, RequestsFit, RequestFits
<1>2. /\ p \in Photos /\ HasSmall(request[r]) /\ \A k : Holds(request[r], k) <=> k = p
      /\ \A o : o \in Accounts(request[r]) <=> o = Final(p) \/ o = FinalSmall(p)
  <2>1. HasSmall(request[r]) /\ request[r].stage \in Held
    BY <1>1 DEF Held, HasSmall
  <2>. QED
    BY <1>0, <1>1, <2>1, AccountsHeld
<1>3. \A k \in Photos : Final(k) # PendingSmall(p) /\ FinalSmall(k) # PendingSmall(p)
  BY <1>2, Names
<1>4. CASE /\ bucket' = bucket \ {PendingSmall(p)} /\ UNCHANGED lost
           /\ request' = [request EXCEPT ![r].stage = "ready", ![r].small = TRUE]
  <2>1. PICK x : x = [request[r] EXCEPT !.stage = "ready", !.small = TRUE]
    OBVIOUS
  <2>2. /\ x \in Request /\ RequestFits(x) /\ x.stage = "ready" /\ x.photo = p
        /\ x.small = TRUE /\ request' = [request EXCEPT ![r] = x]
    <3>1. request' = [request EXCEPT ![r] = x]
      BY <1>4, <2>1 DEF Inv, TypeOK
    <3>2. x \in Request /\ x.stage = "ready" /\ x.photo = p /\ x.small = TRUE
      BY <1>0, <1>1, <2>1 DEF Request, Stages
    <3>. QED
      BY <1>2, <3>1, <3>2 DEF RequestFits
  <2>3. HasSmall(x) /\ x.stage \in Held
    BY <2>2 DEF HasSmall, Held
  <2>4. /\ \A k : (Holds(x, k) <=> k = p) /\ ~Touches(x, k)
        /\ \A o : o \in Accounts(x) <=> o = Final(p) \/ o = FinalSmall(p)
    BY <2>2, <2>3, AccountsHeld
  <2>5. Lives'
    BY <1>1, <1>2, <1>3, <1>4, <2>2, <2>4, LivesKept
  <2>6. StraysKnown' /\ CountsHold'
    BY <1>1, <1>2, <1>4, <2>2, <2>4, StraysKept, CountsKept
  <2>. QED
    BY <1>1, <1>4, <2>2, <2>5, <2>6, OneRequest DEF Inv, TypeOK
<1>5. CASE lost' = lost \cup {FinalSmall(p)} /\ Goto(r, "ready") /\ UNCHANGED bucket
  <2>1. PICK x : x = [request[r] EXCEPT !.stage = "ready"]
    OBVIOUS
  <2>2. /\ x \in Request /\ RequestFits(x) /\ x.stage = "ready" /\ x.photo = p
        /\ x.small # TRUE /\ request' = [request EXCEPT ![r] = x]
    BY <1>0, <1>1, <1>5, <2>1, StageFits DEF Stages
  <2>3. ~HasSmall(x) /\ x.stage \in Held
    BY <2>2 DEF HasSmall, Held
  <2>4. /\ \A k : (Holds(x, k) <=> k = p) /\ ~Touches(x, k)
        /\ \A o : o \in Accounts(x) <=> o = Final(p)
    BY <2>2, <2>3, AccountsHeld
  <2>5. Lives'
    BY <1>1, <1>2, <1>5, <2>2, <2>3, <2>4, LivesKept
  <2>6. StraysKnown' /\ CountsHold'
    BY <1>1, <1>2, <1>5, <2>2, <2>4, StraysKept, CountsKept
  <2>7. lost' \subseteq Object
    BY <1>2, <1>5, Names DEF Inv, TypeOK
  <2>. QED
    BY <1>1, <1>5, <2>2, <2>5, <2>6, <2>7, OneRequest DEF Inv, TypeOK
<1>. QED
  BY <1>0, <1>4, <1>5 DEF RemovePendingSmall

\* A refused confirmation deletes what it has moved.
LEMMA RefuseInv ==
  ASSUME Inv, NEW r \in Requests, request[r].stage \in {"ready", "counted"},
         Purge(r, Keys(request[r].photo, request[r].small)),
         lock' = lock \/ (lock = r /\ lock' = None),
         UNCHANGED <<listing, rows, bucket, bad, upload, copies, lost, raced, unsure>>
  PROVE  Inv'
<1>0. PICK p, objects : p = request[r].photo /\ objects = Keys(p, request[r].small)
  OBVIOUS
<1>1. request[r] \in Request /\ RequestFits(request[r]) /\ request[r].small \in BOOLEAN
  BY DEF Inv, TypeOK, RequestsFit, Request
<1>2. request[r].stage \in Held /\ (HasSmall(request[r]) <=> request[r].small = TRUE)
  BY DEF Held, HasSmall
<1>3. /\ p \in Photos /\ \A k : Holds(request[r], k) <=> k = p
      /\ \A o : o \in Accounts(request[r]) <=> o \in objects
  BY <1>0, <1>1, <1>2, AccountsHeld, KeysAre
<1>4. /\ objects \in SUBSET Object
      /\ \A k \in Photos : Final(k) \in objects \/ FinalSmall(k) \in objects => k = p
  <2>1. \A o \in objects : o = Final(p) \/ o = FinalSmall(p)
    BY <1>0, <1>1, KeysAre
  <2>. QED
    BY <1>3, <2>1, Names
<1>5. PICK x : x = [NoRequest EXCEPT !.stage = "purge", !.todo = objects]
  OBVIOUS
<1>6. /\ x \in Request /\ RequestFits(x) /\ x.stage = "purge" /\ Accounts(x) = objects
      /\ \A k \in Photos : ~Holds(x, k) /\ (Touches(x, k) => k = p)
  BY <1>4, <1>5, PurgeFits
<1>7. request' = [request EXCEPT ![r] = x]
  BY <1>0, <1>5 DEF Purge
<1>8. Lives'
  BY <1>3, <1>6, <1>7, LivesKept
<1>9. StraysKnown'
  BY <1>3, <1>6, <1>7, StraysKept
<1>10. CountsHold'
  BY <1>6, <1>7, CountsKept
<1>. QED
  BY <1>6, <1>7, <1>8, <1>9, <1>10, OneRequest DEF Inv, TypeOK

LEMMA FailToAddInv ==
  ASSUME Inv, NEW r \in Requests, FailToAdd(r)
  PROVE  Inv'
<1>1. lock' = lock \/ (lock = r /\ lock' = None)
  BY DEF FailToAdd
<1>. QED
  BY <1>1, RefuseInv DEF FailToAdd, history

LEMMA CountInv ==
  ASSUME Inv, NEW r \in Requests, Count(r)
  PROVE  Inv'
<1>1. UNCHANGED <<listing, rows, bucket, bad, upload, copies, lost, raced, unsure>>
      /\ request[r].stage = "ready" /\ lock = None
  BY DEF Count, history
<1>2. CASE Purge(r, Keys(request[r].photo, request[r].small)) /\ UNCHANGED lock
  BY <1>1, <1>2, RefuseInv
<1>3. CASE Cardinality(Listed) < MaxImages /\ lock' = r /\ Goto(r, "counted")
  <2>0. PICK p : p = request[r].photo
    OBVIOUS
  <2>1. PICK x : x = [request[r] EXCEPT !.stage = "counted"]
    OBVIOUS
  <2>2. /\ x \in Request /\ RequestFits(x) /\ x.stage = "counted" /\ x.photo = p
        /\ x.small = request[r].small /\ request' = [request EXCEPT ![r] = x]
    BY <1>1, <1>3, <2>0, <2>1, StageFits DEF Stages
  <2>3. /\ x.stage \in Held /\ request[r].stage \in Held
        /\ (HasSmall(x) <=> HasSmall(request[r]))
    BY <1>1, <2>2 DEF Held, HasSmall
  <2>4. request[r] \in Request /\ RequestFits(request[r])
    BY DEF Inv, TypeOK, RequestsFit
  <2>5. /\ \A k : (Holds(x, k) <=> k = p) /\ ~Touches(x, k) /\ (Holds(request[r], k) <=> k = p)
        /\ Accounts(x) = Accounts(request[r])
    BY <2>0, <2>2, <2>3, <2>4, AccountsHeld
  <2>6. Lives'
    BY <1>1, <2>2, <2>3, <2>5, LivesKept
  <2>7. StraysKnown'
    BY <1>1, <2>2, <2>5, StraysKept
  <2>8. CountsHold'
    <3>1. \A s \in Requests \ {r} : request'[s].stage # "counted"
      BY <1>1, <2>2, OneRequest, PhotosAssumption DEF Inv, CountsHold
    <3>2. Listed' = Listed
      BY <1>1 DEF Listed
    <3>. QED
      BY <1>3, <3>1, <3>2 DEF Inv, CountsHold, WithinLimit
  <2>. QED
    BY <1>1, <1>3, <2>2, <2>6, <2>7, <2>8, OneRequest DEF Inv, TypeOK
<1>. QED
  BY <1>2, <1>3 DEF Count

\* The row is there: the request is over, or takes it for refused and deletes
\* the objects of a photo that is then nobody's alone.
LEMMA InsertInv ==
  ASSUME Inv, NEW r \in Requests, Insert(r)
  PROVE  Inv'
<1>0. PICK p, objects : p = request[r].photo /\ objects = Keys(p, request[r].small)
  OBVIOUS
<1>1. /\ UNCHANGED <<listing, bucket, bad, upload, copies, lost, raced>>
      /\ request[r].stage = "counted" /\ lock = r /\ lock' = None
      /\ Cardinality(Listed) < MaxImages
  BY DEF Insert, Inv, CountsHold
<1>2. CASE Purge(r, Keys(request[r].photo, request[r].small)) /\ UNCHANGED <<rows, unsure>>
  BY <1>1, <1>2, RefuseInv
<1>3. CASE /\ p \notin Listed
           /\ rows' = [rows EXCEPT ![p] = IF request[r].small THEN "varied" ELSE "plain"]
           /\ \/ Finish(r) /\ UNCHANGED unsure
              \/ Purge(r, objects) /\ unsure' = unsure \cup {p}
  <2>1. /\ request[r] \in Request /\ RequestFits(request[r]) /\ request[r].stage \in Held
        /\ request[r].small \in BOOLEAN /\ (HasSmall(request[r]) <=> request[r].small = TRUE)
    BY <1>1 DEF Inv, TypeOK, RequestsFit, Request, Held, HasSmall
  <2>2. /\ p \in Photos /\ \A k : Holds(request[r], k) <=> k = p
        /\ \A o : o \in Accounts(request[r]) <=>
                    o = Final(p) \/ (o = FinalSmall(p) /\ HasSmall(request[r]))
    BY <1>0, <2>1, AccountsHeld
  <2>3. PICK x \in Request :
          /\ RequestFits(x) /\ x.stage # "counted" /\ request' = [request EXCEPT ![r] = x]
          /\ \A k \in Photos : ~Holds(x, k) /\ (Touches(x, k) => k = p /\ p \in unsure')
          /\ \A k \in Photos \ {p} : k \in unsure' <=> k \in unsure
          /\ unsure' \in SUBSET Photos /\ (p \in unsure => p \in unsure')
    <3>1. CASE Finish(r) /\ UNCHANGED unsure
      <4>1. /\ NoRequest \in Request /\ RequestFits(NoRequest) /\ NoRequest.stage # "counted"
            /\ \A k : ~Holds(NoRequest, k) /\ ~Touches(NoRequest, k)
        BY NoRequestFits, NothingYet DEF Held
      <4>. QED
        BY <3>1, <4>1 DEF Finish, Inv, TypeOK
    <3>2. CASE Purge(r, objects) /\ unsure' = unsure \cup {p}
      <4>1. PICK x : x = [NoRequest EXCEPT !.stage = "purge", !.todo = objects]
        OBVIOUS
      <4>2. /\ objects \in SUBSET Object
            /\ \A k \in Photos : Final(k) \in objects \/ FinalSmall(k) \in objects => k = p
        <5>1. \A o \in objects : o = Final(p) \/ o = FinalSmall(p)
          BY <1>0, <2>1, KeysAre
        <5>. QED
          BY <2>2, <5>1, Names
      <4>3. /\ x \in Request /\ RequestFits(x) /\ x.stage = "purge"
            /\ \A k \in Photos : ~Holds(x, k) /\ (Touches(x, k) => k = p)
        BY <4>1, <4>2, PurgeFits
      <4>4. request' = [request EXCEPT ![r] = x]
        BY <3>2, <4>1 DEF Purge
      <4>. QED
        BY <2>2, <3>2, <4>3, <4>4 DEF Inv, TypeOK
    <3>. QED
      BY <1>3, <3>1, <3>2
  <2>others. request'[r] = x /\ \A s \in Requests \ {r} : request'[s] = request[s]
    BY <2>3, OneRequest DEF Inv
  <2>4. /\ rows' \in [Photos -> {"none", "plain", "varied"}]
        /\ \A k \in Photos \ {p} : rows'[k] = rows[k]
        /\ rows'[p] # "none" /\ (rows'[p] = "varied" <=> HasSmall(request[r]))
    BY <1>3, <2>1, <2>2 DEF Inv, TypeOK
  <2>5. Listed' = Listed \cup {p}
    BY <2>2, <2>4 DEF Listed
  <2>6. CountsHold'
    <3>1. \A s \in Requests : request'[s].stage # "counted"
      BY <1>1, <2>3, <2>others DEF Inv, CountsHold
    <3>2. /\ IsFiniteSet(Listed') /\ Cardinality(Listed') = Cardinality(Listed) + 1
          /\ Cardinality(Listed) \in Nat
      BY <1>3, <2>5, FS_AddElement, FS_CardinalityType DEF Inv, CountsHold
    <3>3. Cardinality(Listed') <= MaxImages
      BY <1>1, <3>2, PhotosAssumption
    <3>. QED
      BY <3>1, <3>2, <3>3 DEF CountsHold, WithinLimit
  <2>7. \A k \in Photos \ {p} : Life(k)'
    BY <1>1, <2>3, <2>4, LifeKept
  <2>8. KeysOf(p)' = Accounts(request[r])
    <3>1. \A o : o \in KeysOf(p)' <=> o = Final(p) \/ (o = FinalSmall(p) /\ rows'[p] = "varied")
      BY DEF KeysOf, Keys
    <3>. QED
      BY <2>2, <2>4, <3>1
  <2>9. Life(p)'
    <3>1. Life(p) /\ Holds(request[r], p) /\ (Sole(p)' => Sole(p) /\ p \notin unsure')
      BY <1>1, <2>2, <2>3 DEF Inv, Lives, Sole
    <3>2. copies[p] # 0
      BY <3>1 DEF Life
    <3>3. Sole(p) =>
            /\ \A s \in Requests \ {r} : ~Holds(request[s], p)
            /\ \A s \in Requests : ~Touches(request[s], p)
            /\ Final(p) \in bucket
            /\ HasSmall(request[r]) => FinalSmall(p) \in bucket
      BY <3>1 DEF Life
    <3>4. Sole(p)' => /\ \A s \in Requests : ~Holds(request'[s], p) /\ ~Touches(request'[s], p)
                      /\ KeysOf(p)' \subseteq bucket'
      BY <1>1, <2>2, <2>3, <2>others, <2>8, <3>1, <3>3
    <3>. QED
      BY <1>1, <3>2, <3>4 DEF Life
  <2>10. StraysKnown'
    <3>1. SUFFICES ASSUME NEW k \in Photos, NEW o \in bucket, o \in Keys(k, TRUE)
                   PROVE  \/ k \in Listed' /\ o \in KeysOf(k)'
                          \/ \E s \in Requests : o \in Accounts(request'[s])
                          \/ o \in lost
                          \/ k \in raced
      BY <1>1 DEF StraysKnown, Keys, Final, FinalSmall
    <3>2. CASE o \in Accounts(request[r])
      <4>1. k = p
        <5>1. o \in Keys(p, TRUE)
          BY <2>2, <3>2, KeysAre
        <5>. QED
          BY <2>2, <3>1, <5>1, OwnKeys
      <4>. QED
        BY <2>5, <2>8, <3>2, <4>1
    <3>3. CASE o \notin Accounts(request[r])
      <4>1. k \in Listed => k \in Listed' /\ k # p /\ KeysOf(k)' = KeysOf(k)
        BY <1>3, <2>4, <2>5 DEF KeysOf
      <4>. QED
        BY <2>others, <3>1, <3>3, <4>1 DEF Inv, StraysKnown
    <3>. QED
      BY <3>2, <3>3
  <2>. QED
    BY <1>1, <2>3, <2>4, <2>6, <2>7, <2>9, <2>10, OneRequest
       DEF Inv, TypeOK, Lives
<1>. QED
  BY <1>0, <1>2, <1>3 DEF Insert

-----------------------------------------------------------------------------
(* The deletions.                                                          *)

LEMMA DeleteImageInv ==
  ASSUME Inv, NEW r \in Requests, NEW p \in Photos, DeleteImage(r, p)
  PROVE  Inv'
<1>0. PICK objects : objects = KeysOf(p)
  OBVIOUS
<1>1. /\ UNCHANGED <<listing, lock, bucket, bad, upload, copies, lost, raced, unsure>>
      /\ request[r] = NoRequest /\ p \in Listed /\ Purge(r, objects)
      /\ rows' = [rows EXCEPT ![p] = "none"]
  BY <1>0 DEF DeleteImage, history
<1>2. /\ objects \in SUBSET Object
      /\ \A k \in Photos : Final(k) \in objects \/ FinalSmall(k) \in objects => k = p
      /\ \A k \in Photos : \A o \in Keys(k, TRUE) : o \in objects => k = p
  <2>1. objects \subseteq Object /\ objects \subseteq Keys(p, TRUE)
    BY <1>0, KeysOfAre DEF Inv
  <2>2. \A k \in Photos : Final(k) \in Keys(k, TRUE) /\ FinalSmall(k) \in Keys(k, TRUE)
    BY KeysAre
  <2>. QED
    BY <2>1, <2>2, OwnKeys
<1>3. PICK x : x = [NoRequest EXCEPT !.stage = "purge", !.todo = objects]
  OBVIOUS
<1>4. /\ x \in Request /\ RequestFits(x) /\ x.stage = "purge" /\ Accounts(x) = objects
      /\ \A k \in Photos : ~Holds(x, k) /\ (Touches(x, k) => k = p)
  BY <1>2, <1>3, PurgeFits
<1>5. /\ request' = [request EXCEPT ![r] = x]
      /\ request'[r] = x /\ \A s \in Requests \ {r} : request'[s] = request[s]
  BY <1>1, <1>3, <1>4, OneRequest DEF Purge, Inv
<1>6. /\ rows' \in [Photos -> {"none", "plain", "varied"}]
      /\ \A k \in Photos \ {p} : rows'[k] = rows[k]
      /\ rows'[p] = "none"
  BY <1>1 DEF Inv, TypeOK
<1>7. Listed' = Listed \ {p}
  BY <1>6 DEF Listed
<1>8. CountsHold'
  <2>1. /\ IsFiniteSet(Listed') /\ Cardinality(Listed') = Cardinality(Listed) - 1
        /\ Cardinality(Listed) \in Nat
    BY <1>1, <1>7, FS_RemoveElement, FS_CardinalityType DEF Inv, CountsHold
  <2>. QED
    BY <1>1, <1>4, <1>5, <2>1, PhotosAssumption DEF Inv, CountsHold, WithinLimit
<1>9. \A k \in Photos \ {p} : Life(k)'
  BY <1>1, <1>4, <1>5, <1>6, LifeKept
<1>10. Life(p)'
  <2>1. Life(p) /\ p \notin Listed' /\ (Sole(p)' <=> Sole(p))
    BY <1>1, <1>7 DEF Inv, Lives, Sole
  <2>2. copies[p] # 0 /\ (Sole(p) => \A s \in Requests : ~Holds(request[s], p))
    BY <1>1, <2>1 DEF Life
  <2>3. Sole(p) => \A s \in Requests : ~Holds(request'[s], p)
    BY <1>4, <1>5, <2>2
  <2>. QED
    BY <1>1, <2>1, <2>2, <2>3 DEF Life
<1>11. StraysKnown'
  <2>1. SUFFICES ASSUME NEW k \in Photos, NEW o \in bucket, o \in Keys(k, TRUE)
                 PROVE  \/ k \in Listed' /\ o \in KeysOf(k)'
                        \/ \E s \in Requests : o \in Accounts(request'[s])
                        \/ o \in lost
                        \/ k \in raced
    BY <1>1 DEF StraysKnown, Keys, Final, FinalSmall
  <2>2. CASE k = p /\ o \in objects
    BY <1>4, <1>5, <2>2
  <2>3. CASE ~(k = p /\ o \in objects)
    <3>1. k \in Listed /\ o \in KeysOf(k) => k # p
      BY <1>0, <2>3
    <3>2. k # p => (k \in Listed => k \in Listed') /\ KeysOf(k)' = KeysOf(k)
      BY <1>6, <1>7 DEF KeysOf
    <3>3. Accounts(request[r]) = {}
      BY <1>1, NothingYet, NoRequestFits DEF Held
    <3>. QED
      BY <1>5, <2>1, <3>1, <3>2, <3>3 DEF Inv, StraysKnown
  <2>. QED
    BY <2>2, <2>3
<1>. QED
  BY <1>1, <1>4, <1>5, <1>6, <1>8, <1>9, <1>10, <1>11, OneRequest DEF Inv, TypeOK, Lives

LEMMA ReadKeysInv ==
  ASSUME Inv, NEW r \in Requests, ReadKeys(r)
  PROVE  Inv'
<1>0. PICK objects : objects = UNION {KeysOf(p) : p \in Listed}
  OBVIOUS
<1>1. /\ UNCHANGED <<listing, lock, rows, bucket, bad, upload, copies, lost, raced, unsure>>
      /\ request[r] = NoRequest
  BY DEF ReadKeys, history
<1>2. Listed \subseteq Photos
  BY DEF Listed
<1>3. /\ objects \subseteq Object
      /\ \A k \in Photos : Final(k) \in objects \/ FinalSmall(k) \in objects => k \in Listed
  <2>1. \A p \in Photos : KeysOf(p) \subseteq Object /\ KeysOf(p) \subseteq Keys(p, TRUE)
    BY KeysOfAre DEF Inv
  <2>2. \A k \in Photos : Final(k) \in Keys(k, TRUE) /\ FinalSmall(k) \in Keys(k, TRUE)
    BY KeysAre
  <2>3. ASSUME NEW o \in objects
        PROVE  o \in Object /\ \E p \in Listed : o \in Keys(p, TRUE)
    BY <1>0, <1>2, <2>1
  <2>4. ASSUME NEW k \in Photos, NEW o \in objects, o \in Keys(k, TRUE)
        PROVE  k \in Listed
    BY <1>2, <2>3, <2>4, OwnKeys
  <2>. QED
    BY <2>2, <2>3, <2>4
<1>4. PICK x : x = [NoRequest EXCEPT !.stage = "doomed", !.todo = objects]
  OBVIOUS
<1>5. /\ x \in Request /\ RequestFits(x) /\ x.stage = "doomed" /\ Accounts(x) = {}
      /\ \A k \in Photos : ~Holds(x, k) /\ (Touches(x, k) => k \in Listed)
  <2>1. x \in Request /\ x.stage = "doomed" /\ x.todo = objects /\ x.small # TRUE
    BY <1>3, <1>4 DEF NoRequest, Request, Stages
  <2>2. RequestFits(x) /\ Accounts(x) = {} /\ \A k \in Photos : ~Holds(x, k)
    BY <2>1 DEF RequestFits, Accounts, Holds, Held
  <2>. QED
    BY <1>3, <2>1, <2>2 DEF Touches
<1>6. request' = [request EXCEPT ![r] = x] /\ Accounts(request[r]) = {}
  BY <1>0, <1>1, <1>4, NothingYet, NoRequestFits DEF ReadKeys, Held
<1>7. Lives' /\ StraysKnown' /\ CountsHold'
  BY <1>1, <1>5, <1>6, LivesKept, StraysKept, CountsKept
<1>. QED
  BY <1>1, <1>5, <1>6, <1>7, OneRequest DEF Inv, TypeOK

LEMMA DropListingInv ==
  ASSUME Inv, NEW r \in Requests, DropListing(r)
  PROVE  Inv'
<1>0. PICK objects : objects = request[r].todo
  OBVIOUS
<1>1. /\ UNCHANGED <<lock, bucket, bad, upload, copies, lost, unsure>>
      /\ request[r].stage = "doomed" /\ lock = None /\ listing' = "deleted"
      /\ rows' = [p \in Photos |-> "none"] /\ Purge(r, objects)
      /\ raced' = raced \cup {p \in Listed : ~(KeysOf(p) \subseteq objects)}
  BY <1>0 DEF DropListing
<1>2. objects \in SUBSET Object /\ Listed \subseteq Photos
  BY <1>0 DEF Inv, TypeOK, Request, Listed
<1>3. PICK x : x = [NoRequest EXCEPT !.stage = "purge", !.todo = objects]
  OBVIOUS
<1>4. /\ x \in Request /\ RequestFits(x) /\ x.stage = "purge" /\ Accounts(x) = objects
      /\ \A k : ~Holds(x, k) /\ (Touches(x, k) => Touches(request[r], k))
  BY <1>0, <1>1, <1>2, <1>3, PurgeFits DEF Touches
<1>5. /\ request' = [request EXCEPT ![r] = x]
      /\ request'[r] = x /\ \A s \in Requests \ {r} : request'[s] = request[s]
  BY <1>1, <1>3, <1>4, OneRequest DEF Purge, Inv
<1>6. Listed' = {}
  BY <1>1 DEF Listed
<1>7. CountsHold'
  <2>1. \A s \in Requests : request'[s].stage # "counted"
    BY <1>1, <1>4, <1>5, PhotosAssumption DEF Inv, CountsHold
  <2>. QED
    BY <1>6, <2>1, FS_EmptySet, PhotosAssumption DEF CountsHold, WithinLimit
<1>8. ASSUME NEW p \in Photos
      PROVE  Life(p)'
  <2>1. Life(p) /\ p \notin Listed' /\ copies'[p] = copies[p] /\ (Sole(p)' <=> Sole(p))
    BY <1>1, <1>6 DEF Inv, Lives, Sole
  <2>2. \A s \in Requests : /\ Touches(request'[s], p) => Touches(request[s], p)
                            /\ Holds(request'[s], p) => Holds(request[s], p) /\ s # r
    BY <1>4, <1>5
  <2>3. Sole(p) =>
          /\ \A q, s \in Requests : Holds(request'[q], p) /\ Holds(request'[s], p) => q = s
          /\ \A q \in Requests : Holds(request'[q], p) =>
               /\ Final(p) \in bucket
               /\ HasSmall(request'[q]) => FinalSmall(p) \in bucket
               /\ \A s \in Requests : ~Touches(request'[s], p)
    BY <1>5, <2>1, <2>2 DEF Life
  <2>. QED
    BY <1>1, <2>1, <2>2, <2>3 DEF Life
<1>9. StraysKnown'
  <2>1. SUFFICES ASSUME NEW k \in Photos, NEW o \in bucket, o \in Keys(k, TRUE)
                 PROVE  \/ \E s \in Requests : o \in Accounts(request'[s])
                        \/ o \in lost
                        \/ k \in raced'
    BY <1>1 DEF StraysKnown, Keys, Final, FinalSmall
  <2>2. CASE k \in Listed /\ o \in KeysOf(k)
    BY <1>1, <1>4, <1>5, <2>2
  <2>3. CASE ~(k \in Listed /\ o \in KeysOf(k))
    <3>1. Accounts(request[r]) = {}
      BY <1>1 DEF Accounts, Held
    <3>. QED
      BY <1>1, <1>5, <2>1, <2>3, <3>1 DEF Inv, StraysKnown
  <2>. QED
    BY <2>2, <2>3
<1>10. rows' \in [Photos -> {"none", "plain", "varied"}] /\ raced' \subseteq Photos
  BY <1>1, <1>2 DEF Inv, TypeOK
<1>. QED
  BY <1>1, <1>4, <1>5, <1>7, <1>8, <1>9, <1>10, OneRequest DEF Inv, TypeOK, Lives

LEMMA DeleteObjectInv ==
  ASSUME Inv, NEW r \in Requests, NEW o \in request[r].todo, DeleteObject(r, o)
  PROVE  Inv'
<1>1. /\ UNCHANGED <<listing, lock, rows, bad, upload, copies, raced, unsure>>
      /\ request[r].stage = "purge"
  BY DEF DeleteObject
<1>2. request[r] \in Request /\ RequestFits(request[r]) /\ o \in Object
  BY DEF Inv, TypeOK, RequestsFit, Request
<1>3. PICK x : x = [request[r] EXCEPT !.todo = request[r].todo \ {o}]
  OBVIOUS
<1>4. /\ x \in Request /\ x.stage = "purge" /\ x.todo = request[r].todo \ {o}
      /\ x.small = request[r].small /\ request' = [request EXCEPT ![r] = x]
  BY <1>1, <1>2, <1>3 DEF DeleteObject, Inv, TypeOK, Request
<1>5. /\ RequestFits(x)
      /\ \A k : ~Holds(x, k) /\ (Touches(x, k) => Touches(request[r], k))
      /\ Accounts(x) = Accounts(request[r]) \ {o}
  BY <1>1, <1>2, <1>4 DEF RequestFits, Holds, Held, Touches, Accounts
<1>6. request'[r] = x /\ \A s \in Requests \ {r} : request'[s] = request[s]
  BY <1>4, <1>5, OneRequest DEF Inv
<1>7. \/ bucket' = bucket \ {o} /\ lost' = lost
      \/ bucket' = bucket /\ lost' = lost \cup ({o} \cap bucket)
  BY DEF DeleteObject
<1>8. ASSUME NEW p \in Photos
      PROVE  Life(p)'
  <2>1. CASE o # Final(p) /\ o # FinalSmall(p)
    BY <1>1, <1>4, <1>5, <1>7, <2>1, LifeKept
  <2>2. CASE o = Final(p) \/ o = FinalSmall(p)
    <3>1. Touches(request[r], p) /\ Life(p) /\ (Sole(p)' <=> Sole(p))
      BY <1>1, <2>2 DEF Touches, Inv, Lives, Sole
    <3>2. /\ copies[p] # 0
          /\ Sole(p) => p \notin Listed /\ \A s \in Requests : ~Holds(request[s], p)
      BY <1>1, <3>1 DEF Life
    <3>3. Sole(p) => p \notin Listed' /\ \A s \in Requests : ~Holds(request'[s], p)
      BY <1>1, <1>5, <1>6, <3>2 DEF Listed
    <3>. QED
      BY <1>1, <3>1, <3>2, <3>3 DEF Life
  <2>. QED
    BY <2>1, <2>2
<1>9. StraysKnown'
  BY <1>1, <1>4, <1>5, <1>7, StraysKept
<1>10. CountsHold'
  BY <1>1, <1>4, <1>5, CountsKept
<1>11. bucket' \subseteq Object /\ lost' \subseteq Object
  BY <1>2, <1>7 DEF Inv, TypeOK
<1>. QED
  BY <1>1, <1>4, <1>5, <1>8, <1>9, <1>10, <1>11, OneRequest DEF Inv, TypeOK, Lives

LEMMA AnswerInv ==
  ASSUME Inv, NEW r \in Requests, Answer(r)
  PROVE  Inv'
<1>1. Accounts(request[r]) = {}
  BY DEF Answer, Accounts, Held
<1>2. lost \cup (Accounts(request[r]) \cap bucket) \subseteq lost' /\ lost' \subseteq Object
  BY <1>1 DEF Answer, history, Inv, TypeOK
<1>. QED
  BY <1>2, DropInv DEF Answer, history

LEMMA AbortInv ==
  ASSUME Inv, NEW r \in Requests, Abort(r)
  PROVE  Inv'
<1>1. request[r] \in Request /\ RequestFits(request[r])
  BY DEF Inv, TypeOK, RequestsFit
<1>2. CASE request[r].stage \in Held
  <2>1. request[r].photo \in Photos /\ Responsible(request[r]) = Keys(request[r].photo, TRUE)
    BY <1>1, <1>2, AccountsHeld DEF Responsible, Held
  <2>2. Accounts(request[r]) \subseteq Responsible(request[r])
    BY <1>1, <1>2, <2>1, AccountsHeld, KeysAre
  <2>3. Responsible(request[r]) \subseteq Object
    BY <2>1, KeysStored
  <2>4. lost \cup (Accounts(request[r]) \cap bucket) \subseteq lost' /\ lost' \subseteq Object
    BY <1>2, <2>2, <2>3 DEF Abort, Held, Inv, TypeOK
  <2>. QED
    BY <2>4, DropInv DEF Abort
<1>3. CASE request[r].stage \notin Held
  <2>1. /\ Accounts(request[r]) = IF request[r].stage = "purge" THEN request[r].todo ELSE {}
        /\ Responsible(request[r]) = request[r].todo /\ request[r].todo \subseteq Object
    BY <1>1, <1>3 DEF Accounts, Responsible, Held, Request
  <2>2. lost \cup (Accounts(request[r]) \cap bucket) \subseteq lost' /\ lost' \subseteq Object
    BY <2>1 DEF Abort, Inv, TypeOK
  <2>. QED
    BY <2>2, DropInv DEF Abort
<1>. QED
  BY <1>2, <1>3

-----------------------------------------------------------------------------
(* The steps of nobody's request.                                          *)

LEMMA OutsideInv ==
  ASSUME Inv, UNCHANGED <<lock, rows, request, copies, lost, raced, unsure>>,
         listing' \in {"open", "removed", "deleted"}, bucket' \subseteq Object,
         bad' \subseteq Object, upload' \in [Photos -> {"none", "signed", "used"}],
         \A p \in Photos : /\ Final(p) \in bucket' <=> Final(p) \in bucket
                           /\ FinalSmall(p) \in bucket' <=> FinalSmall(p) \in bucket
  PROVE  Inv'
<1>1. Listed' = Listed /\ \A p : KeysOf(p)' = KeysOf(p)
  BY DEF Listed, KeysOf
<1>2. CountsHold'
  BY <1>1 DEF Inv, CountsHold, WithinLimit
<1>3. ASSUME NEW p \in Photos
      PROVE  Life(p)'
  <2>1. Sole(p)' <=> Sole(p)
    BY DEF Sole
  <2>2. p \in Listed /\ Sole(p) => KeysOf(p)' \subseteq bucket'
    BY <1>1, KeysOfAre DEF Inv, Lives, Life
  <2>. QED
    BY <1>1, <2>1, <2>2 DEF Inv, Lives, Life
<1>4. StraysKnown'
  <2>1. SUFFICES ASSUME NEW k \in Photos, NEW o \in bucket', o \in Keys(k, TRUE)
                 PROVE  \/ k \in Listed /\ o \in KeysOf(k)
                        \/ \E s \in Requests : o \in Accounts(request[s])
                        \/ o \in lost
                        \/ k \in raced
    BY <1>1 DEF StraysKnown, Keys, Final, FinalSmall
  <2>2. o \in bucket
    BY <2>1, KeysAre
  <2>. QED
    BY <2>1, <2>2 DEF Inv, StraysKnown
<1>. QED
  BY <1>2, <1>3, <1>4 DEF Inv, TypeOK, RequestsFit, Lives

LEMMA UploadsInv ==
  ASSUME Inv, NEW p \in Photos, Prepare(p) \/ Upload(p)
  PROVE  Inv'
<1>1. UNCHANGED <<listing, lock, rows, request, copies, lost, raced, unsure>>
  BY DEF Prepare, Upload, history
<1>2. upload' \in [Photos -> {"none", "signed", "used"}]
  BY DEF Prepare, Upload, Inv, TypeOK
<1>3. \E O \in SUBSET {Pending(p), PendingSmall(p)} :
        bucket' = bucket \cup O /\ bad' \subseteq bad \cup O
  <2>1. CASE Prepare(p)
    <3>1. bucket' = bucket \cup {} /\ bad' \subseteq bad \cup {}
      BY <2>1 DEF Prepare
    <3>. QED
      BY <3>1
  <2>2. CASE Upload(p)
    <3>1. PICK O \in {{Pending(p)}, {Pending(p), PendingSmall(p)}} : \E B \in SUBSET O :
            bucket' = bucket \cup O /\ bad' = bad \cup B
      BY <2>2 DEF Upload
    <3>2. O \in SUBSET {Pending(p), PendingSmall(p)} /\ bad' \subseteq bad \cup O
      BY <3>1
    <3>. QED
      BY <3>1, <3>2
  <2>. QED
    BY <2>1, <2>2
<1>4. /\ bucket' \subseteq Object /\ bad' \subseteq Object
      /\ \A k \in Photos : /\ Final(k) \in bucket' <=> Final(k) \in bucket
                           /\ FinalSmall(k) \in bucket' <=> FinalSmall(k) \in bucket
  BY <1>3, Names DEF Inv, TypeOK
<1>. QED
  BY <1>1, <1>2, <1>4, OutsideInv DEF Inv, TypeOK

LEMMA ExpireInv ==
  ASSUME Inv, NEW o \in bucket, Expire(o)
  PROVE  Inv'
<1>1. \A k : Final(k) # o /\ FinalSmall(k) # o
  BY DEF Expire, Final, FinalSmall
<1>2. /\ bucket' \subseteq Object
      /\ \A k \in Photos : /\ Final(k) \in bucket' <=> Final(k) \in bucket
                           /\ FinalSmall(k) \in bucket' <=> FinalSmall(k) \in bucket
  BY <1>1 DEF Expire, Inv, TypeOK
<1>. QED
  BY <1>2, OutsideInv DEF Expire, history, Inv, TypeOK

LEMMA ModerateInv ==
  ASSUME Inv, Moderate
  PROVE  Inv'
BY OutsideInv DEF Moderate, history, Inv, TypeOK

-----------------------------------------------------------------------------
(* The theorems.                                                           *)

LEMMA InitInv == Init => Inv
<1>. SUFFICES ASSUME Init
              PROVE  Inv
  OBVIOUS
<1>1. TypeOK
  BY NoRequestFits DEF Init, TypeOK
<1>2. RequestsFit
  BY NoRequestFits DEF Init, RequestsFit
<1>3. Listed = {}
  BY DEF Init, Listed
<1>4. CountsHold
  BY <1>3, NoRequestFits, FS_EmptySet, PhotosAssumption DEF Init, CountsHold, WithinLimit
<1>5. Lives
  BY <1>3, NoRequestFits, NothingYet DEF Init, Lives, Life, Held
<1>6. StraysKnown
  BY DEF Init, StraysKnown
<1>. QED
  BY <1>1, <1>2, <1>4, <1>5, <1>6 DEF Inv

LEMMA NextInv == Inv /\ [Next]_vars => Inv'
<1>. SUFFICES ASSUME Inv, [Next]_vars
              PROVE  Inv'
  OBVIOUS
<1>1. CASE UNCHANGED vars
  BY <1>1, OutsideInv DEF vars, history, Inv, TypeOK
<1>2. ASSUME NEW p \in Photos, Prepare(p) \/ Upload(p)
      PROVE  Inv'
  BY <1>2, UploadsInv
<1>3. ASSUME NEW o \in bucket, Expire(o)
      PROVE  Inv'
  BY <1>3, ExpireInv
<1>4. ASSUME NEW r \in Requests, NEW p \in Photos, Confirm(r, p) \/ DeleteImage(r, p)
      PROVE  Inv'
  BY <1>4, ConfirmInv, DeleteImageInv
<1>5. ASSUME NEW r \in Requests,
             \/ CheckEditable(r) \/ Inspect(r) \/ Copy(r) \/ RemovePending(r)
             \/ TakeSmall(r) \/ RemovePendingSmall(r) \/ Count(r)
             \/ Insert(r) \/ FailToAdd(r)
      PROVE  Inv'
  BY <1>5, CheckEditableInv, InspectInv, CopyInv, RemovePendingInv, TakeSmallInv,
     RemovePendingSmallInv, CountInv, InsertInv, FailToAddInv
<1>6. ASSUME NEW r \in Requests, ReadKeys(r) \/ DropListing(r) \/ Answer(r) \/ Abort(r)
      PROVE  Inv'
  BY <1>6, ReadKeysInv, DropListingInv, AnswerInv, AbortInv
<1>7. ASSUME NEW r \in Requests, NEW o \in request[r].todo, DeleteObject(r, o)
      PROVE  Inv'
  BY <1>7, DeleteObjectInv
<1>8. CASE Moderate
  BY <1>8, ModerateInv
<1>. QED
  BY <1>1, <1>2, <1>3, <1>4, <1>5, <1>6, <1>7, <1>8 DEF Next

\* The invariant holds in every reachable state.
THEOREM Invariant == Spec => []Inv
BY InitInv, NextInv, PTL DEF Spec

\* The tables, the bucket and the requests keep their shapes.
THEOREM PhotosTyping == Spec => []TypeOK
<1>1. Inv => TypeOK
  BY DEF Inv
<1>. QED
  BY <1>1, Invariant, PTL

\* No listing has more photos than the limit, however many confirmations and
\* deletions cross (AddImage counts and inserts holding the listing's row).
THEOREM LimitKept == Spec => []WithinLimit
<1>1. Inv => WithinLimit
  BY DEF Inv, CountsHold
<1>. QED
  BY <1>1, Invariant, PTL

\* A listed photo that one request alone copied, and whose addition was not
\* committed without an answer, has all its objects, whatever the deletions
\* under way and the other failures (ConfirmUpload, DeleteImage).
THEOREM ListedPhotosShown == Spec => []ListedPhotosStored
<1>1. ASSUME Inv, NEW p \in Listed, copies[p] < 2, p \notin unsure
      PROVE  KeysOf(p) \subseteq bucket
  <2>1. p \in Photos /\ copies[p] \in {0, 1}
    BY <1>1 DEF Listed, Inv, TypeOK
  <2>. QED
    BY <1>1, <2>1 DEF Inv, Lives, Life, Sole
<1>2. Inv => ListedPhotosStored
  BY <1>1 DEF ListedPhotosStored
<1>. QED
  BY <1>2, Invariant, PTL

\* A published object that no listing shows is on its way, or out, or was left
\* by a failure or by a deletion of the listing that crossed its addition.
THEOREM StraysAccountedFor == Spec => []StraysExplained
<1>1. ASSUME NEW q \in Request, RequestFits(q), NEW o \in Accounts(q)
      PROVE  o \in Responsible(q)
  <2>1. CASE q.stage \in Held
    BY <1>1, <2>1, AccountsHeld, KeysAre DEF Responsible, Held
  <2>2. CASE q.stage \notin Held
    BY <1>1, <2>2 DEF Accounts, Responsible, Held
  <2>. QED
    BY <2>1, <2>2
<1>2. Inv => StraysExplained
  BY <1>1 DEF Inv, TypeOK, RequestsFit, StraysKnown, StraysExplained
<1>. QED
  BY <1>2, Invariant, PTL
=============================================================================
