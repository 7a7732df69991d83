------------------------------- MODULE Photos -------------------------------
(***************************************************************************)
(* The photos of one listing: rows of listing_images on one side, objects  *)
(* of an S3 bucket on the other, and no transaction over both.  The        *)
(* browser uploads to pending/ with a signed address; the confirmation     *)
(* checks the file, moves it to listings/ (a copy, then a deletion) with   *)
(* its smaller version, and inserts the row; a deletion removes the rows   *)
(* and then the objects.  Each action is one call to the bucket or one     *)
(* statement, and any of them can be the last of its request.              *)
(*                                                                         *)
(* A definition introduced by "Slip" is the definition below it with a     *)
(* mistake in it, which some property must notice.                         *)
(***************************************************************************)
EXTENDS Naturals, FiniteSets

CONSTANTS
  Photos,     \* random names the server gives to uploads
  MaxImages,  \* photos a listing may have
  Requests,   \* requests in flight at once
  None        \* "no request"

ASSUME PhotosAssumption == MaxImages \in Nat \ {0} /\ None \notin Requests

VARIABLES
  listing,    \* open, removed by the moderation, or deleted
  lock,       \* the transaction that holds the listing's row
  rows,       \* listing_images: is the photo there, and with its small version
  bucket,     \* the objects stored
  bad,        \* those that are not an image the server accepts
  upload,     \* of each name: not given yet, signed or used
  request,    \* what each request has done so far
  copies,     \* history: photos copied once, and those copied again
  lost,       \* history: objects a failure left to nobody
  raced,      \* history: photos added while their listing was being deleted
  unsure      \* history: photos whose addition was committed and seen as failed

history == <<copies, lost, raced, unsure>>
vars == <<listing, lock, rows, bucket, bad, upload, request, history>>

Sizes == {"full", "small"}
Object == {"pending", "final"} \X Photos \X Sizes

Pending(p) == <<"pending", p, "full">>
PendingSmall(p) == <<"pending", p, "small">>
Final(p) == <<"final", p, "full">>
FinalSmall(p) == <<"final", p, "small">>

\* ImageKeys: the photo, and its small version if it has one.
Keys(p, small) == {Final(p)} \cup (IF small THEN {FinalSmall(p)} ELSE {})

Listed == {p \in Photos : rows[p] # "none"}
KeysOf(p) == Keys(p, rows[p] = "varied")

Stages == {"idle", "sent", "editable", "inspected", "copied", "moved", "smallCopied",
           "ready", "counted", "doomed", "purge"}
Request == [stage : Stages, photo : Photos \cup {None}, small : BOOLEAN,
            todo : SUBSET Object]
NoRequest == [stage |-> "idle", photo |-> None, small |-> FALSE, todo |-> {}]

Goto(r, stage) == request' = [request EXCEPT ![r].stage = stage]
Finish(r) == request' = [request EXCEPT ![r] = NoRequest]

\* DeleteObjects, as the last thing the request does.
Purge(r, objects) ==
  request' = [request EXCEPT ![r] = [NoRequest EXCEPT !.stage = "purge", !.todo = objects]]

\* The objects under listings/ that the request is still to list or delete.
Responsible(q) ==
  IF q.stage \in {"copied", "moved", "smallCopied", "ready", "counted"}
    THEN Keys(q.photo, TRUE) ELSE q.todo

-----------------------------------------------------------------------------
(* The upload.                                                             *)

\* PrepareUpload: a new random name, under which the browser may upload.
Prepare(p) ==
  /\ listing = "open"
  /\ Cardinality(Listed) < MaxImages
  /\ upload[p] = "none"
  /\ upload' = [upload EXCEPT ![p] = "signed"]
  /\ UNCHANGED <<listing, lock, rows, bucket, bad, request, history>>

\* The browser sends the file and, at the same time, its smaller version, of
\* which it ignores the failures; only the server looks at what they are.
Upload(p) ==
  /\ upload[p] = "signed"
  /\ upload' = [upload EXCEPT ![p] = "used"]
  /\ \E O \in {{Pending(p)}, {Pending(p), PendingSmall(p)}} : \E B \in SUBSET O :
       bucket' = bucket \cup O /\ bad' = bad \cup B
  /\ UNCHANGED <<listing, lock, rows, request, history>>

\* The lifecycle rule of the bucket, a day later.
Expire(o) ==
  /\ o \in bucket
  /\ o[1] = "pending"
  /\ bucket' = bucket \ {o}
  /\ UNCHANGED <<listing, lock, rows, bad, upload, request, history>>

-----------------------------------------------------------------------------
(* ConfirmUpload.                                                          *)

\* The browser calls it when the upload is over; it may call it again.
Confirm(r, p) ==
  /\ request[r] = NoRequest
  /\ upload[p] = "used"
  /\ request' = [request EXCEPT ![r] = [NoRequest EXCEPT !.stage = "sent", !.photo = p]]
  /\ UNCHANGED <<listing, lock, rows, bucket, bad, upload, history>>

\* requireEditable: a listing the moderation removed takes no photo.
CheckEditable(r) ==
  /\ request[r].stage = "sent"
  /\ \/ listing = "open" /\ Goto(r, "editable")
     \/ listing # "open" /\ Finish(r)
  /\ UNCHANGED <<listing, lock, rows, bucket, bad, upload, history>>

\* Size, type and first bytes of the file; one that is not right is deleted.
Inspect(r) ==
  LET o == Pending(request[r].photo) IN
  /\ request[r].stage = "editable"
  /\ \/ o \in bucket \ bad /\ Goto(r, "inspected")
     \/ o \in bucket \cap bad /\ Purge(r, {o})
     \/ o \notin bucket /\ Finish(r)
  /\ UNCHANGED <<listing, lock, rows, bucket, bad, upload, history>>

\* Move, first half.
Copy(r) ==
  LET p == request[r].photo IN
  /\ request[r].stage = "inspected"
  /\ \/ /\ Pending(p) \in bucket
        /\ bucket' = bucket \cup {Final(p)}
        /\ copies' = [copies EXCEPT ![p] = IF @ = 0 THEN 1 ELSE 2]
        /\ Goto(r, "copied")
     \/ Pending(p) \notin bucket /\ Finish(r) /\ UNCHANGED <<bucket, copies>>
  /\ UNCHANGED <<listing, lock, rows, bad, upload, lost, raced, unsure>>

\* Move, second half.  When it fails the request fails with it.
RemovePending(r) ==
  LET p == request[r].photo IN
  /\ request[r].stage = "copied"
  /\ \/ bucket' = bucket \ {Pending(p)} /\ Goto(r, "moved") /\ UNCHANGED lost
     \/ lost' = lost \cup {Final(p)} /\ Finish(r) /\ UNCHANGED bucket
  /\ UNCHANGED <<listing, lock, rows, bad, upload, copies, raced, unsure>>

\* confirmVariants: a small version that is missing, wrong or cannot be read
\* is left out, and deleted when its first bytes are not as they should be or
\* could not be had.
TakeSmall(r) ==
  LET p == request[r].photo
      o == PendingSmall(p) IN
  /\ request[r].stage = "moved"
  /\ \/ o \in bucket \ bad /\ bucket' = bucket \cup {FinalSmall(p)} /\ Goto(r, "smallCopied")
     \/ bucket' = bucket \ {o} /\ Goto(r, "ready")
     \/ UNCHANGED bucket /\ Goto(r, "ready")
  /\ UNCHANGED <<listing, lock, rows, bad, upload, history>>

\* Its width is recorded when its Move succeeds to the end.
RemovePendingSmall(r) ==
  LET p == request[r].photo IN
  /\ request[r].stage = "smallCopied"
  /\ \/ /\ bucket' = bucket \ {PendingSmall(p)}
        /\ request' = [request EXCEPT ![r].stage = "ready", ![r].small = TRUE]
        /\ UNCHANGED lost
     \/ /\ lost' = lost \cup {FinalSmall(p)}
        /\ Goto(r, "ready")
        /\ UNCHANGED bucket
  /\ UNCHANGED <<listing, lock, rows, bad, upload, copies, raced, unsure>>

\* Slip: the photos are counted without the row lock.
CountUnlocked(r) ==
  /\ request[r].stage = "ready"
  /\ \/ listing # "deleted" /\ Cardinality(Listed) < MaxImages /\ Goto(r, "counted")
     \/ /\ listing = "deleted" \/ Cardinality(Listed) >= MaxImages
        /\ Purge(r, Keys(request[r].photo, request[r].small))
  /\ UNCHANGED <<listing, lock, rows, bucket, bad, upload, history>>

\* Slip: what is locked is the photo, which has no row yet.
CountLockingPhoto(r) ==
  /\ request[r].stage = "ready"
  /\ lock = None
  /\ listing # "deleted"
  /\ Cardinality(Listed) < MaxImages
  /\ lock' = request[r].photo
  /\ Goto(r, "counted")
  /\ UNCHANGED <<listing, rows, bucket, bad, upload, history>>

\* AddImage: the listing's row FOR UPDATE, and the photos counted.  When the
\* listing is gone there is no row to lock, and the insertion fails.
Count(r) ==
  LET p == request[r].photo IN
  /\ request[r].stage = "ready"
  /\ lock = None
  /\ \/ /\ listing # "deleted" /\ Cardinality(Listed) < MaxImages
        /\ lock' = r
        /\ Goto(r, "counted")
     \/ /\ listing = "deleted" \/ Cardinality(Listed) >= MaxImages
        /\ Purge(r, Keys(p, request[r].small))
        /\ UNCHANGED lock
  /\ UNCHANGED <<listing, rows, bucket, bad, upload, history>>

\* Slip: every version is recorded, moved or not.
InsertAllWidths(r) ==
  LET p == request[r].photo IN
  /\ request[r].stage = "counted"
  /\ \/ p \notin Listed /\ rows' = [rows EXCEPT ![p] = "varied"] /\ Finish(r)
     \/ p \in Listed /\ Purge(r, Keys(p, request[r].small)) /\ UNCHANGED rows
  /\ lock' = None
  /\ UNCHANGED <<listing, bucket, bad, upload, history>>

\* The keys are unique in the table: the row of a photo confirmed twice is
\* refused.  Whatever the error, the files are deleted, and a commit whose
\* answer does not come is an error too.
Insert(r) ==
  LET p == request[r].photo
      keys == Keys(p, request[r].small) IN
  /\ request[r].stage = "counted"
  /\ \/ /\ p \notin Listed
        /\ rows' = [rows EXCEPT ![p] = IF request[r].small THEN "varied" ELSE "plain"]
        /\ \/ Finish(r) /\ UNCHANGED unsure
           \/ Purge(r, keys) /\ unsure' = unsure \cup {p}
     \/ p \in Listed /\ Purge(r, keys) /\ UNCHANGED <<rows, unsure>>
  /\ lock' = None
  /\ UNCHANGED <<listing, bucket, bad, upload, copies, lost, raced>>

\* A statement of AddImage fails, or its commit, and nothing is written.
FailToAdd(r) ==
  /\ request[r].stage \in {"ready", "counted"}
  /\ Purge(r, Keys(request[r].photo, request[r].small))
  /\ lock' = IF lock = r THEN None ELSE lock
  /\ UNCHANGED <<listing, rows, bucket, bad, upload, history>>

-----------------------------------------------------------------------------
(* Deletions: of a photo, of the listing, of the owner's account.          *)

\* DeleteImage: one statement returns the keys of the row it deletes.
DeleteImage(r, p) ==
  /\ request[r] = NoRequest
  /\ p \in Listed
  /\ rows' = [rows EXCEPT ![p] = "none"]
  /\ Purge(r, KeysOf(p))
  /\ UNCHANGED <<listing, lock, bucket, bad, upload, history>>

\* The transaction reads the keys first, and locks nothing.
ReadKeys(r) ==
  /\ request[r] = NoRequest
  /\ listing # "deleted"
  /\ request' = [request EXCEPT ![r] = [NoRequest EXCEPT
       !.stage = "doomed", !.todo = UNION {KeysOf(p) : p \in Listed}]]
  /\ UNCHANGED <<listing, lock, rows, bucket, bad, upload, history>>

\* Slip: only the originals are deleted from the bucket.
DropListingOriginals(r) ==
  /\ request[r].stage = "doomed"
  /\ lock = None
  /\ listing' = "deleted"
  /\ rows' = [p \in Photos |-> "none"]
  /\ Purge(r, {o \in request[r].todo : o[3] = "full"})
  /\ raced' = raced \cup {p \in Listed : ~(KeysOf(p) \subseteq request[r].todo)}
  /\ UNCHANGED <<lock, bucket, bad, upload, copies, lost, unsure>>

\* Then it deletes the listing, once nobody holds its row, and whatever rows
\* of photos there are by then go with it.
DropListing(r) ==
  /\ request[r].stage = "doomed"
  /\ lock = None
  /\ listing' = "deleted"
  /\ rows' = [p \in Photos |-> "none"]
  /\ Purge(r, request[r].todo)
  /\ raced' = raced \cup {p \in Listed : ~(KeysOf(p) \subseteq request[r].todo)}
  /\ UNCHANGED <<lock, bucket, bad, upload, copies, lost, unsure>>

\* DeleteObjects goes on after an error, which only the log sees.
DeleteObject(r, o) ==
  /\ request[r].stage = "purge"
  /\ o \in request[r].todo
  /\ request' = [request EXCEPT ![r].todo = @ \ {o}]
  /\ \/ bucket' = bucket \ {o} /\ UNCHANGED lost
     \/ lost' = lost \cup ({o} \cap bucket) /\ UNCHANGED bucket
  /\ UNCHANGED <<listing, lock, rows, bad, upload, copies, raced, unsure>>

Answer(r) ==
  /\ request[r].stage = "purge"
  /\ request[r].todo = {}
  /\ Finish(r)
  /\ UNCHANGED <<listing, lock, rows, bucket, bad, upload, history>>

-----------------------------------------------------------------------------
\* Resolve with the action "remove_listing", and RestoreListing.
Moderate ==
  /\ listing # "deleted"
  /\ listing' = IF listing = "open" THEN "removed" ELSE "open"
  /\ lock = None
  /\ UNCHANGED <<lock, rows, bucket, bad, upload, request, history>>

\* The request's context is cancelled, the process dies, or a call fails that
\* ends the request: its transaction is rolled back, and the calls it had left
\* to make are not made.  A deletion that was committed and whose answer did
\* not come is one that stops before it has deleted any object.
Abort(r) ==
  /\ request[r] # NoRequest
  /\ Finish(r)
  /\ lock' = IF lock = r THEN None ELSE lock
  /\ lost' = IF request[r].stage = "doomed" THEN lost
                                            ELSE lost \cup (Responsible(request[r]) \cap bucket)
  /\ UNCHANGED <<listing, rows, bucket, bad, upload, copies, raced, unsure>>

Init ==
  /\ listing = "open"
  /\ lock = None
  /\ rows = [p \in Photos |-> "none"]
  /\ bucket = {}
  /\ bad = {}
  /\ upload = [p \in Photos |-> "none"]
  /\ request = [r \in Requests |-> NoRequest]
  /\ copies = [p \in Photos |-> 0]
  /\ lost = {}
  /\ raced = {}
  /\ unsure = {}

Next ==
  \/ \E p \in Photos : Prepare(p) \/ Upload(p)
  \/ \E o \in bucket : Expire(o)
  \/ \E r \in Requests :
       \/ \E p \in Photos : Confirm(r, p) \/ DeleteImage(r, p)
       \/ CheckEditable(r) \/ Inspect(r) \/ Copy(r) \/ RemovePending(r)
       \/ TakeSmall(r) \/ RemovePendingSmall(r) \/ Count(r)
       \/ Insert(r) \/ FailToAdd(r)
       \/ ReadKeys(r) \/ DropListing(r)
       \/ \E o \in request[r].todo : DeleteObject(r, o)
       \/ Answer(r) \/ Abort(r)
  \/ Moderate

Spec == Init /\ [][Next]_vars

-----------------------------------------------------------------------------
(* Properties.                                                             *)

\* The tables, the bucket and the requests have the shapes declared above.
TypeOK ==
  /\ listing \in {"open", "removed", "deleted"}
  /\ lock \in Requests \cup {None}
  /\ rows \in [Photos -> {"none", "plain", "varied"}]
  /\ bucket \subseteq Object
  /\ bad \subseteq Object
  /\ upload \in [Photos -> {"none", "signed", "used"}]
  /\ request \in [Requests -> Request]
  /\ copies \in [Photos -> 0 .. 2]
  /\ lost \subseteq Object
  /\ raced \subseteq Photos
  /\ unsure \subseteq Photos

\* A photo that is listed can be shown, in every version the row claims: the
\* row is inserted after the move and deleted before the objects.  Two ways
\* out.  A file copied by two confirmations at once: the second finds the key
\* taken and deletes the objects of the first.  And an addition committed
\* whose answer was lost: ConfirmUpload takes it for refused, and deletes the
\* objects of a row that is there.
ListedPhotosStored ==
  \A p \in Listed : copies[p] < 2 /\ p \notin unsure => KeysOf(p) \subseteq bucket

\* No listing has more photos than the limit, however many confirmations run
\* at once (AddImage counts and inserts holding the listing's row).
WithinLimit == Cardinality(Listed) <= MaxImages

\* Every published object is listed, or some request is still to list or
\* delete it, or a failure lost it, or its listing was deleted while the photo
\* was being added: a refused confirmation and a deletion clean up.
StraysExplained ==
  \A p \in Photos, o \in bucket :
    o \in Keys(p, TRUE) =>
      \/ p \in Listed /\ o \in KeysOf(p)
      \/ \E r \in Requests : o \in Responsible(request[r])
      \/ o \in lost
      \/ p \in raced
=============================================================================
