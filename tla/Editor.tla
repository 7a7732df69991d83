------------------------------- MODULE Editor -------------------------------
(***************************************************************************)
(* The forms that save: the guided creation of a listing (NewListing), the *)
(* page that edits one (EditListing), the profile (ProfilePage), with the  *)
(* photos of a listing (ListingPhotos) and the question asked before       *)
(* unsaved text is lost (useLeaveGuard), in one tab.                       *)
(*                                                                         *)
(* What the fields of a form hold is one number, a new one each time the   *)
(* user types; 0 is a form that does not pass its checks.  The profile is  *)
(* document 0, listings have the other numbers.  The address of the        *)
(* creation carries the step and the draft, and the tab keeps the history  *)
(* of addresses.  A read of a document is one step here (its request and   *)
(* the lists it refreshes are module Lists), a save is three.  The user    *)
(* offers rooms: the page for who does not is left out, and the server's   *)
(* refusal for them is among the refusals of a save.  When the session     *)
(* ends it is the same person who signs in again.                          *)
(*                                                                         *)
(* A definition introduced by "Slip" is the definition below it with a     *)
(* mistake in it, which some property must notice.                         *)
(***************************************************************************)
EXTENDS Integers, Sequences, FiniteSets

CONSTANTS
  MaxRows,     \* bound: listings there have been, one from before
  MaxPhotos,   \* photos a listing may have
  MaxTexts,    \* bound: times the user types
  MaxMoves,    \* bound: addresses opened
  MaxPicks,    \* bound: files picked at once
  MaxErrors    \* bound: failures, reloads, sign-outs, changes from elsewhere

ASSUME EditorAssumption ==
  /\ {MaxRows, MaxPhotos, MaxTexts, MaxMoves, MaxPicks, MaxErrors} \subseteq Nat
  /\ MaxRows > 0

VARIABLES
  rows,      \* server: the documents
  trail,     \* the tab's history of addresses
  here,      \* where in it the tab is
  leaving,   \* it is signing out
  cache,     \* the documents as the tab last read them
  form,      \* the form on screen
  saving,    \* the save under way
  upload,    \* the photos being uploaded
  deleting,  \* the page has asked to delete its listing
  used,      \* counts for the bounds
  visit      \* history: drafts made in this creation, and what went wrong in it

tab == <<trail, here, leaving>>
vars == <<rows, tab, cache, form, saving, upload, deleting, used, visit>>

Docs == 0 .. MaxRows
Nothing == -1
Row == [exists : BOOLEAN, removed : BOOLEAN, text : Nat, photos : Nat]
NoRow == [exists |-> FALSE, removed |-> FALSE, text |-> 0, photos |-> 0]
Editable(d) == rows[d].exists /\ ~rows[d].removed
Entry == [row : Row, has : BOOLEAN, stale : BOOLEAN, failed : BOOLEAN]
NoEntry == [row |-> NoRow, has |-> FALSE, stale |-> FALSE, failed |-> FALSE]

Address == [page : {"away", "new", "edit", "profile"}, doc : Docs \cup {Nothing}, step : 1 .. 4]
Away == [page |-> "away", doc |-> Nothing, step |-> 1]
At == trail[here]
Path(a) == <<a.page, IF a.page = "new" THEN Nothing ELSE a.doc>>

\* step: without a saved listing only the first two.
Step(a) == IF a.doc = Nothing /\ a.step > 2 THEN 2 ELSE a.step

Blank == [text |-> 0, base |-> 0, of |-> Nothing]
Filled(d, text) == [text |-> text, base |-> text, of |-> d]
Dirty == form.text # form.base
Valid(text) == text # 0

Idle == [step |-> "", page |-> "", kind |-> "", doc |-> Nothing, from |-> Nothing, text |-> 0,
         here |-> FALSE]
NoUpload == [doc |-> Nothing, left |-> 0, here |-> FALSE]
Submitting == saving.step # "" /\ saving.here

Count(what, max) == used[what] < max /\ used' = [used EXCEPT ![what] = @ + 1]

-----------------------------------------------------------------------------
(* What is on screen.                                                      *)

\* The creation shows what it has read of its draft even when reading it again
\* failed.  The other two pages show an error in place of the form, and of a
\* listing that the moderation removed only that it was.
Loaded(a, c) ==
  /\ a.doc # Nothing /\ c[a.doc].has
  /\ a.page = "new" \/ ~(c[a.doc].failed \/ c[a.doc].row.removed)

NewScreen == IF Step(At) <= 2 THEN "form" ELSE IF Loaded(At, cache) THEN "draft" ELSE "waiting"
FormScreen(d) ==
  IF Loaded(At, cache) THEN "form" ELSE IF cache[d].failed THEN "error" ELSE "waiting"
EditRemoved ==
  At.doc # Nothing /\ cache[At.doc].has /\ ~cache[At.doc].failed /\ cache[At.doc].row.removed
EditScreen == IF EditRemoved THEN "removed" ELSE FormScreen(At.doc)
ProfileScreen == FormScreen(0)

Screen ==
  CASE At.page = "away"    -> "away"
    [] At.page = "new"     -> NewScreen
    [] At.page = "edit"    -> EditScreen
    [] At.page = "profile" -> ProfileScreen

\* The photos of a listing: in the third step, and on the page that edits it.
PhotosShown == /\ Loaded(At, cache)
               /\ At.page = "edit" \/ (At.page = "new" /\ Step(At) = 3)

\* useLeaveGuard: what each page passes to it.
SlipGuarded == Screen # "away" /\ Dirty /\ At.page = "new" /\ At.doc = Nothing

Guarded ==
  /\ Screen # "away" /\ Dirty
  /\ IF At.page = "new" THEN At.doc = Nothing ELSE form.of # Nothing /\ ~Submitting

-----------------------------------------------------------------------------
(* Moving.                                                                 *)

\* A form starts from its document, as soon as it is there, and once: the
\* creation when the draft in its address changes, the others when they mount.
\* These are unmounted, text and all, when there is no form to show any more.
Settle(a, c, f) ==
  IF Loaded(a, c)
  THEN IF f.of = a.doc THEN f ELSE Filled(a.doc, c[a.doc].row.text)
  ELSE IF a.page = "new" THEN f ELSE Blank

\* The tab shows another address: the same page goes on, another starts anew.
Show(a, c, f) ==
  IF Path(a) = Path(At)
  THEN form' = Settle(a, c, f) /\ UNCHANGED <<upload, deleting, visit>>
  ELSE /\ form' = Settle(a, c, Blank)
       /\ upload' = IF upload.left > 0 THEN [upload EXCEPT !.here = FALSE] ELSE NoUpload
       /\ deleting' = FALSE
       /\ visit' = [made |-> 0, why |-> FALSE]

Elsewhere(a) == [saving EXCEPT !.here = @ /\ Path(a) = Path(At)]

Push(a, c, f) ==
  /\ Count("moves", MaxMoves)
  /\ trail' = Append(SubSeq(trail, 1, here), a) /\ here' = here + 1 /\ UNCHANGED leaving
  /\ Show(a, c, f)

To(step) == [At EXCEPT !.step = step]

\* Links of the site, which lead to another page, and the end of the creation.
Leave(a) ==
  /\ Path(a) # Path(At) /\ (a.page = "edit" => a.doc > 0 /\ rows[a.doc].exists /\ At = Away)
  /\ Push(a, cache, form)
  /\ saving' = Elsewhere(a)
  /\ UNCHANGED <<rows, cache>>

\* The browser's buttons: a change of parameters alone is not guarded.
Travel(to) ==
  /\ to \in {here - 1, here + 1} \cap DOMAIN trail
  /\ here' = to /\ UNCHANGED <<trail, leaving>>
  /\ IF Path(trail[to]) = Path(At)
     THEN /\ form' = Settle(trail[to], cache, form)
          /\ visit' = [visit EXCEPT !.why = @ \/ At.doc # trail[to].doc]
          /\ UNCHANGED <<upload, deleting>>
     ELSE Show(trail[to], cache, form)
  /\ saving' = Elsewhere(trail[to])
  /\ Count("moves", MaxMoves) /\ UNCHANGED <<rows, cache>>

\* Everything in memory goes.
Reload ==
  /\ Count("errors", MaxErrors)
  /\ cache' = [d \in Docs |-> NoEntry] /\ form' = Blank
  /\ saving' = Idle /\ upload' = NoUpload /\ deleting' = FALSE /\ leaving' = FALSE
  /\ visit' = [made |-> 0, why |-> FALSE]
  /\ UNCHANGED <<rows, trail, here>>

\* Another page in the place of this one.
Replace(c) ==
  /\ trail' = [trail EXCEPT ![here] = Away] /\ UNCHANGED here
  /\ Show(Away, c, form)
  /\ saving' = Elsewhere(Away)

\* "Esci" in the header goes to the home page, which raises the question, and
\* signs out without waiting for what is answered.
SignOut ==
  /\ ~leaving /\ leaving' = TRUE /\ Count("errors", MaxErrors)
  /\ \/ Replace(cache)
     \/ Guarded /\ UNCHANGED <<trail, here, form, saving, upload, deleting, visit>>
  /\ UNCHANGED <<rows, cache>>

\* Without a session no page of these is shown: the tab is sent to sign in, or
\* home.  What it had read is dropped, at the latest by the next sign-in.
SessionOver == cache' = [d \in Docs |-> NoEntry] /\ Replace(cache') /\ UNCHANGED rows

SignedOut == leaving /\ leaving' = FALSE /\ SessionOver /\ UNCHANGED used

\* Any call of the site may be the one that is told.
Expire == SessionOver /\ Count("errors", MaxErrors) /\ UNCHANGED leaving

Type ==
  /\ Screen = "form" /\ Count("texts", MaxTexts)
  /\ form' = [form EXCEPT !.text = used.texts + 1]
  /\ UNCHANGED <<rows, tab, cache, saving, upload, deleting, visit>>

\* "Annulla le modifiche".
Discard ==
  /\ Screen = "form" /\ At.page # "new" /\ Dirty /\ ~Submitting
  /\ form' = [form EXCEPT !.text = form.base]
  /\ UNCHANGED <<rows, tab, cache, saving, upload, deleting, used, visit>>

\* The steps of the creation: "Avanti" and "Indietro" open a new address.
Turn(step) == Push(To(step), cache, form) /\ UNCHANGED <<rows, cache, saving>>

NextFromBasics == At.page = "new" /\ Step(At) = 1 /\ Valid(form.text) /\ Turn(2)
NextFromPhotos == At.page = "new" /\ Step(At) = 3 /\ Loaded(At, cache) /\ Turn(4)
Back == At.page = "new" /\ Step(At) > 1 /\ Turn(Step(At) - 1)

-----------------------------------------------------------------------------
(* Reading and saving.                                                     *)

\* Every change of a listing makes the listings read again, never the profile.
Stale(c) == [d \in Docs |-> [c[d] EXCEPT !.stale = @ \/ (d > 0 /\ c[d].has)]]
Read(d) == [row |-> rows[d], has |-> TRUE, stale |-> FALSE, failed |-> FALSE]
Wanted(d) == At.doc = d /\ ~deleting /\ (~cache[d].has \/ cache[d].stale \/ cache[d].failed)

Load(d) ==
  /\ Wanted(d) /\ rows[d].exists
  /\ cache' = [cache EXCEPT ![d] = Read(d)]
  /\ form' = Settle(At, cache', form)
  /\ UNCHANGED <<rows, tab, saving, upload, deleting, used, visit>>

\* No network, or no such listing any more, or not for who is signed in by now:
\* the form of a page that shows the error is gone.
LoadFails(d) ==
  /\ Wanted(d) /\ ~cache[d].failed
  /\ IF rows[d].exists THEN Count("errors", MaxErrors) ELSE UNCHANGED used
  /\ cache' = [cache EXCEPT ![d].failed = TRUE, ![d].stale = FALSE]
  /\ form' = Settle(At, cache', form)
  /\ UNCHANGED <<rows, tab, saving, upload, deleting, visit>>

\* A form that does not pass its checks goes nowhere, nor does one that is
\* already being saved.
Send(kind) ==
  /\ Screen = "form" /\ saving.step = "" /\ Valid(form.text)
  /\ saving' = [step |-> "sent", page |-> At.page, doc |-> At.doc, from |-> At.doc,
                kind |-> kind, text |-> form.text, here |-> TRUE]
  /\ UNCHANGED <<rows, tab, cache, form, upload, deleting, used>>

\* saveDraft, at the second step, creates the draft or updates the one it has.
SaveDraft ==
  /\ At.page = "new" /\ Step(At) = 2
  /\ Send(IF Loaded(At, cache) THEN "update" ELSE "create")
  /\ visit' = [visit EXCEPT !.why = @ \/ (At.doc # Nothing /\ ~Loaded(At, cache))]

SaveListing == At.page = "edit" /\ Send("update") /\ UNCHANGED visit
SaveProfile == At.page = "profile" /\ Send("update") /\ UNCHANGED visit

\* The server saves, or refuses a field or the whole.
Serve ==
  /\ saving.step = "sent"
  /\ \/ /\ saving.kind = "create" /\ Count("rows", MaxRows)
        /\ rows' = [rows EXCEPT ![used.rows + 1] = [NoRow EXCEPT !.exists = TRUE, !.text = saving.text]]
        /\ saving' = [saving EXCEPT !.step = "done", !.doc = used.rows + 1]
        /\ visit' = [visit EXCEPT !.made = IF saving.here THEN @ + 1 ELSE @]
     \/ /\ saving.kind = "update" /\ Editable(saving.doc)
        /\ rows' = [rows EXCEPT ![saving.doc].text = saving.text]
        /\ saving' = [saving EXCEPT !.step = "done"]
        /\ UNCHANGED <<used, visit>>
     \/ /\ IF saving.kind = "update" /\ ~Editable(saving.doc)
           THEN UNCHANGED used ELSE Count("errors", MaxErrors)
        /\ saving' = [saving EXCEPT !.step = "refused"]
        /\ UNCHANGED <<rows, visit>>
  /\ UNCHANGED <<tab, cache, form, upload, deleting>>

\* go, when an answer comes: the parameters of the address there is by then.
Go(doc, step, c, f) ==
  Push(IF At.page = "new" THEN [At EXCEPT !.doc = doc, !.step = step] ELSE At, c, f)

\* The answer holds the document as it was saved.
WithSaved == Stale([cache EXCEPT ![saving.doc] = [Read(saving.doc) EXCEPT !.row.text = saving.text]])

\* The creation goes on to the photos of the draft.
SlipDraftSaved ==
  LET c == WithSaved
      f == IF saving.here /\ saving.kind = "create" THEN Filled(form.of, saving.text) ELSE form IN
  /\ saving.step = "done" /\ saving.page = "new"
  /\ cache' = c
  /\ Go(saving.from, 3, c, f)
  /\ saving' = Idle /\ UNCHANGED rows

DraftSaved ==
  LET c == WithSaved
      f == IF saving.here /\ saving.kind = "create" THEN Filled(form.of, saving.text) ELSE form IN
  /\ saving.step = "done" /\ saving.page = "new"
  /\ cache' = c
  /\ Go(saving.doc, 3, c, f)
  /\ saving' = Idle /\ UNCHANGED rows

\* The other forms start again from what was saved.
FormSaved ==
  /\ saving.step = "done" /\ saving.page # "new"
  /\ cache' = WithSaved
  /\ form' = IF saving.here /\ Loaded(At, cache') THEN Filled(saving.doc, saving.text)
                                                  ELSE Settle(At, cache', form)
  /\ saving' = Idle
  /\ UNCHANGED <<rows, tab, upload, deleting, used, visit>>

\* A refused field of the first step brings the creation back there.
Refused ==
  /\ saving.step = "refused" /\ saving' = Idle
  /\ \/ saving.page = "new" /\ Go(saving.from, 1, cache, form)
     \/ UNCHANGED <<tab, form, upload, deleting, used, visit>>
  /\ UNCHANGED <<rows, cache>>

\* No answer: the page says so, and the button is there again.
SaveLost ==
  /\ saving.step \in {"sent", "done"} /\ Count("errors", MaxErrors)
  /\ saving' = Idle
  /\ visit' = [visit EXCEPT !.why = @ \/ saving.step = "done"]
  /\ UNCHANGED <<rows, tab, cache, form, upload, deleting>>

\* "Pubblica" opens the listing's page; the page that edits it has a switch.
\* Whether a listing is public tells nothing here, that the lists change does.
Publish ==
  /\ At.page = "new" /\ Step(At) = 4 /\ Loaded(At, cache) /\ Editable(At.doc)
  /\ Push(Away, cache, form)
  /\ cache' = Stale(cache) /\ saving' = Elsewhere(Away) /\ UNCHANGED rows

Toggle ==
  /\ At.page = "edit" /\ Loaded(At, cache) /\ Editable(At.doc)
  /\ cache' = Stale(cache)
  /\ UNCHANGED <<rows, tab, form, saving, upload, deleting, used, visit>>

\* The page asks to leave when the listing is deleted: with unsaved text that
\* is still a question, and who answers no stays on a page with nothing to show.
\* One that the moderation removed can still be deleted.
Delete ==
  /\ At.page = "edit" /\ (Loaded(At, cache) \/ EditRemoved) /\ rows[At.doc].exists
  /\ rows' = [rows EXCEPT ![At.doc].exists = FALSE]
  /\ cache' = [Stale(cache) EXCEPT ![At.doc] = NoEntry]
  /\ \/ Replace(cache') /\ UNCHANGED <<leaving, used>>
     \/ /\ Guarded /\ deleting' = TRUE /\ form' = Blank
        /\ UNCHANGED <<tab, saving, upload, used, visit>>

\* From another device of the same person.
ElseDevice(d) ==
  /\ d > 0 /\ rows[d].exists /\ Count("errors", MaxErrors)
  /\ \/ rows' = [rows EXCEPT ![d].exists = FALSE]
     \/ rows[d].photos < MaxPhotos /\ rows' = [rows EXCEPT ![d].photos = @ + 1]
  /\ UNCHANGED <<tab, cache, form, saving, upload, deleting, visit>>

\* An administrator removes a listing, or restores it.
Moderate(d) ==
  /\ d > 0 /\ rows[d].exists
  /\ rows' = [rows EXCEPT ![d].removed = ~@]
  /\ IF rows[d].removed THEN UNCHANGED used ELSE Count("errors", MaxErrors)
  /\ UNCHANGED <<tab, cache, form, saving, upload, deleting, visit>>

-----------------------------------------------------------------------------
(* Photos, one at a time.                                                  *)

Left(d) == MaxPhotos - cache[d].row.photos

\* handleFiles: those over the limit are left out; what is on screen is busy
\* until the last.
Busy == upload.left > 0 /\ upload.here

Pick(n) ==
  /\ PhotosShown /\ upload.left = 0 /\ Left(At.doc) > 0
  /\ upload' = [doc |-> At.doc, left |-> IF n <= Left(At.doc) THEN n ELSE Left(At.doc), here |-> TRUE]
  /\ UNCHANGED <<rows, tab, cache, form, saving, deleting, used, visit>>

\* A photo that arrives is added unless the listing is full or closed; one that
\* is refused does not stop the others, a lost connection does.
UploadOne ==
  LET d == upload.doc
      room == Editable(d) /\ rows[d].photos < MaxPhotos
      Rest(n) == upload' = IF n = 0 THEN NoUpload ELSE [upload EXCEPT !.left = n] IN
  /\ upload.left > 0
  /\ \/ /\ room /\ rows' = [rows EXCEPT ![d].photos = @ + 1]
        /\ Rest(upload.left - 1) /\ UNCHANGED used
     \/ /\ IF room THEN Count("errors", MaxErrors) ELSE UNCHANGED used
        /\ Rest(upload.left - 1) /\ UNCHANGED rows
     \/ /\ Count("errors", MaxErrors) /\ Rest(0)
        /\ UNCHANGED rows \/ (room /\ rows' = [rows EXCEPT ![d].photos = @ + 1])
  /\ cache' = Stale(cache)
  /\ UNCHANGED <<tab, form, saving, deleting, visit>>

SlipDropPhoto ==
  /\ PhotosShown /\ ~Busy /\ rows[At.doc].exists /\ cache[At.doc].row.photos > 0
  /\ rows' = [rows EXCEPT ![At.doc].photos = @ - 1]
  /\ cache' = Stale(cache)
  /\ UNCHANGED <<tab, form, saving, upload, deleting, used, visit>>

\* A photo the server no longer has is not deleted twice.
DropPhoto ==
  /\ PhotosShown /\ ~Busy /\ rows[At.doc].exists /\ cache[At.doc].row.photos > 0
  /\ rows[At.doc].photos > 0
  /\ rows' = [rows EXCEPT ![At.doc].photos = @ - 1]
  /\ cache' = Stale(cache)
  /\ UNCHANGED <<tab, form, saving, upload, deleting, used, visit>>

-----------------------------------------------------------------------------
\* The tab is opened outside these pages, or at the creation.
Init ==
  /\ rows = [d \in Docs |-> [NoRow EXCEPT !.exists = d <= 1]]
  /\ trail \in {<<Away>>, <<[Away EXCEPT !.page = "new"]>>} /\ here = 1 /\ leaving = FALSE
  /\ cache = [d \in Docs |-> NoEntry]
  /\ form = Blank /\ saving = Idle /\ upload = NoUpload /\ deleting = FALSE
  /\ used = [rows |-> 1, texts |-> 0, moves |-> 0, errors |-> 0]
  /\ visit = [made |-> 0, why |-> FALSE]

Links == {Away, [Away EXCEPT !.page = "new"], [Away EXCEPT !.page = "profile", !.doc = 0]}
           \cup {[Away EXCEPT !.page = "edit", !.doc = d] : d \in Docs \ {0}}

Next ==
  \/ (\E a \in Links : Leave(a)) \/ (\E n \in 1 .. MaxMoves + 1 : Travel(n))
  \/ Reload \/ SignOut \/ SignedOut \/ Expire \/ Delete \/ Discard
  \/ Type \/ NextFromBasics \/ NextFromPhotos \/ Back
  \/ SaveDraft \/ SaveListing \/ SaveProfile \/ Serve \/ DraftSaved \/ FormSaved
  \/ Refused \/ SaveLost \/ Publish \/ Toggle
  \/ (\E d \in Docs : Load(d) \/ LoadFails(d) \/ ElseDevice(d) \/ Moderate(d))
  \/ (\E n \in 1 .. MaxPicks : Pick(n)) \/ UploadOne \/ DropPhoto

Spec == Init /\ [][Next]_vars

-----------------------------------------------------------------------------
(* Properties.                                                             *)

\* Every variable keeps the shape the code gives it.
TypeOK ==
  /\ rows \in [Docs -> Row] /\ cache \in [Docs -> Entry]
  /\ trail \in Seq(Address) /\ here \in DOMAIN trail /\ leaving \in BOOLEAN
  /\ form \in [text : Nat, base : Nat, of : Docs \cup {Nothing}]
  /\ saving \in [step : {"", "sent", "done", "refused"}, kind : {"", "create", "update"},
                 page : {"", "new", "edit", "profile"}, doc : Docs \cup {Nothing},
                 from : Docs \cup {Nothing}, text : Nat, here : BOOLEAN]
  /\ upload \in [doc : Docs \cup {Nothing}, left : 0 .. MaxPhotos, here : BOOLEAN]
  /\ deleting \in BOOLEAN
  /\ used \in [rows : 0 .. MaxRows, texts : 0 .. MaxTexts, moves : 0 .. MaxMoves,
               errors : 0 .. MaxErrors]
  /\ visit \in [made : 0 .. MaxRows, why : BOOLEAN]

\* One creation makes one draft, however often its second step is saved: a
\* second one only when the user went back in the history to an address from
\* before the draft, saved before the draft was read again, or the answer to
\* the first save was lost.
OneDraft == visit.made > 1 => visit.why

\* Text that is not on the server leaves the screen only when the user asked to
\* forget it, or said yes to the question that leaving the page, reloading it or
\* deleting the listing raises.  The exceptions: a session that ends, whatever
\* was answered; a save under way, which starts the form again when it is
\* answered; a creation that has its draft, or that the browser's buttons take
\* to another draft's address, where the question is not asked; a document that
\* cannot be read again, or is read to be a listing the moderation removed.
Unsaved == Dirty /\ \A d \in Docs : ~(rows[d].exists /\ rows[d].text = form.text)
SessionEnds == SignedOut \/ Expire
Asked == \/ Discard
         \/ Guarded /\ ~SessionEnds /\ (Reload \/ deleting' \/ Path(At)' # Path(At))
TextKept ==
  [][Unsaved /\ form'.text # form.text /\ used'.texts = used.texts
       => \/ Asked
          \/ SessionEnds
          \/ saving.step # ""
          \/ At.page = "new" /\ (At.doc # Nothing \/ (At.doc # At.doc' /\ Path(At) = Path(At)'))
          \/ At.doc # Nothing /\ (cache'[At.doc].failed \/ cache'[At.doc].row.removed)]_vars
=============================================================================
