---------------------------- MODULE EditorProofs ----------------------------
(***************************************************************************)
(* What holds of Editor for any number of listings, texts, moves and       *)
(* errors.  The form on screen is that of the document in the address; a   *)
(* creation that has made a draft has it in its address, or an answer that *)
(* will put it there is under way.                                         *)
(***************************************************************************)
EXTENDS Editor, SequenceTheorems, TLAPS

\* Away is no document's page.
Places == \A i \in DOMAIN trail : trail[i].page = "away" => trail[i].doc = Nothing

\* The form on screen is that of the document on screen.
FormFits ==
  /\ Loaded(At, cache) => form.of = At.doc
  /\ At.page = "away" => ~Dirty
  /\ At.page \in {"edit", "profile"} /\ Dirty => form.of = At.doc /\ Loaded(At, cache)

\* A save knows its document, and its page while that is on screen.
SaveFits ==
  saving.step # "" =>
    /\ saving.page # "" /\ saving.kind # ""
    /\ saving.kind = "create" => saving.page = "new"
    /\ saving.kind = "update" \/ saving.step = "done" => saving.doc \in Docs
    /\ saving.here => /\ At.page = saving.page
                      /\ saving.page # "new" => At.doc = saving.doc
UploadFits == upload.left > 0 => upload.doc \in Docs

\* A creation that has made a draft has it in its address, or will.
Settling == saving.step = "done" /\ saving.kind = "create" /\ saving.here
DraftFits ==
  /\ visit.made < used.rows
  /\ visit.made > 0 /\ ~visit.why =>
       /\ visit.made = 1 /\ At.page = "new"
       /\ At.doc # Nothing \/ Settling
  /\ saving.step \in {"sent", "refused"} =>
       visit.made = 0 \/ visit.why \/ (saving.kind = "update" /\ saving.from # Nothing)
  /\ saving.step # "" /\ ~saving.here => visit.made = 0

Inv == TypeOK /\ Places /\ FormFits /\ SaveFits /\ UploadFits /\ DraftFits

-----------------------------------------------------------------------------
(* What the helpers return.                                                *)

Forms == [text : Nat, base : Nat, of : Docs \cup {Nothing}]
Caches == [Docs -> Entry]
Saves == [step : {"", "sent", "done", "refused"}, kind : {"", "create", "update"},
          page : {"", "new", "edit", "profile"}, doc : Docs \cup {Nothing},
          from : Docs \cup {Nothing}, text : Nat, here : BOOLEAN]
Uploads == [doc : Docs \cup {Nothing}, left : 0 .. MaxPhotos, here : BOOLEAN]
Counts == [rows : 0 .. MaxRows, texts : 0 .. MaxTexts, moves : 0 .. MaxMoves,
           errors : 0 .. MaxErrors]
Visits == [made : 0 .. MaxRows, why : BOOLEAN]
Began == [made |-> 0, why |-> FALSE]

LEMMA Typing ==
  TypeOK <=> /\ rows \in [Docs -> Row] /\ cache \in Caches
             /\ trail \in Seq(Address) /\ here \in DOMAIN trail /\ leaving \in BOOLEAN
             /\ form \in Forms /\ saving \in Saves /\ upload \in Uploads
             /\ deleting \in BOOLEAN /\ used \in Counts /\ visit \in Visits
BY DEF TypeOK, Forms, Caches, Saves, Uploads, Counts, Visits

LEMMA Bounds ==
  /\ MaxRows \in Nat /\ MaxPhotos \in Nat /\ MaxTexts \in Nat /\ MaxMoves \in Nat
  /\ MaxErrors \in Nat /\ MaxRows > 0 /\ MaxPicks \in Nat
BY EditorAssumption

\* The values that mean none.
LEMMA NoneValues ==
  /\ Blank \in Forms /\ Blank.text = Blank.base /\ Idle \in Saves /\ Idle.step = ""
  /\ NoUpload \in Uploads /\ NoUpload.left = 0 /\ Began \in Visits
  /\ NoRow \in Row /\ NoEntry \in Entry /\ ~NoEntry.has
  /\ Away \in Address /\ Away.page = "away" /\ Away.doc = Nothing /\ Away.step = 1
  /\ Nothing \notin Docs
BY Bounds DEF Blank, Forms, Idle, Saves, NoUpload, Uploads, Began, Visits, NoRow, Row, NoEntry,
              Entry, Away, Address, Nothing, Docs

\* Where the tab is, is an address it has been to.
LEMMA AtTyped ==
  ASSUME TypeOK
  PROVE  /\ At \in Address /\ DOMAIN trail = 1 .. Len(trail) /\ Len(trail) \in Nat
         /\ \A i \in DOMAIN trail : trail[i] \in Address
<1>1. trail \in Seq(Address) /\ here \in DOMAIN trail
  BY DEF TypeOK
<1>2. Len(trail) \in Nat /\ DOMAIN trail = 1 .. Len(trail)
  BY <1>1
<1>3. trail \in [1 .. Len(trail) -> Address]
  BY <1>1
<1>. QED
  BY <1>1, <1>2, <1>3 DEF At

\* A count goes up within its bound, the others stay.
LEMMA Counted ==
  ASSUME TypeOK, NEW what \in {"rows", "texts", "moves", "errors"}, NEW max,
         what = "rows" => max = MaxRows, what = "texts" => max = MaxTexts,
         what = "moves" => max = MaxMoves, what = "errors" => max = MaxErrors, Count(what, max)
  PROVE  /\ used' \in Counts
         /\ what # "rows" => used'.rows = used.rows
         /\ what = "rows" => used'.rows = used.rows + 1 /\ used.rows < MaxRows
         /\ what = "texts" => used'.texts = used.texts + 1
<1>1. used \in Counts /\ used' = [used EXCEPT ![what] = @ + 1] /\ used[what] < max
  BY DEF Count, TypeOK, Counts
<1>2. CASE what = "rows"
  <2>1. used' = [used EXCEPT !.rows = @ + 1] /\ used.rows < MaxRows
    BY <1>1, <1>2
  <2>. QED
    BY <1>1, <1>2, <2>1, Bounds DEF Counts
<1>3. CASE what = "texts"
  <2>1. used' = [used EXCEPT !.texts = @ + 1] /\ used.texts < MaxTexts
    BY <1>1, <1>3
  <2>. QED
    BY <1>1, <1>3, <2>1, Bounds DEF Counts
<1>4. CASE what = "moves"
  <2>1. used' = [used EXCEPT !.moves = @ + 1] /\ used.moves < MaxMoves
    BY <1>1, <1>4
  <2>. QED
    BY <1>1, <1>4, <2>1, Bounds DEF Counts
<1>5. CASE what = "errors"
  <2>1. used' = [used EXCEPT !.errors = @ + 1] /\ used.errors < MaxErrors
    BY <1>1, <1>5
  <2>. QED
    BY <1>1, <1>5, <2>1, Bounds DEF Counts
<1>. QED
  BY <1>2, <1>3, <1>4, <1>5

\* An address opened becomes the last.
Opens(a) ==
  trail' = Append(SubSeq(trail, 1, here), a) /\ here' = here + 1 /\ UNCHANGED leaving
Place(a) == a \in Address /\ (a.page = "away" => a.doc = Nothing)

LEMMA Opened ==
  ASSUME TypeOK, Places, NEW a, Place(a), Opens(a)
  PROVE  trail' \in Seq(Address) /\ here' \in DOMAIN trail' /\ leaving' \in BOOLEAN /\ At' = a /\ Places'
<1>. DEFINE s == SubSeq(trail, 1, here)
<1>1. trail \in Seq(Address) /\ here \in 1 .. Len(trail) /\ a \in Address
  BY AtTyped DEF TypeOK, Place
<1>2. s \in Seq(Address) /\ Len(s) = here /\ \A i \in 1 .. here : s[i] = trail[i]
  BY <1>1, SubSeqProperties
<1>. HIDE DEF s
<1>3. /\ trail' = Append(s, a) /\ here' = here + 1 /\ leaving' \in BOOLEAN
  BY DEF Opens, s, TypeOK
<1>4. /\ trail' \in Seq(Address) /\ Len(trail') = here + 1 /\ trail'[here + 1] = a
      /\ \A i \in 1 .. here : trail'[i] = trail[i]
  BY <1>1, <1>2, <1>3
<1>5. DOMAIN trail' = 1 .. here + 1 /\ here \in Nat
  BY <1>1, <1>4
<1>6. At' = a /\ here' \in DOMAIN trail' /\ leaving' \in BOOLEAN
  BY <1>3, <1>4, <1>5 DEF At
<1>7. Places'
  <2>1. ASSUME NEW i \in 1 .. here + 1, trail'[i].page = "away" PROVE trail'[i].doc = Nothing
    <3>1. CASE i = here + 1
      BY <1>4, <2>1, <3>1 DEF Place
    <3>2. CASE i \in 1 .. here
      BY <1>1, <1>4, <2>1, <3>2 DEF Places
    <3>. QED
      BY <1>5, <3>1, <3>2
  <2>. QED
    BY <1>5, <2>1 DEF Places
<1>. QED
  BY <1>3, <1>4, <1>6, <1>7

\* A form starts from its document when that is there, and is unmounted with it.
LEMMA Settled ==
  ASSUME NEW a \in Address, NEW c \in Caches, NEW f \in Forms
  PROVE  /\ Settle(a, c, f) \in Forms
         /\ Loaded(a, c) => Settle(a, c, f).of = a.doc
         /\ Settle(a, c, f) = f \/ Settle(a, c, f).text = Settle(a, c, f).base
         /\ f.text = f.base => Settle(a, c, f).text = Settle(a, c, f).base
         /\ Settle(a, c, f).text # Settle(a, c, f).base => a.page = "new" \/ Loaded(a, c)
<1>1. CASE Loaded(a, c) /\ f.of # a.doc
  <2>1. a.doc \in Docs /\ c[a.doc].row.text \in Nat
    BY <1>1, NoneValues DEF Loaded, Address, Caches, Entry, Row
  <2>. QED
    BY <1>1, <2>1 DEF Settle, Filled, Forms
<1>2. CASE ~Loaded(a, c) /\ a.page # "new"
  <2>1. Settle(a, c, f) = Blank
    BY <1>2 DEF Settle
  <2>. QED
    BY <1>2, <2>1, NoneValues
<1>3. CASE Settle(a, c, f) = f /\ (Loaded(a, c) => f.of = a.doc) /\ (a.page = "new" \/ Loaded(a, c))
  BY <1>3
<1>. QED
  BY <1>1, <1>2, <1>3 DEF Settle

\* What a step makes of the documents the tab has read.
LEMMA Staled ==
  ASSUME NEW c \in Caches
  PROVE  /\ Stale(c) \in Caches
         /\ \A d \in Docs : /\ Stale(c)[d].has = c[d].has /\ Stale(c)[d].failed = c[d].failed
                           /\ Stale(c)[d].row = c[d].row
BY DEF Stale, Caches, Entry

LEMMA ReadTyped == ASSUME TypeOK, NEW d \in Docs PROVE Read(d) \in Entry
BY DEF Read, Entry, TypeOK

LEMMA WithSavedTyped ==
  ASSUME TypeOK, saving.doc \in Docs PROVE WithSaved \in Caches
<1>1. saving.text \in Nat /\ cache \in Caches
  BY DEF TypeOK, Caches
<1>2. PICK e : e = Read(saving.doc)
  OBVIOUS
<1>3. e \in Entry
  BY <1>2, ReadTyped
<1>4. [e.row EXCEPT !.text = saving.text] \in Row
  BY <1>1, <1>3 DEF Entry, Row
<1>5. [Read(saving.doc) EXCEPT !.row.text = saving.text] \in Entry
  BY <1>2, <1>3, <1>4 DEF Entry
<1>6. [cache EXCEPT ![saving.doc] = [Read(saving.doc) EXCEPT !.row.text = saving.text]] \in Caches
  BY <1>1, <1>5 DEF Caches
<1>. QED
  BY <1>6, Staled DEF WithSaved

-----------------------------------------------------------------------------
(* Moving.                                                                 *)

LEMMA SamePath ==
  ASSUME NEW a \in Address, NEW b \in Address
  PROVE  Path(a) = Path(b) <=> a.page = b.page /\ (a.page = "new" \/ a.doc = b.doc)
BY DEF Path

\* A form that can be on screen where the tab is.
Fits(f) == At.page = "away" => f.text = f.base

LEMMA FormStaysFit == ASSUME Inv PROVE Fits(form) /\ form \in Forms /\ cache \in Caches
BY Typing DEF Inv, FormFits, Fits, Dirty

\* A form that starts from what the page has read, or goes on.
LEMMA SettledFits ==
  ASSUME Inv, NEW a \in Address, At' = a, Path(a) = Path(At), NEW c \in Caches, NEW f \in Forms, Fits(f),
         form' = Settle(a, c, f), Loaded(a, cache') <=> Loaded(a, c)
  PROVE  form' \in Forms /\ FormFits'
<1>1. At \in Address
  BY AtTyped DEF Inv
<1>2. a.page = At.page
  BY <1>1, SamePath
<1>3. form' \in Forms /\ (Loaded(a, cache') => form'.of = a.doc)
  BY Settled
<1>4. a.page = "away" => form'.text = form'.base
  BY <1>2, Settled DEF Fits
<1>5. form'.text # form'.base => a.page = "new" \/ Loaded(a, cache')
  BY Settled
<1>. QED
  BY <1>3, <1>4, <1>5 DEF FormFits, Dirty

\* What the page keeps of its form, its photos and its creation when it shows
\* another address.
LEMMA Moved ==
  ASSUME Inv, NEW a, Place(a), At' = a, NEW c \in Caches, NEW f \in Forms, Fits(f),
         Show(a, c, f), Loaded(a, cache') <=> Loaded(a, c)
  PROVE  /\ form' \in Forms /\ FormFits'
         /\ upload' \in Uploads /\ UploadFits' /\ deleting' \in BOOLEAN /\ visit' \in Visits
         /\ Path(a) = Path(At) => visit' = visit
         /\ Path(a) # Path(At) => visit' = Began
<1>1. /\ upload \in Uploads /\ deleting \in BOOLEAN /\ visit \in Visits /\ UploadFits
      /\ At \in Address /\ a \in Address
  BY Typing, AtTyped DEF Inv, Place
<1>2. CASE Path(a) = Path(At)
  <2>1. form' = Settle(a, c, f) /\ upload' = upload /\ deleting' = deleting /\ visit' = visit
    BY <1>2 DEF Show
  <2>2. form' \in Forms /\ FormFits'
    BY <1>1, <1>2, <2>1, SettledFits
  <2>. QED
    BY <1>1, <1>2, <2>1, <2>2 DEF UploadFits
<1>3. CASE Path(a) # Path(At)
  <2>1. /\ form' = Settle(a, c, Blank) /\ deleting' = FALSE /\ visit' = Began
        /\ upload' = IF upload.left > 0 THEN [upload EXCEPT !.here = FALSE] ELSE NoUpload
    BY <1>3 DEF Show, Began
  <2>2. form' \in Forms /\ form'.text = form'.base /\ (Loaded(a, cache') => form'.of = a.doc)
    BY <1>1, <2>1, Settled, NoneValues
  <2>3. FormFits'
    BY <2>2 DEF FormFits, Dirty
  <2>4. upload' \in Uploads /\ UploadFits'
    <3>1. CASE upload.left > 0
      <4>1. upload' = [upload EXCEPT !.here = FALSE]
        BY <2>1, <3>1
      <4>. QED
        BY <1>1, <3>1, <4>1 DEF Uploads, UploadFits
    <3>2. CASE ~(upload.left > 0)
      <4>1. upload' = NoUpload
        BY <2>1, <3>2
      <4>2. upload'.left = 0 /\ upload' \in Uploads
        BY <4>1, NoneValues
      <4>3. ~(upload'.left > 0)
        BY <4>2
      <4>. QED
        BY <4>2, <4>3 DEF UploadFits
    <3>. QED
      BY <3>1, <3>2
  <2>. QED
    BY <1>3, <2>1, <2>2, <2>3, <2>4, NoneValues
<1>. QED
  BY <1>2, <1>3

\* There are more listings than this creation made, and of a creation that
\* begins nothing is to be said.
LEMMA MadeFewer ==
  ASSUME Inv
  PROVE  visit.made \in Nat /\ used.rows \in Nat /\ visit.made < used.rows /\ 0 < used.rows
<1>1. visit \in Visits /\ used \in Counts /\ visit.made < used.rows
  BY Typing DEF Inv, DraftFits
<1>2. visit.made \in Nat /\ used.rows \in Nat
  BY <1>1, Bounds DEF Visits, Counts
<1>. QED
  BY <1>1, <1>2

LEMMA BeganFits ==
  ASSUME Inv, visit'.made = 0, used'.rows = used.rows PROVE DraftFits'
<1>1. 0 < used.rows /\ used'.rows = used.rows
  BY MadeFewer
<1>. QED
  BY <1>1 DEF DraftFits

\* What a move leaves of the save under way and of the creation's draft: the
\* same page goes on with the same document, or the history went back past it.
LEMMA LeftFits ==
  ASSUME Inv, NEW a \in Address, At' = a, saving' = Elsewhere(a), used'.rows = used.rows,
         Path(a) = Path(At) => /\ visit'.made = visit.made /\ (visit.why => visit'.why)
                               /\ visit'.why \/ a.doc = At.doc,
         Path(a) # Path(At) => visit' = Began
  PROVE  saving' \in Saves /\ SaveFits' /\ DraftFits'
<1>1. saving \in Saves /\ visit \in Visits /\ used \in Counts /\ At \in Address /\ SaveFits /\ DraftFits
  BY Typing, AtTyped DEF Inv
<1>2. PICK p \in BOOLEAN : p = (Path(a) = Path(At))
  OBVIOUS
<1>3. saving' = [saving EXCEPT !.here = saving.here /\ p]
  BY <1>2 DEF Elsewhere
<1>4. /\ saving' \in Saves /\ saving'.step = saving.step /\ saving'.page = saving.page
      /\ saving'.kind = saving.kind /\ saving'.doc = saving.doc /\ saving'.from = saving.from
      /\ saving'.here = (saving.here /\ p)
  BY <1>1, <1>3 DEF Saves
<1>5. p => a.page = At.page /\ (a.page = "new" \/ a.doc = At.doc)
  BY <1>1, <1>2, SamePath
<1>6. SaveFits'
  <2>. HIDE DEF Elsewhere
  <2>. QED
    BY <1>1, <1>4, <1>5 DEF SaveFits
<1>7. DraftFits'
  <2>1. visit.made \in Nat /\ used.rows \in Nat
    BY <1>1, Bounds DEF Visits, Counts
  <2>2. CASE ~p
    <3>1. Path(a) # Path(At)
      BY <1>2, <2>2
    <3>2. visit' = Began
      BY <3>1
    <3>3. visit'.made = 0
      BY <3>2 DEF Began
    <3>. QED
      BY <3>3, BeganFits
  <2>3. CASE p
    <3>1. saving'.here = saving.here
      BY <1>1, <1>4, <2>3 DEF Saves
    <3>2. /\ visit'.made = visit.made /\ (visit.why => visit'.why) /\ (visit'.why \/ a.doc = At.doc)
      BY <1>2, <2>3
    <3>3. a.page = At.page
      BY <1>5, <2>3
    <3>. QED
      BY <1>1, <1>4, <3>1, <3>2, <3>3 DEF DraftFits, Settling
  <2>. QED
    BY <2>2, <2>3
<1>. QED
  BY <1>4, <1>6, <1>7

-----------------------------------------------------------------------------
(* Each action keeps the invariant.                                        *)

LEMMA TabStays ==
  ASSUME Inv, UNCHANGED tab
  PROVE  trail' \in Seq(Address) /\ here' \in DOMAIN trail' /\ leaving' \in BOOLEAN /\ At' = At /\ Places' /\ Place(At)
<1>1. trail' = trail /\ here' = here /\ leaving' = leaving
  BY DEF tab
<1>2. trail \in Seq(Address) /\ here \in DOMAIN trail /\ leaving \in BOOLEAN /\ Places /\ At \in Address
  BY Typing, AtTyped DEF Inv
<1>3. Place(At)
  BY <1>2 DEF Place, Places, At
<1>. QED
  BY <1>1, <1>2, <1>3 DEF At, Places

\* What holds of the form on screen when only the documents are read again.
LEMMA FormStays ==
  ASSUME Inv, At' = At, form' = form, Loaded(At, cache') <=> Loaded(At, cache)
  PROVE  form' \in Forms /\ FormFits'
BY Typing DEF Inv, FormFits, Dirty

LEMMA LoadedStays ==
  ASSUME NEW a \in Address, NEW b \in Caches, NEW c \in Caches,
         \A d \in Docs : c[d].has = b[d].has /\ c[d].failed = b[d].failed /\ c[d].row = b[d].row
  PROVE  Loaded(a, c) <=> Loaded(a, b)
BY NoneValues DEF Loaded, Address

\* No save is under way any more.
LEMMA SaveEnds ==
  ASSUME Inv, saving' = Idle, used'.rows = used.rows, visit'.made = visit.made,
         visit.why => visit'.why, At'.page = At.page,
         visit.made > 0 /\ ~visit'.why => At'.doc # Nothing
  PROVE  saving' \in Saves /\ SaveFits' /\ DraftFits'
<1>1. saving' \in Saves /\ saving'.step = ""
  BY NoneValues
<1>2. SaveFits'
  BY <1>1 DEF SaveFits
<1>3. DraftFits'
  BY <1>1 DEF Inv, DraftFits
<1>. QED
  BY <1>1, <1>2, <1>3

\* What does not touch the save under way leaves it as it was.
LEMMA SaveStays ==
  ASSUME Inv, saving' = saving, used'.rows = used.rows, visit' = visit,
         At'.page = At.page, At'.doc = At.doc
  PROVE  saving' \in Saves /\ SaveFits' /\ DraftFits' /\ visit' \in Visits
BY Typing DEF Inv, SaveFits, DraftFits, Settling

\* The photos being uploaded, and the page's wish to leave, are as they were.
LEMMA RestStays ==
  ASSUME Inv, upload' = upload, deleting' = deleting
  PROVE  upload' \in Uploads /\ UploadFits' /\ deleting' \in BOOLEAN
BY Typing DEF Inv, UploadFits

Linked(p, d) == [Away EXCEPT !.page = p, !.doc = d]

LEMMA Opening ==
  ASSUME NEW p \in {"new", "edit", "profile"}, NEW d \in Docs
  PROVE  Linked(p, d) \in Address /\ Linked(p, d).page = p
<1>1. PICK b : b = Away
  OBVIOUS
<1>2. b \in Address
  BY <1>1, NoneValues
<1>3. Linked(p, d) = [[b EXCEPT !.page = p] EXCEPT !.doc = d]
  BY <1>1 DEF Linked
<1>4. [b EXCEPT !.page = p] \in Address
  BY <1>2 DEF Address
<1>5. Linked(p, d) \in Address
  BY <1>3, <1>4 DEF Address
<1>. QED
  BY <1>2, <1>3, <1>4, <1>5 DEF Address

LEMMA LeaveTyped ==
  ASSUME NEW a \in Links PROVE Place(a)
<1>1. CASE a = Away
  BY <1>1, NoneValues DEF Place
<1>2. CASE a = [Away EXCEPT !.page = "new"]
  BY <1>2 DEF Place, Away, Address
<1>3. CASE a = [Away EXCEPT !.page = "profile", !.doc = 0]
  <2>1. 0 \in Docs
    BY Bounds DEF Docs
  <2>2. a = Linked("profile", 0)
    BY <1>3 DEF Linked
  <2>3. a \in Address /\ a.page = "profile"
    BY <2>1, <2>2, Opening
  <2>. QED
    BY <2>3 DEF Place
<1>4. ASSUME NEW d \in Docs, a = [Away EXCEPT !.page = "edit", !.doc = d] PROVE Place(a)
  <2>1. a = Linked("edit", d)
    BY <1>4 DEF Linked
  <2>2. a \in Address /\ a.page = "edit"
    BY <2>1, Opening
  <2>. QED
    BY <2>2 DEF Place
<1>. QED
  BY <1>1, <1>2, <1>3, <1>4 DEF Links

LEMMA LeaveKeeps ==
  ASSUME Inv, NEW a \in Links, Leave(a) PROVE Inv'
<1>1. Place(a)
  BY LeaveTyped
<1>2. TypeOK /\ Places /\ Path(a) # Path(At) /\ Count("moves", MaxMoves) /\ Opens(a) /\ Show(a, cache, form)
      /\ saving' = Elsewhere(a) /\ rows' = rows /\ cache' = cache
  BY DEF Leave, Push, Opens, Inv
<1>3. used' \in Counts /\ used'.rows = used.rows
  BY <1>2, Counted
<1>4. trail' \in Seq(Address) /\ here' \in DOMAIN trail' /\ leaving' \in BOOLEAN /\ At' = a /\ Places'
  BY <1>1, <1>2, Opened
<1>5. /\ form' \in Forms /\ FormFits' /\ upload' \in Uploads /\ UploadFits' /\ deleting' \in BOOLEAN
      /\ visit' \in Visits /\ visit' = Began
  BY <1>1, <1>2, <1>4, FormStaysFit, Moved
<1>6. saving' \in Saves /\ SaveFits' /\ DraftFits'
  BY <1>1, <1>2, <1>3, <1>4, <1>5, LeftFits DEF Place
<1>7. TypeOK'
  BY <1>2, <1>3, <1>4, <1>5, <1>6, Typing DEF TypeOK, Forms, Caches, Saves, Uploads, Counts, Visits
<1>. QED
  BY <1>4, <1>5, <1>6, <1>7 DEF Inv

LEMMA TravelKeeps ==
  ASSUME Inv, NEW to, Travel(to) PROVE Inv'
<1>. DEFINE a == trail[to]
<1>1. /\ TypeOK /\ Places /\ to \in DOMAIN trail /\ here' = to /\ trail' = trail /\ leaving' = leaving
      /\ Count("moves", MaxMoves) /\ saving' = Elsewhere(a) /\ rows' = rows /\ cache' = cache
  BY DEF Travel, Inv
<1>2. used' \in Counts /\ used'.rows = used.rows
  BY <1>1, Counted
<1>3. Place(a) /\ a \in Address /\ At' = a
  BY <1>1, AtTyped DEF Place, Places, At
<1>4. trail' \in Seq(Address) /\ here' \in DOMAIN trail' /\ leaving' \in BOOLEAN /\ Places'
  BY <1>1 DEF TypeOK, Places
<1>5. visit \in Visits
  BY <1>1, Typing
<1>6. CASE Path(a) = Path(At)
  <2>1. /\ form' = Settle(a, cache, form) /\ visit' = [visit EXCEPT !.why = @ \/ At.doc # a.doc]
        /\ upload' = upload /\ deleting' = deleting
    BY <1>6 DEF Travel
  <2>2. PICK w \in BOOLEAN : w = (At.doc # a.doc)
    OBVIOUS
  <2>3. visit' = [visit EXCEPT !.why = visit.why \/ w]
    BY <2>1, <2>2
  <2>4. visit' \in Visits /\ visit'.made = visit.made /\ (visit.why => visit'.why) /\ (visit'.why \/ ~w)
    BY <1>5, <2>3 DEF Visits
  <2>5. upload' \in Uploads /\ UploadFits' /\ deleting' \in BOOLEAN
    BY <2>1, Typing DEF Inv, UploadFits
  <2>6. form' \in Forms /\ FormFits'
    <3>1. Fits(form) /\ form \in Forms /\ cache \in Caches
      BY FormStaysFit
    <3>2. Loaded(a, cache') <=> Loaded(a, cache)
      BY <1>1
    <3>. QED
      BY <1>3, <1>6, <2>1, <3>1, <3>2, SettledFits
  <2>7. visit'.why \/ a.doc = At.doc
    BY <2>2, <2>4
  <2>8. saving' \in Saves /\ SaveFits' /\ DraftFits'
    BY <1>1, <1>2, <1>3, <1>6, <2>4, <2>7, LeftFits
  <2>9. TypeOK'
    BY <1>1, <1>2, <1>4, <2>4, <2>5, <2>6, <2>8 DEF TypeOK, Forms, Caches, Saves, Uploads, Counts, Visits
  <2>. QED
    BY <1>4, <2>5, <2>6, <2>8, <2>9 DEF Inv
<1>7. CASE Path(a) # Path(At)
  <2>1. Show(a, cache, form)
    BY <1>7 DEF Travel
  <2>2. /\ form' \in Forms /\ FormFits' /\ upload' \in Uploads /\ UploadFits' /\ deleting' \in BOOLEAN
        /\ visit' \in Visits /\ visit' = Began
    BY <1>1, <1>3, <1>7, <2>1, FormStaysFit, Moved
  <2>3. saving' \in Saves /\ SaveFits' /\ DraftFits'
    BY <1>1, <1>2, <1>3, <1>7, <2>2, LeftFits
  <2>4. TypeOK'
    BY <1>1, <1>2, <1>4, <2>2, <2>3 DEF TypeOK, Forms, Caches, Saves, Uploads, Counts, Visits
  <2>. QED
    BY <1>4, <2>2, <2>3, <2>4 DEF Inv
<1>. QED
  BY <1>6, <1>7

LEMMA ReloadKeeps ==
  ASSUME Inv, Reload PROVE Inv'
<1>1. /\ TypeOK /\ Count("errors", MaxErrors) /\ cache' = [d \in Docs |-> NoEntry] /\ form' = Blank
      /\ saving' = Idle /\ upload' = NoUpload /\ deleting' = FALSE /\ visit' = Began
      /\ rows' = rows /\ trail' = trail /\ here' = here /\ leaving' = FALSE
  BY DEF Reload, Began, Inv
<1>2. used' \in Counts /\ used'.rows = used.rows
  BY <1>1, Counted
<1>3. trail' \in Seq(Address) /\ here' \in DOMAIN trail' /\ leaving' \in BOOLEAN /\ At' = At /\ Places' /\ At \in Address
  BY <1>1, AtTyped DEF Inv, TypeOK, At, Places
<1>4. cache' \in Caches /\ ~Loaded(At, cache')
  BY <1>1, <1>3, NoneValues DEF Caches, Loaded, Address
<1>5. /\ form' \in Forms /\ form'.text = form'.base /\ saving' \in Saves /\ saving'.step = ""
      /\ upload' \in Uploads /\ upload'.left = 0 /\ visit' \in Visits
  BY <1>1, NoneValues
<1>6. visit'.made = 0
  BY <1>1 DEF Began
<1>7. FormFits' /\ SaveFits'
  BY <1>3, <1>4, <1>5 DEF FormFits, Dirty, SaveFits
<1>8. UploadFits'
  <2>1. upload'.left = 0
    BY <1>5
  <2>2. ~(upload'.left > 0)
    BY <2>1
  <2>. QED
    BY <2>2 DEF UploadFits
<1>9. DraftFits'
  BY <1>2, <1>6, BeganFits
<1>10. TypeOK'
  BY <1>1, <1>2, <1>3, <1>4, <1>5 DEF TypeOK, Forms, Caches, Saves, Uploads, Counts, Visits
<1>. QED
  BY <1>3, <1>7, <1>8, <1>9, <1>10 DEF Inv

\* An address opened from the page, with what the page makes of it.
LEMMA Pushed ==
  ASSUME Inv, NEW a, Place(a), NEW c \in Caches, NEW f \in Forms, Fits(f), Push(a, c, f),
         Loaded(a, cache') <=> Loaded(a, c)
  PROVE  /\ used' \in Counts /\ used'.rows = used.rows
         /\ trail' \in Seq(Address) /\ here' \in DOMAIN trail' /\ leaving' \in BOOLEAN /\ At' = a /\ Places'
         /\ form' \in Forms /\ FormFits'
         /\ upload' \in Uploads /\ UploadFits' /\ deleting' \in BOOLEAN /\ visit' \in Visits
         /\ Path(a) = Path(At) => visit' = visit
         /\ Path(a) # Path(At) => visit' = Began
<1>1. TypeOK /\ Places /\ Count("moves", MaxMoves) /\ Opens(a) /\ Show(a, c, f)
  BY DEF Push, Opens, Inv
<1>2. used' \in Counts /\ used'.rows = used.rows
  BY <1>1, Counted
<1>3. trail' \in Seq(Address) /\ here' \in DOMAIN trail' /\ leaving' \in BOOLEAN /\ At' = a /\ Places'
  BY <1>1, Opened
<1>4. /\ form' \in Forms /\ FormFits' /\ upload' \in Uploads /\ UploadFits' /\ deleting' \in BOOLEAN
      /\ visit' \in Visits
  BY <1>1, <1>3, Moved
<1>5. (Path(a) = Path(At) => visit' = visit) /\ (Path(a) # Path(At) => visit' = Began)
  BY <1>1, <1>3, Moved
<1>. QED
  BY <1>2, <1>3, <1>4, <1>5

LEMMA StepTyped == ASSUME Inv PROVE Step(At) \in 1 .. 4
BY AtTyped DEF Inv, Step, Address

LEMMA TurnKeeps ==
  ASSUME Inv, NEW step \in 1 .. 4, At.page = "new", Turn(step) PROVE Inv'
<1>1. At \in Address
  BY AtTyped DEF Inv
<1>2. To(step) \in Address /\ To(step).page = At.page /\ To(step).doc = At.doc
  BY <1>1 DEF To, Address
<1>3. Place(To(step)) /\ Path(To(step)) = Path(At)
  BY <1>1, <1>2, SamePath DEF Place
<1>4. Push(To(step), cache, form) /\ rows' = rows /\ cache' = cache /\ saving' = saving
  BY DEF Turn
<1>5. /\ used' \in Counts /\ used'.rows = used.rows
      /\ trail' \in Seq(Address) /\ here' \in DOMAIN trail' /\ leaving' \in BOOLEAN /\ At' = To(step) /\ Places'
      /\ form' \in Forms /\ FormFits'
      /\ upload' \in Uploads /\ UploadFits' /\ deleting' \in BOOLEAN /\ visit' = visit
  BY <1>3, <1>4, FormStaysFit, Pushed
<1>6. saving' \in Saves /\ SaveFits' /\ DraftFits' /\ visit' \in Visits
  BY <1>2, <1>4, <1>5, SaveStays
<1>7. rows' \in [Docs -> Row] /\ cache' \in Caches
  BY <1>4, Typing DEF Inv
<1>. QED
  BY <1>5, <1>6, <1>7 DEF Inv, TypeOK, Forms, Caches, Saves, Uploads, Counts, Visits

LEMMA Turns ==
  ASSUME Inv, NextFromBasics \/ NextFromPhotos \/ Back
  PROVE  \E step \in 1 .. 4 : At.page = "new" /\ Turn(step)
<1>1. CASE NextFromBasics
  BY <1>1 DEF NextFromBasics
<1>2. CASE NextFromPhotos
  BY <1>2 DEF NextFromPhotos
<1>3. CASE Back
  <2>1. At.page = "new" /\ Step(At) > 1 /\ Turn(Step(At) - 1)
    BY <1>3 DEF Back
  <2>2. Step(At) - 1 \in 1 .. 4
    BY <2>1, StepTyped
  <2>. QED
    BY <2>1, <2>2
<1>. QED
  BY <1>1, <1>2, <1>3

LEMMA StepsKeep ==
  ASSUME Inv, NextFromBasics \/ NextFromPhotos \/ Back PROVE Inv'
BY Turns, TurnKeeps

\* Where a form is on screen its document has been read.
LEMMA FormShown ==
  ASSUME Inv, Screen = "form"
  PROVE  /\ At.page # "away"
         /\ At.page \in {"edit", "profile"} =>
              Loaded(At, cache) /\ At.doc \in Docs /\ At.doc # Nothing /\ form.of = At.doc
<1>1. At \in Address /\ FormFits
  BY AtTyped DEF Inv
<1>2. At.page # "away"
  BY <1>1 DEF Screen
<1>3. CASE At.page \in {"edit", "profile"}
  <2>1. Loaded(At, cache)
    BY <1>3 DEF Screen, EditScreen, ProfileScreen, FormScreen
  <2>. QED
    BY <1>1, <1>2, <2>1 DEF Loaded, FormFits, Address
<1>. QED
  BY <1>2, <1>3

LEMMA TypeKeeps ==
  ASSUME Inv, Type \/ Discard PROVE Inv'
<1>1. /\ Screen = "form" /\ rows' = rows /\ cache' = cache /\ saving' = saving /\ upload' = upload
      /\ deleting' = deleting /\ visit' = visit /\ UNCHANGED tab
  BY DEF Type, Discard
<1>2. /\ trail' \in Seq(Address) /\ here' \in DOMAIN trail' /\ leaving' \in BOOLEAN /\ At' = At /\ Places'
      /\ At \in Address /\ upload' \in Uploads /\ UploadFits' /\ deleting' \in BOOLEAN
  BY <1>1, TabStays, RestStays DEF Place
<1>3. form \in Forms /\ used \in Counts /\ FormFits
  BY Typing DEF Inv
<1>4. /\ used' \in Counts /\ used'.rows = used.rows /\ form' \in Forms /\ form'.of = form.of
      /\ (Discard => form'.text = form'.base)
  <2>1. CASE Type
    <3>1. Count("texts", MaxTexts) /\ form' = [form EXCEPT !.text = used.texts + 1] /\ TypeOK
      BY <2>1 DEF Type, Inv
    <3>2. used' \in Counts /\ used'.rows = used.rows /\ used.texts + 1 \in Nat
      BY <1>3, <3>1, Counted, Bounds DEF Counts
    <3>. QED
      BY <1>3, <3>1, <3>2 DEF Forms, Discard, Type
  <2>2. CASE Discard
    BY <1>3, <2>2 DEF Discard, Forms
  <2>. QED
    BY <2>1, <2>2
<1>5. FormFits'
  BY <1>1, <1>2, <1>3, <1>4, FormShown DEF FormFits
<1>6. saving' \in Saves /\ SaveFits' /\ DraftFits' /\ visit' \in Visits
  BY <1>1, <1>2, <1>4, SaveStays
<1>7. rows' \in [Docs -> Row] /\ cache' \in Caches
  BY <1>1, Typing DEF Inv
<1>. QED
  BY <1>2, <1>4, <1>5, <1>6, <1>7 DEF Inv, TypeOK, Forms, Caches, Saves, Uploads, Counts, Visits

LEMMA LoadKeeps ==
  ASSUME Inv, NEW d \in Docs, Load(d) PROVE Inv'
<1>1. /\ cache' = [cache EXCEPT ![d] = Read(d)] /\ form' = Settle(At, cache', form)
      /\ rows' = rows /\ saving' = saving /\ upload' = upload
      /\ deleting' = deleting /\ visit' = visit /\ used' = used /\ UNCHANGED tab /\ TypeOK
  BY DEF Load, Inv
<1>2. /\ trail' \in Seq(Address) /\ here' \in DOMAIN trail' /\ leaving' \in BOOLEAN /\ At' = At /\ Places'
      /\ At \in Address /\ upload' \in Uploads /\ UploadFits' /\ deleting' \in BOOLEAN
  BY <1>1, TabStays, RestStays DEF Place
<1>3. Read(d) \in Entry
  BY <1>1, ReadTyped
<1>4. cache' \in Caches
  BY <1>1, <1>3, FormStaysFit DEF Caches
<1>5. form' \in Forms /\ FormFits'
  <2>1. Fits(form) /\ form \in Forms
    BY FormStaysFit
  <2>2. PICK c : c = cache'
    OBVIOUS
  <2>. QED
    BY <1>1, <1>2, <1>4, <2>1, <2>2, SettledFits
<1>6. saving' \in Saves /\ SaveFits' /\ DraftFits' /\ visit' \in Visits
  BY <1>1, <1>2, SaveStays
<1>7. rows' \in [Docs -> Row] /\ used' \in Counts
  BY <1>1, Typing DEF Inv
<1>. QED
  BY <1>2, <1>4, <1>5, <1>6, <1>7 DEF Inv, TypeOK, Forms, Caches, Saves, Uploads, Counts, Visits

LEMMA LoadFailsKeeps ==
  ASSUME Inv, NEW d \in Docs, LoadFails(d) PROVE Inv'
<1>1. /\ At.doc = d /\ cache' = [cache EXCEPT ![d].failed = TRUE, ![d].stale = FALSE]
      /\ form' = Settle(At, cache', form)
      /\ rows' = rows /\ saving' = saving /\ upload' = upload
      /\ deleting' = deleting /\ visit' = visit /\ UNCHANGED tab /\ TypeOK
      /\ (used' = used \/ Count("errors", MaxErrors))
  BY DEF LoadFails, Wanted, Inv
<1>2. /\ trail' \in Seq(Address) /\ here' \in DOMAIN trail' /\ leaving' \in BOOLEAN /\ At' = At /\ Places'
      /\ At \in Address /\ upload' \in Uploads /\ UploadFits' /\ deleting' \in BOOLEAN
  BY <1>1, TabStays, RestStays DEF Place
<1>3. used' \in Counts /\ used'.rows = used.rows
  BY <1>1, Counted, Typing
<1>4. /\ cache' \in Caches /\ cache'[d].has = cache[d].has /\ cache'[d].failed
  <2>1. cache \in Caches
    BY FormStaysFit
  <2>. QED
    BY <1>1, <2>1, ZenonT(30) DEF Caches, Entry
<1>5. form' \in Forms /\ FormFits'
  <2>1. Fits(form) /\ form \in Forms
    BY FormStaysFit
  <2>2. PICK c : c = cache'
    OBVIOUS
  <2>. QED
    BY <1>1, <1>2, <1>4, <2>1, <2>2, SettledFits
<1>6. saving' \in Saves /\ SaveFits' /\ DraftFits' /\ visit' \in Visits
  BY <1>1, <1>2, <1>3, SaveStays
<1>7. rows' \in [Docs -> Row]
  BY <1>1, Typing DEF Inv
<1>. QED
  BY <1>2, <1>3, <1>4, <1>5, <1>6, <1>7 DEF Inv, TypeOK, Forms, Caches, Saves, Uploads, Counts, Visits

\* A save that is sent: its document is the one on screen, and a creation whose
\* draft has been read updates it.
LEMMA SendKeeps ==
  ASSUME Inv, NEW kind, Send(kind), visit' \in Visits, visit'.made = visit.made, visit.why => visit'.why,
         (kind = "create" /\ At.page = "new") \/ (kind = "update" /\ At.doc # Nothing),
         visit'.why \/ kind = "update" \/ At.doc = Nothing
  PROVE  Inv'
<1>1. /\ Screen = "form" /\ saving.step = ""
      /\ saving' = [step |-> "sent", page |-> At.page, doc |-> At.doc, from |-> At.doc,
                    kind |-> kind, text |-> form.text, here |-> TRUE]
      /\ rows' = rows /\ cache' = cache /\ form' = form /\ upload' = upload
      /\ deleting' = deleting /\ used' = used /\ UNCHANGED tab
  BY DEF Send
<1>2. /\ trail' \in Seq(Address) /\ here' \in DOMAIN trail' /\ leaving' \in BOOLEAN /\ At' = At /\ Places'
      /\ At \in Address /\ upload' \in Uploads /\ UploadFits' /\ deleting' \in BOOLEAN
  BY <1>1, TabStays, RestStays DEF Place
<1>3. form' \in Forms /\ FormFits' /\ form.text \in Nat
  BY <1>1, <1>2, FormStays DEF Forms
<1>4. At.page # "away" /\ kind \in {"create", "update"}
  BY <1>1, FormShown
<1>5. saving' \in Saves
  BY <1>1, <1>2, <1>3, <1>4 DEF Saves, Address
<1>6. SaveFits'
  BY <1>1, <1>2, <1>4 DEF SaveFits, Address
<1>7. DraftFits'
  <2>1. DraftFits
    BY DEF Inv
  <2>2. visit.made > 0 /\ ~visit'.why => visit.made = 1 /\ At.page = "new" /\ At.doc # Nothing
    BY <1>1, <2>1 DEF DraftFits, Settling
  <2>3. visit'.made < used'.rows
    BY <1>1, <2>1 DEF DraftFits
  <2>4. visit.made \in Nat
    BY MadeFewer
  <2>5. saving'.here /\ saving'.kind = kind /\ saving'.from = At.doc
    BY <1>1
  <2>6. visit.made = 0 \/ visit'.why \/ (kind = "update" /\ At.doc # Nothing)
    BY <2>2, <2>4
  <2>. QED
    BY <1>2, <2>2, <2>3, <2>5, <2>6 DEF DraftFits
<1>8. rows' \in [Docs -> Row] /\ cache' \in Caches /\ used' \in Counts
  BY <1>1, Typing DEF Inv
<1>. QED
  BY <1>2, <1>3, <1>5, <1>6, <1>7, <1>8 DEF Inv, TypeOK, Forms, Caches, Saves, Uploads, Counts, Visits

LEMMA SavesKeep ==
  ASSUME Inv, SaveDraft \/ SaveListing \/ SaveProfile PROVE Inv'
<1>1. visit \in Visits
  BY Typing DEF Inv
<1>2. CASE SaveDraft
  <2>1. PICK w \in BOOLEAN : w = (At.doc # Nothing /\ ~Loaded(At, cache))
    OBVIOUS
  <2>2. PICK kind : kind = IF Loaded(At, cache) THEN "update" ELSE "create"
    OBVIOUS
  <2>3. At.page = "new" /\ Send(kind) /\ visit' = [visit EXCEPT !.why = visit.why \/ w]
    BY <1>2, <2>1, <2>2 DEF SaveDraft
  <2>4. visit' \in Visits /\ visit'.made = visit.made /\ (visit.why => visit'.why) /\ (w => visit'.why)
    BY <1>1, <2>3 DEF Visits
  <2>5. (kind = "create" /\ At.page = "new") \/ (kind = "update" /\ At.doc # Nothing)
    BY <2>2, <2>3 DEF Loaded
  <2>6. visit'.why \/ kind = "update" \/ At.doc = Nothing
    BY <2>1, <2>2, <2>4
  <2>. QED
    BY <2>3, <2>4, <2>5, <2>6, SendKeeps
<1>3. CASE SaveListing \/ SaveProfile
  <2>1. Send("update") /\ visit' = visit /\ At.page \in {"edit", "profile"}
    BY <1>3 DEF SaveListing, SaveProfile
  <2>2. At.doc # Nothing
    BY <2>1, FormShown DEF Send
  <2>. QED
    BY <1>1, <2>1, <2>2, SendKeeps
<1>. QED
  BY <1>2, <1>3

\* What the server does is not seen on screen.
LEMMA ServeKeeps ==
  ASSUME Inv, Serve PROVE Inv'
<1>1. /\ saving.step = "sent" /\ cache' = cache /\ form' = form /\ upload' = upload
      /\ deleting' = deleting /\ UNCHANGED tab /\ TypeOK
  BY DEF Serve, Inv
<1>2. /\ trail' \in Seq(Address) /\ here' \in DOMAIN trail' /\ leaving' \in BOOLEAN /\ At' = At /\ Places'
      /\ At \in Address /\ upload' \in Uploads /\ UploadFits' /\ deleting' \in BOOLEAN
      /\ form' \in Forms /\ FormFits' /\ cache' \in Caches
  BY <1>1, TabStays, RestStays, FormStays, FormStaysFit DEF Place
<1>3. /\ rows \in [Docs -> Row] /\ saving \in Saves /\ visit \in Visits /\ used \in Counts
      /\ saving.text \in Nat /\ SaveFits /\ DraftFits
  BY Typing DEF Inv, Saves
<1>4. visit.made \in Nat /\ used.rows \in Nat /\ visit.made < used.rows /\ used.rows <= MaxRows
  BY <1>3, MadeFewer, Bounds DEF Counts
<1>5. SUFFICES rows' \in [Docs -> Row] /\ saving' \in Saves /\ visit' \in Visits /\ used' \in Counts
                 /\ SaveFits' /\ DraftFits'
  BY <1>2 DEF Inv, TypeOK, Forms, Caches, Saves, Uploads, Counts, Visits
<1>6. ASSUME saving.kind = "create", Count("rows", MaxRows),
             rows' = [rows EXCEPT ![used.rows + 1] = [NoRow EXCEPT !.exists = TRUE, !.text = saving.text]],
             saving' = [saving EXCEPT !.step = "done", !.doc = used.rows + 1],
             visit' = [visit EXCEPT !.made = IF saving.here THEN @ + 1 ELSE @]
      PROVE  rows' \in [Docs -> Row] /\ saving' \in Saves /\ visit' \in Visits /\ used' \in Counts
               /\ SaveFits' /\ DraftFits'
  <2>1. used' \in Counts /\ used'.rows = used.rows + 1 /\ used.rows < MaxRows
    BY <1>1, <1>6, Counted
  <2>2. PICK d : d = used.rows + 1
    OBVIOUS
  <2>3. d \in Docs
    BY <1>4, <2>1, <2>2, Bounds DEF Docs
  <2>4. [NoRow EXCEPT !.exists = TRUE, !.text = saving.text] \in Row
    BY <1>3 DEF NoRow, Row
  <2>5. rows' \in [Docs -> Row]
    BY <1>3, <1>6, <2>4
  <2>6. /\ saving' \in Saves /\ saving'.step = "done" /\ saving'.doc = d /\ saving'.kind = "create"
        /\ saving'.page = saving.page /\ saving'.here = saving.here
    BY <1>3, <1>6, <2>2, <2>3 DEF Saves
  <2>7. SaveFits'
    BY <1>1, <1>2, <1>3, <1>6, <2>3, <2>6 DEF SaveFits
  <2>8. CASE saving.here
    <3>1. visit' = [visit EXCEPT !.made = visit.made + 1]
      BY <1>6, <2>8
    <3>2. visit.made + 1 \in 0 .. MaxRows
      BY <1>4, Bounds
    <3>3. visit' \in Visits /\ visit'.made = visit.made + 1 /\ visit'.why = visit.why
      BY <1>3, <3>1, <3>2 DEF Visits
    <3>4. visit.made = 0 \/ visit.why
      BY <1>1, <1>3, <1>6 DEF DraftFits
    <3>5. At'.page = "new"
      BY <1>1, <1>2, <1>3, <1>6, <2>8 DEF SaveFits
    <3>6. visit'.made < used'.rows /\ (~visit.why => visit'.made = 1)
      BY <1>4, <2>1, <3>3, <3>4
    <3>7. DraftFits'
      BY <2>6, <2>8, <3>3, <3>5, <3>6 DEF DraftFits, Settling
    <3>. QED
      BY <2>1, <2>5, <2>6, <2>7, <3>3, <3>7
  <2>9. CASE ~saving.here
    <3>1. visit' = [visit EXCEPT !.made = visit.made]
      BY <1>6, <2>9
    <3>2. visit' \in Visits /\ visit'.made = visit.made
      BY <1>3, <3>1 DEF Visits
    <3>3. visit'.made = 0
      BY <1>1, <1>3, <2>9, <3>2 DEF DraftFits
    <3>4. visit'.made < used'.rows
      BY <1>4, <2>1, <3>3
    <3>5. DraftFits'
      BY <3>3, <3>4 DEF DraftFits
    <3>. QED
      BY <2>1, <2>5, <2>6, <2>7, <3>2, <3>5
  <2>. QED
    BY <2>8, <2>9
<1>7. ASSUME saving.kind = "update", rows' = [rows EXCEPT ![saving.doc].text = saving.text],
             saving' = [saving EXCEPT !.step = "done"], used' = used, visit' = visit
      PROVE  rows' \in [Docs -> Row] /\ saving' \in Saves /\ visit' \in Visits /\ used' \in Counts
               /\ SaveFits' /\ DraftFits'
  <2>1. /\ saving' \in Saves /\ saving'.step = "done" /\ saving'.doc = saving.doc
        /\ saving'.kind = saving.kind /\ saving'.page = saving.page /\ saving'.here = saving.here
    BY <1>3, <1>7 DEF Saves
  <2>2. SaveFits'
    BY <1>1, <1>2, <1>3, <1>7, <2>1 DEF SaveFits
  <2>3. DraftFits'
    BY <1>1, <1>2, <1>3, <1>7, <2>1 DEF DraftFits, Settling
  <2>4. rows' \in [Docs -> Row]
    BY <1>3, <1>7 DEF Row
  <2>. QED
    BY <1>3, <1>7, <2>1, <2>2, <2>3, <2>4
<1>8. ASSUME used' = used \/ Count("errors", MaxErrors), saving' = [saving EXCEPT !.step = "refused"],
             rows' = rows, visit' = visit
      PROVE  rows' \in [Docs -> Row] /\ saving' \in Saves /\ visit' \in Visits /\ used' \in Counts
               /\ SaveFits' /\ DraftFits'
  <2>1. /\ saving' \in Saves /\ saving'.step = "refused" /\ saving'.doc = saving.doc
        /\ saving'.kind = saving.kind /\ saving'.page = saving.page /\ saving'.here = saving.here
        /\ saving'.from = saving.from
    BY <1>3, <1>8 DEF Saves
  <2>2. used' \in Counts /\ used'.rows = used.rows
    BY <1>1, <1>3, <1>8, Counted
  <2>3. SaveFits'
    BY <1>1, <1>2, <1>3, <2>1 DEF SaveFits
  <2>4. DraftFits'
    BY <1>1, <1>2, <1>3, <1>8, <2>1, <2>2 DEF DraftFits, Settling
  <2>. QED
    BY <1>3, <1>8, <2>1, <2>2, <2>3, <2>4
<1>. QED
  BY <1>6, <1>7, <1>8 DEF Serve

\* The address an answer leads to is the page's own.
Going(doc, step) == IF At.page = "new" THEN [At EXCEPT !.doc = doc, !.step = step] ELSE At

LEMMA GoTyped ==
  ASSUME Inv, NEW doc \in Docs \cup {Nothing}, NEW step \in 1 .. 4, NEW a, a = Going(doc, step)
  PROVE  /\ Place(a) /\ Path(a) = Path(At) /\ a.page = At.page
         /\ At.page = "new" => a.doc = doc
<1>1. At \in Address /\ Place(At)
  BY AtTyped DEF Inv, Place, Places, At, TypeOK
<1>2. CASE At.page = "new"
  <2>1. a = [[At EXCEPT !.doc = doc] EXCEPT !.step = step]
    BY <1>2 DEF Going
  <2>2. [At EXCEPT !.doc = doc] \in Address
    BY <1>1 DEF Address
  <2>3. a \in Address /\ a.page = At.page /\ a.doc = doc
    BY <1>1, <2>1, <2>2 DEF Address
  <2>. QED
    BY <1>1, <1>2, <2>3, SamePath DEF Place
<1>3. CASE At.page # "new"
  BY <1>1, <1>3 DEF Going
<1>. QED
  BY <1>2, <1>3

LEMMA DraftSavedKeeps ==
  ASSUME Inv, DraftSaved PROVE Inv'
<1>. DEFINE f == IF saving.here /\ saving.kind = "create" THEN Filled(form.of, saving.text) ELSE form
<1>1. PICK a : a = Going(saving.doc, 3)
  OBVIOUS
<1>2. /\ saving.step = "done" /\ cache' = WithSaved /\ Push(a, WithSaved, f) /\ saving' = Idle
      /\ rows' = rows /\ TypeOK
  BY <1>1 DEF DraftSaved, Go, Going, Inv
<1>3. saving.doc \in Docs /\ saving.text \in Nat
  BY <1>2, Typing DEF Inv, SaveFits, Saves
<1>4. Place(a) /\ Path(a) = Path(At) /\ a.page = At.page /\ (At.page = "new" => a.doc = saving.doc)
  <2>1. saving.doc \in Docs \cup {Nothing} /\ 3 \in 1 .. 4
    BY <1>3
  <2>. QED
    BY <1>1, <2>1, GoTyped
<1>5. WithSaved \in Caches
  BY <1>2, <1>3, WithSavedTyped
<1>6. f \in Forms /\ Fits(f)
  <2>1. form \in Forms /\ Fits(form)
    BY FormStaysFit
  <2>. QED
    BY <1>3, <2>1 DEF Filled, Forms, Fits
<1>. HIDE DEF f
<1>7. /\ used' \in Counts /\ used'.rows = used.rows
      /\ trail' \in Seq(Address) /\ here' \in DOMAIN trail' /\ leaving' \in BOOLEAN /\ At' = a /\ Places'
      /\ form' \in Forms /\ FormFits'
      /\ upload' \in Uploads /\ UploadFits' /\ deleting' \in BOOLEAN /\ visit' \in Visits /\ visit' = visit
  BY <1>2, <1>4, <1>5, <1>6, Pushed
<1>8. visit.made > 0 /\ ~visit.why => At'.doc # Nothing
  BY <1>3, <1>4, <1>7, NoneValues DEF Inv, DraftFits
<1>9. saving' \in Saves /\ SaveFits' /\ DraftFits'
  BY <1>2, <1>4, <1>7, <1>8, SaveEnds
<1>10. rows' \in [Docs -> Row]
  BY <1>2, Typing
<1>. QED
  BY <1>2, <1>5, <1>7, <1>9, <1>10 DEF Inv, TypeOK, Forms, Caches, Saves, Uploads, Counts, Visits

LEMMA FormSavedKeeps ==
  ASSUME Inv, FormSaved PROVE Inv'
<1>1. /\ saving.step = "done" /\ saving.page # "new" /\ cache' = WithSaved /\ saving' = Idle
      /\ form' = (IF saving.here /\ Loaded(At, cache') THEN Filled(saving.doc, saving.text)
                                                      ELSE Settle(At, cache', form))
      /\ rows' = rows /\ upload' = upload /\ deleting' = deleting /\ used' = used
      /\ visit' = visit /\ UNCHANGED tab /\ TypeOK
  BY DEF FormSaved, Inv
<1>2. /\ trail' \in Seq(Address) /\ here' \in DOMAIN trail' /\ leaving' \in BOOLEAN /\ At' = At /\ Places'
      /\ At \in Address /\ upload' \in Uploads /\ UploadFits' /\ deleting' \in BOOLEAN
  BY <1>1, TabStays, RestStays DEF Place
<1>3. saving.doc \in Docs /\ saving.text \in Nat
  BY <1>1, Typing DEF Inv, SaveFits, Saves
<1>4. cache' \in Caches
  BY <1>1, <1>3, WithSavedTyped
<1>5. form' \in Forms /\ FormFits'
  <2>1. Fits(form) /\ form \in Forms
    BY FormStaysFit
  <2>2. CASE saving.here /\ Loaded(At, cache')
    <3>1. At.doc = saving.doc
      BY <1>1, <2>2 DEF Inv, SaveFits
    <3>2. form' = [text |-> saving.text, base |-> saving.text, of |-> saving.doc]
      BY <1>1, <2>2 DEF Filled
    <3>. QED
      BY <1>2, <1>3, <3>1, <3>2 DEF Forms, FormFits, Dirty
  <2>3. CASE ~(saving.here /\ Loaded(At, cache'))
    <3>1. form' = Settle(At, cache', form)
      BY <1>1, <2>3
    <3>2. PICK c : c = cache'
      OBVIOUS
    <3>. QED
      BY <1>1, <1>2, <1>4, <2>1, <3>1, <3>2, SettledFits
  <2>. QED
    BY <2>2, <2>3
<1>6. visit.made > 0 /\ ~visit.why => At'.doc # Nothing
  BY <1>1, <1>2 DEF Inv, DraftFits, Settling, SaveFits
<1>7. saving' \in Saves /\ SaveFits' /\ DraftFits'
  BY <1>1, <1>2, <1>6, SaveEnds
<1>8. rows' \in [Docs -> Row] /\ used' \in Counts /\ visit' \in Visits
  BY <1>1, Typing
<1>. QED
  BY <1>2, <1>4, <1>5, <1>7, <1>8 DEF Inv, TypeOK, Forms, Caches, Saves, Uploads, Counts, Visits

LEMMA RefusedKeeps ==
  ASSUME Inv, Refused PROVE Inv'
<1>1. /\ saving.step = "refused" /\ saving' = Idle /\ rows' = rows /\ cache' = cache
      /\ TypeOK
  BY DEF Refused, Inv
<1>2. visit.made = 0 \/ visit.why \/ (saving.kind = "update" /\ saving.from # Nothing)
  BY <1>1 DEF Inv, DraftFits
<1>3. rows' \in [Docs -> Row] /\ cache' \in Caches /\ visit.made \in Nat
  BY <1>1, Typing, MadeFewer
<1>4. CASE Go(saving.from, 1, cache, form)
  <2>1. PICK a : a = Going(saving.from, 1)
    OBVIOUS
  <2>2. Push(a, cache, form)
    BY <1>4, <2>1 DEF Go, Going
  <2>3. saving.from \in Docs \cup {Nothing}
    BY <1>1, Typing DEF Saves
  <2>4. Place(a) /\ Path(a) = Path(At) /\ a.page = At.page /\ (At.page = "new" => a.doc = saving.from)
    <3>1. 1 \in 1 .. 4
      OBVIOUS
    <3>. QED
      BY <2>1, <2>3, <3>1, GoTyped
  <2>5. Loaded(a, cache') <=> Loaded(a, cache)
    BY <1>1
  <2>6. /\ used' \in Counts /\ used'.rows = used.rows
        /\ trail' \in Seq(Address) /\ here' \in DOMAIN trail' /\ leaving' \in BOOLEAN /\ At' = a /\ Places'
        /\ form' \in Forms /\ FormFits'
        /\ upload' \in Uploads /\ UploadFits' /\ deleting' \in BOOLEAN /\ visit' \in Visits /\ visit' = visit
    BY <2>2, <2>4, <2>5, FormStaysFit, Pushed
  <2>7. visit.made > 0 /\ ~visit.why => At'.doc # Nothing
    <3>1. ASSUME visit.made > 0, ~visit.why PROVE saving.from # Nothing /\ At.page = "new"
      <4>1. DraftFits
        BY DEF Inv
      <4>2. At.page = "new"
        BY <3>1, <4>1 DEF DraftFits
      <4>3. visit.made # 0
        BY <1>3, <3>1
      <4>. QED
        BY <1>2, <3>1, <4>2, <4>3
    <3>. QED
      BY <2>4, <2>6, <3>1
  <2>8. saving' \in Saves /\ SaveFits' /\ DraftFits'
    BY <1>1, <2>4, <2>6, <2>7, SaveEnds
  <2>. QED
    BY <1>3, <2>6, <2>8 DEF Inv, TypeOK, Forms, Caches, Saves, Uploads, Counts, Visits
<1>5. CASE UNCHANGED <<tab, form, upload, deleting, used, visit>>
  <2>1. /\ trail' \in Seq(Address) /\ here' \in DOMAIN trail' /\ leaving' \in BOOLEAN /\ At' = At /\ Places'
        /\ At \in Address /\ upload' \in Uploads /\ UploadFits' /\ deleting' \in BOOLEAN
        /\ form' \in Forms /\ FormFits'
    BY <1>1, <1>5, TabStays, RestStays, FormStays DEF Place
  <2>2. visit.made > 0 /\ ~visit.why => At'.doc # Nothing
    BY <1>1, <2>1 DEF Inv, DraftFits, Settling
  <2>3. saving' \in Saves /\ SaveFits' /\ DraftFits'
    BY <1>1, <1>5, <2>1, <2>2, SaveEnds
  <2>4. used' \in Counts /\ visit' \in Visits
    BY <1>1, <1>5, Typing
  <2>. QED
    BY <1>3, <2>1, <2>3, <2>4 DEF Inv, TypeOK, Forms, Caches, Saves, Uploads, Counts, Visits
<1>. QED
  BY <1>4, <1>5 DEF Refused

LEMMA SaveLostKeeps ==
  ASSUME Inv, SaveLost PROVE Inv'
<1>1. /\ saving.step \in {"sent", "done"} /\ saving' = Idle /\ rows' = rows /\ cache' = cache
      /\ form' = form /\ upload' = upload /\ deleting' = deleting /\ UNCHANGED tab /\ TypeOK
      /\ Count("errors", MaxErrors)
  BY DEF SaveLost, Inv
<1>2. PICK w \in BOOLEAN : w = (saving.step = "done")
  OBVIOUS
<1>3. visit' = [visit EXCEPT !.why = visit.why \/ w] /\ visit \in Visits
  BY <1>1, <1>2, Typing DEF SaveLost
<1>4. /\ visit' \in Visits /\ visit'.made = visit.made /\ (visit.why => visit'.why)
      /\ (visit'.why \/ saving.step # "done")
  <2>1. /\ visit' \in Visits /\ visit'.made = visit.made /\ (visit.why => visit'.why) /\ (w => visit'.why)
    BY <1>3 DEF Visits
  <2>. QED
    BY <1>2, <2>1
<1>5. /\ trail' \in Seq(Address) /\ here' \in DOMAIN trail' /\ leaving' \in BOOLEAN /\ At' = At /\ Places'
      /\ At \in Address /\ upload' \in Uploads /\ UploadFits' /\ deleting' \in BOOLEAN
      /\ form' \in Forms /\ FormFits'
  BY <1>1, TabStays, RestStays, FormStays DEF Place
<1>6. used' \in Counts /\ used'.rows = used.rows
  BY <1>1, Counted
<1>7. visit.made > 0 /\ ~visit'.why => At'.doc # Nothing
  BY <1>4, <1>5 DEF Inv, DraftFits, Settling
<1>8. saving' \in Saves /\ SaveFits' /\ DraftFits'
  BY <1>1, <1>4, <1>5, <1>6, <1>7, SaveEnds
<1>9. rows' \in [Docs -> Row] /\ cache' \in Caches
  BY <1>1, Typing
<1>. QED
  BY <1>4, <1>5, <1>6, <1>8, <1>9 DEF Inv, TypeOK, Forms, Caches, Saves, Uploads, Counts, Visits

LEMMA PublishKeeps ==
  ASSUME Inv, Publish PROVE Inv'
<1>1. /\ At.page = "new" /\ Push(Away, cache, form) /\ cache' = Stale(cache)
      /\ saving' = Elsewhere(Away) /\ rows' = rows
  BY DEF Publish
<1>2. Place(Away) /\ Away \in Address /\ At \in Address
  BY NoneValues, AtTyped DEF Place, Inv
<1>3. Path(Away) # Path(At)
  BY <1>1, <1>2, NoneValues, SamePath
<1>4. ~Loaded(Away, cache') /\ ~Loaded(Away, cache)
  BY NoneValues DEF Loaded
<1>5. /\ used' \in Counts /\ used'.rows = used.rows
      /\ trail' \in Seq(Address) /\ here' \in DOMAIN trail' /\ leaving' \in BOOLEAN /\ At' = Away /\ Places'
      /\ form' \in Forms /\ FormFits'
      /\ upload' \in Uploads /\ UploadFits' /\ deleting' \in BOOLEAN /\ visit' \in Visits /\ visit' = Began
  BY <1>1, <1>2, <1>3, <1>4, FormStaysFit, Pushed
<1>6. saving' \in Saves /\ SaveFits' /\ DraftFits'
  BY <1>1, <1>2, <1>3, <1>5, LeftFits
<1>7. rows' \in [Docs -> Row] /\ cache' \in Caches
  BY <1>1, Typing, FormStaysFit, Staled DEF Inv
<1>. QED
  BY <1>5, <1>6, <1>7 DEF Inv, TypeOK, Forms, Caches, Saves, Uploads, Counts, Visits

\* Documents change at the server, and the lists are read again.
LEMMA DocumentsChange ==
  ASSUME Inv, rows' \in [Docs -> Row], cache' = cache \/ cache' = Stale(cache), form' = form,
         saving' = saving, visit' = visit, UNCHANGED tab, used' \in Counts, used'.rows = used.rows,
         upload' \in Uploads, UploadFits', deleting' = deleting
  PROVE  Inv'
<1>1. /\ trail' \in Seq(Address) /\ here' \in DOMAIN trail' /\ leaving' \in BOOLEAN /\ At' = At /\ Places' /\ At \in Address
  BY TabStays DEF Place
<1>2. cache' \in Caches /\ (Loaded(At, cache') <=> Loaded(At, cache))
  <2>1. cache \in Caches
    BY FormStaysFit
  <2>2. Stale(cache) \in Caches /\ (Loaded(At, Stale(cache)) <=> Loaded(At, cache))
    BY <1>1, <2>1, Staled, LoadedStays
  <2>. QED
    BY <2>1, <2>2
<1>3. form' \in Forms /\ FormFits'
  BY <1>1, <1>2, FormStays
<1>4. saving' \in Saves /\ SaveFits' /\ DraftFits' /\ visit' \in Visits
  BY <1>1, SaveStays
<1>5. deleting' \in BOOLEAN
  BY Typing DEF Inv
<1>. QED
  BY <1>1, <1>2, <1>3, <1>4, <1>5 DEF Inv, TypeOK, Forms, Caches, Saves, Uploads, Counts, Visits

\* A photo more or less, or a document gone.
LEMMA RowTyped ==
  ASSUME NEW r \in Row, NEW n \in Nat, NEW b \in BOOLEAN
  PROVE  [r EXCEPT !.photos = n] \in Row /\ [r EXCEPT !.exists = b] \in Row
         /\ [r EXCEPT !.removed = b] \in Row
BY DEF Row

LEMMA ToggleKeeps ==
  ASSUME Inv, Toggle PROVE Inv'
<1>1. /\ cache' = Stale(cache) /\ rows' = rows /\ form' = form /\ saving' = saving /\ upload' = upload
      /\ deleting' = deleting /\ used' = used /\ visit' = visit /\ UNCHANGED tab
  BY DEF Toggle
<1>2. upload' \in Uploads /\ UploadFits'
  BY <1>1, RestStays
<1>3. rows' \in [Docs -> Row] /\ used' \in Counts
  BY <1>1, Typing DEF Inv
<1>. QED
  BY <1>1, <1>2, <1>3, DocumentsChange

\* Another page in the place of this one.
LEMMA Replaced ==
  ASSUME Inv, NEW c \in Caches, Replace(c), used'.rows = used.rows
  PROVE  /\ trail' \in Seq(Address) /\ here' \in DOMAIN trail' /\ At' = Away /\ Places'
         /\ form' \in Forms /\ FormFits' /\ upload' \in Uploads /\ UploadFits' /\ deleting' \in BOOLEAN
         /\ visit' \in Visits /\ saving' \in Saves /\ SaveFits' /\ DraftFits'
<1>1. /\ trail' = [trail EXCEPT ![here] = Away] /\ here' = here /\ Show(Away, c, form)
      /\ saving' = Elsewhere(Away) /\ TypeOK /\ Places /\ At \in Address
  BY AtTyped DEF Replace, Inv
<1>2. trail \in Seq(Address) /\ here \in DOMAIN trail /\ Away \in Address /\ DOMAIN trail = 1 .. Len(trail)
  BY <1>1, NoneValues, AtTyped DEF TypeOK
<1>3. /\ trail' \in Seq(Address) /\ DOMAIN trail' = DOMAIN trail /\ trail'[here] = Away
      /\ \A i \in DOMAIN trail : i # here => trail'[i] = trail[i]
  BY <1>1, <1>2
<1>4. here' \in DOMAIN trail' /\ At' = Away
  BY <1>1, <1>2, <1>3 DEF At
<1>5. Places'
  BY <1>1, <1>3, NoneValues DEF Places
<1>6. Place(Away) /\ ~Loaded(Away, cache') /\ ~Loaded(Away, c)
  BY NoneValues DEF Place, Loaded
<1>7. /\ form' \in Forms /\ FormFits' /\ upload' \in Uploads /\ UploadFits' /\ deleting' \in BOOLEAN
      /\ visit' \in Visits /\ (Path(Away) = Path(At) => visit' = visit)
      /\ (Path(Away) # Path(At) => visit' = Began)
  BY <1>1, <1>4, <1>6, FormStaysFit, Moved
<1>8. Path(Away) = Path(At) => Away.doc = At.doc
  BY <1>1, <1>2, NoneValues, SamePath
<1>9. saving' \in Saves /\ SaveFits' /\ DraftFits'
  BY <1>1, <1>2, <1>4, <1>7, <1>8, LeftFits
<1>. QED
  BY <1>3, <1>4, <1>5, <1>7, <1>9

LEMMA SignOutKeeps ==
  ASSUME Inv, SignOut PROVE Inv'
<1>1. leaving' = TRUE /\ Count("errors", MaxErrors) /\ rows' = rows /\ cache' = cache /\ TypeOK
  BY DEF SignOut, Inv
<1>2. used' \in Counts /\ used'.rows = used.rows
  BY <1>1, Counted
<1>3. rows' \in [Docs -> Row] /\ cache' \in Caches /\ cache \in Caches
  BY <1>1, Typing
<1>4. CASE Replace(cache)
  <2>1. /\ trail' \in Seq(Address) /\ here' \in DOMAIN trail' /\ Places'
        /\ form' \in Forms /\ FormFits' /\ upload' \in Uploads /\ UploadFits' /\ deleting' \in BOOLEAN
        /\ visit' \in Visits /\ saving' \in Saves /\ SaveFits' /\ DraftFits'
    BY <1>2, <1>3, <1>4, Replaced
  <2>. QED
    BY <1>1, <1>2, <1>3, <2>1 DEF Inv, TypeOK, Forms, Caches, Saves, Uploads, Counts, Visits
<1>5. CASE UNCHANGED <<trail, here, form, saving, upload, deleting, visit>>
  <2>1. At' = At /\ trail' \in Seq(Address) /\ here' \in DOMAIN trail' /\ Places'
    BY <1>1, <1>5 DEF At, TypeOK, Inv, Places
  <2>2. form' \in Forms /\ FormFits'
    BY <1>1, <1>5, <2>1, FormStays
  <2>3. saving' \in Saves /\ SaveFits' /\ DraftFits' /\ visit' \in Visits
    BY <1>2, <1>5, <2>1, SaveStays
  <2>4. upload' \in Uploads /\ UploadFits' /\ deleting' \in BOOLEAN
    BY <1>5, RestStays
  <2>. QED
    BY <1>1, <1>2, <1>3, <2>1, <2>2, <2>3, <2>4
       DEF Inv, TypeOK, Forms, Caches, Saves, Uploads, Counts, Visits
<1>. QED
  BY <1>4, <1>5 DEF SignOut

LEMMA SessionOverKeeps ==
  ASSUME Inv, SignedOut \/ Expire PROVE Inv'
<1>1. /\ cache' = [d \in Docs |-> NoEntry] /\ Replace(cache') /\ rows' = rows /\ TypeOK
      /\ (used' = used \/ Count("errors", MaxErrors)) /\ leaving' \in BOOLEAN
  BY DEF SignedOut, Expire, SessionOver, Inv, TypeOK
<1>2. used' \in Counts /\ used'.rows = used.rows
  BY <1>1, Counted, Typing
<1>3. PICK c : c = cache'
  OBVIOUS
<1>4. c \in Caches /\ Replace(c)
  BY <1>1, <1>3, NoneValues DEF Caches
<1>5. /\ trail' \in Seq(Address) /\ here' \in DOMAIN trail' /\ Places'
      /\ form' \in Forms /\ FormFits' /\ upload' \in Uploads /\ UploadFits' /\ deleting' \in BOOLEAN
      /\ visit' \in Visits /\ saving' \in Saves /\ SaveFits' /\ DraftFits'
  BY <1>2, <1>4, Replaced
<1>6. rows' \in [Docs -> Row] /\ cache' \in Caches
  BY <1>1, <1>3, <1>4, Typing
<1>. QED
  BY <1>1, <1>2, <1>5, <1>6 DEF Inv, TypeOK, Forms, Caches, Saves, Uploads, Counts, Visits

LEMMA DeleteKeeps ==
  ASSUME Inv, Delete PROVE Inv'
<1>1. /\ At.page = "edit" /\ rows' = [rows EXCEPT ![At.doc].exists = FALSE]
      /\ cache' = [Stale(cache) EXCEPT ![At.doc] = NoEntry] /\ TypeOK /\ Places
  BY DEF Delete, Inv
<1>2. rows \in [Docs -> Row] /\ At \in Address /\ cache \in Caches /\ used \in Counts /\ At.doc \in Docs
  <2>1. rows \in [Docs -> Row] /\ At \in Address /\ cache \in Caches /\ used \in Counts
    BY <1>1, Typing, AtTyped
  <2>2. At.doc # Nothing
    BY DEF Delete, Loaded, EditRemoved
  <2>. QED
    BY <2>1, <2>2 DEF Address
<1>3. rows' \in [Docs -> Row]
  <2>1. PICK r : r = rows[At.doc]
    OBVIOUS
  <2>2. r \in Row /\ rows' = [rows EXCEPT ![At.doc] = [r EXCEPT !.exists = FALSE]]
    BY <1>1, <1>2, <2>1
  <2>3. [r EXCEPT !.exists = FALSE] \in Row
    BY <2>2 DEF Row
  <2>. QED
    BY <1>2, <2>2, <2>3
<1>4. Stale(cache) \in Caches /\ cache' \in Caches /\ cache'[At.doc] = NoEntry
  <2>1. Stale(cache) \in Caches
    BY <1>2, Staled
  <2>. QED
    BY <1>1, <1>2, <2>1, NoneValues DEF Caches
<1>5. CASE Replace(cache') /\ UNCHANGED <<leaving, used>>
  <2>1. PICK c : c = cache'
    OBVIOUS
  <2>2. c \in Caches /\ Replace(c) /\ used'.rows = used.rows
    BY <1>4, <1>5, <2>1
  <2>3. /\ trail' \in Seq(Address) /\ here' \in DOMAIN trail' /\ Places'
        /\ form' \in Forms /\ FormFits' /\ upload' \in Uploads /\ UploadFits' /\ deleting' \in BOOLEAN
        /\ visit' \in Visits /\ saving' \in Saves /\ SaveFits' /\ DraftFits'
    BY <2>2, Replaced
  <2>4. leaving' \in BOOLEAN /\ used' \in Counts
    BY <1>1, <1>2, <1>5 DEF TypeOK
  <2>. QED
    BY <1>3, <1>4, <2>3, <2>4 DEF Inv, TypeOK, Forms, Caches, Saves, Uploads, Counts, Visits
<1>6. CASE deleting' = TRUE /\ form' = Blank /\ UNCHANGED <<tab, saving, upload, used, visit>>
  <2>1. /\ trail' \in Seq(Address) /\ here' \in DOMAIN trail' /\ leaving' \in BOOLEAN /\ At' = At /\ Places'
    BY <1>6, TabStays
  <2>2. ~Loaded(At, cache')
    BY <1>4, NoneValues DEF Loaded
  <2>3. form' \in Forms /\ FormFits'
    BY <1>6, <2>1, <2>2, NoneValues DEF FormFits, Dirty
  <2>4. saving' \in Saves /\ SaveFits' /\ DraftFits' /\ visit' \in Visits
    BY <1>6, <2>1, SaveStays
  <2>5. upload' \in Uploads /\ UploadFits'
    BY <1>1, <1>6, Typing DEF Inv, UploadFits
  <2>. QED
    BY <1>2, <1>3, <1>4, <1>6, <2>1, <2>3, <2>4, <2>5
       DEF Inv, TypeOK, Forms, Caches, Saves, Uploads, Counts, Visits
<1>. QED
  BY <1>5, <1>6 DEF Delete

LEMMA ElseDeviceKeeps ==
  ASSUME Inv, NEW d \in Docs, ElseDevice(d) PROVE Inv'
<1>1. /\ cache' = cache /\ form' = form /\ saving' = saving /\ upload' = upload
      /\ deleting' = deleting /\ visit' = visit /\ UNCHANGED tab /\ Count("errors", MaxErrors) /\ TypeOK
  BY DEF ElseDevice, Inv
<1>2. upload' \in Uploads /\ UploadFits' /\ used' \in Counts /\ used'.rows = used.rows
  BY <1>1, RestStays, Counted
<1>3. PICK r : r = rows[d]
  OBVIOUS
<1>4. rows \in [Docs -> Row] /\ r \in Row
  BY <1>1, <1>3, Typing
<1>5. r.photos + 1 \in Nat
  BY <1>4 DEF Row
<1>6. \/ rows' = [rows EXCEPT ![d] = [r EXCEPT !.exists = FALSE]]
      \/ rows' = [rows EXCEPT ![d] = [r EXCEPT !.photos = r.photos + 1]]
  BY <1>3 DEF ElseDevice
<1>7. rows' \in [Docs -> Row]
  BY <1>4, <1>5, <1>6, RowTyped
<1>. QED
  BY <1>1, <1>2, <1>7, DocumentsChange

LEMMA ModerateKeeps ==
  ASSUME Inv, NEW d \in Docs, Moderate(d) PROVE Inv'
<1>1. /\ cache' = cache /\ form' = form /\ saving' = saving /\ upload' = upload
      /\ deleting' = deleting /\ visit' = visit /\ UNCHANGED tab /\ TypeOK
      /\ (used' = used \/ Count("errors", MaxErrors))
  BY DEF Moderate, Inv
<1>2. upload' \in Uploads /\ UploadFits' /\ used' \in Counts /\ used'.rows = used.rows
  BY <1>1, RestStays, Counted, Typing
<1>3. PICK r : r = rows[d]
  OBVIOUS
<1>4. PICK b : b = ~r.removed
  OBVIOUS
<1>5. rows \in [Docs -> Row] /\ r \in Row /\ b \in BOOLEAN
  BY <1>1, <1>3, <1>4, Typing
<1>6. rows' = [rows EXCEPT ![d] = [r EXCEPT !.removed = b]]
  BY <1>3, <1>4 DEF Moderate
<1>7. 0 \in Nat
  OBVIOUS
<1>8. rows' \in [Docs -> Row]
  BY <1>5, <1>6, <1>7, RowTyped
<1>. QED
  BY <1>1, <1>2, <1>8, DocumentsChange

LEMMA PickKeeps ==
  ASSUME Inv, NEW n \in 1 .. MaxPicks, Pick(n) PROVE Inv'
<1>1. /\ Loaded(At, cache) /\ Left(At.doc) > 0
      /\ upload' = [doc |-> At.doc, left |-> IF n <= Left(At.doc) THEN n ELSE Left(At.doc), here |-> TRUE]
      /\ cache' = cache /\ form' = form /\ saving' = saving /\ rows' = rows
      /\ deleting' = deleting /\ used' = used /\ visit' = visit /\ UNCHANGED tab /\ TypeOK
  BY DEF Pick, PhotosShown, Inv
<1>2. At.doc \in Docs /\ cache \in Caches
  BY <1>1, AtTyped, FormStaysFit DEF Loaded, Address
<1>3. PICK k : k = Left(At.doc)
  OBVIOUS
<1>4. k \in 0 .. MaxPhotos
  BY <1>1, <1>2, <1>3, Bounds DEF Left, Caches, Entry, Row
<1>5. PICK m : m = IF n <= k THEN n ELSE k
  OBVIOUS
<1>6. m \in 0 .. MaxPhotos
  BY <1>4, <1>5, Bounds
<1>7. upload' = [doc |-> At.doc, left |-> m, here |-> TRUE]
  BY <1>1, <1>3, <1>5
<1>8. upload' \in Uploads /\ UploadFits'
  BY <1>2, <1>6, <1>7 DEF Uploads, UploadFits
<1>9. rows' \in [Docs -> Row] /\ used' \in Counts
  BY <1>1, Typing
<1>. QED
  BY <1>1, <1>8, <1>9, DocumentsChange

LEMMA UploadOneKeeps ==
  ASSUME Inv, UploadOne PROVE Inv'
<1>1. /\ upload.left > 0 /\ cache' = Stale(cache) /\ form' = form /\ saving' = saving
      /\ deleting' = deleting /\ visit' = visit /\ UNCHANGED tab /\ TypeOK
  BY DEF UploadOne, Inv
<1>2. rows \in [Docs -> Row] /\ upload \in Uploads /\ used \in Counts /\ upload.doc \in Docs
  BY <1>1, Typing DEF Inv, UploadFits
<1>3. PICK d : d = upload.doc
  OBVIOUS
<1>4. PICK r : r = rows[d]
  OBVIOUS
<1>5. r \in Row /\ d \in Docs
  BY <1>2, <1>3, <1>4
<1>6. r.photos + 1 \in Nat
  BY <1>5 DEF Row
<1>7. rows' = rows \/ rows' = [rows EXCEPT ![d] = [r EXCEPT !.photos = r.photos + 1]]
  BY <1>3, <1>4 DEF UploadOne
<1>8. rows' \in [Docs -> Row]
  BY <1>2, <1>5, <1>6, <1>7, RowTyped
<1>9. used' = used \/ Count("errors", MaxErrors)
  BY DEF UploadOne
<1>10. used' \in Counts /\ used'.rows = used.rows
  BY <1>1, <1>2, <1>9, Counted
<1>11. upload' = NoUpload \/ (upload.left - 1 # 0 /\ upload' = [upload EXCEPT !.left = upload.left - 1])
  BY DEF UploadOne
<1>12. upload' \in Uploads /\ UploadFits'
  <2>1. CASE upload' = NoUpload
    <3>1. upload'.left = 0 /\ upload' \in Uploads
      BY <2>1, NoneValues
    <3>2. ~(upload'.left > 0)
      BY <3>1
    <3>. QED
      BY <3>1, <3>2 DEF UploadFits
  <2>2. CASE upload' = [upload EXCEPT !.left = upload.left - 1]
    <3>1. upload.left - 1 \in 0 .. MaxPhotos
      BY <1>1, <1>2, Bounds DEF Uploads
    <3>2. upload' \in Uploads /\ upload'.doc = upload.doc
      BY <1>2, <2>2, <3>1 DEF Uploads
    <3>. QED
      BY <1>2, <3>2 DEF UploadFits
  <2>. QED
    BY <1>11, <2>1, <2>2
<1>. QED
  BY <1>1, <1>8, <1>10, <1>12, DocumentsChange

LEMMA DropPhotoKeeps ==
  ASSUME Inv, DropPhoto PROVE Inv'
<1>1. /\ Loaded(At, cache) /\ rows[At.doc].photos > 0
      /\ rows' = [rows EXCEPT ![At.doc].photos = @ - 1]
      /\ cache' = Stale(cache) /\ form' = form /\ saving' = saving /\ upload' = upload
      /\ deleting' = deleting /\ used' = used /\ visit' = visit /\ UNCHANGED tab /\ TypeOK
  BY DEF DropPhoto, PhotosShown, Inv
<1>2. At.doc \in Docs /\ rows \in [Docs -> Row] /\ used' \in Counts
  BY <1>1, AtTyped, Typing DEF Loaded, Address
<1>3. PICK r : r = rows[At.doc]
  OBVIOUS
<1>4. r \in Row /\ r.photos > 0
  BY <1>1, <1>2, <1>3
<1>5. r.photos - 1 \in Nat
  BY <1>4 DEF Row
<1>6. rows' = [rows EXCEPT ![At.doc] = [r EXCEPT !.photos = r.photos - 1]]
  BY <1>1, <1>3
<1>7. rows' \in [Docs -> Row]
  BY <1>2, <1>4, <1>5, <1>6, RowTyped
<1>8. upload' \in Uploads /\ UploadFits'
  BY <1>1, RestStays
<1>. QED
  BY <1>1, <1>2, <1>7, <1>8, DocumentsChange

-----------------------------------------------------------------------------
(* What is proved.                                                         *)

LEMMA Initially ==
  ASSUME Init PROVE Inv
<1>1. /\ rows = [d \in Docs |-> [NoRow EXCEPT !.exists = d <= 1]] /\ here = 1
      /\ cache = [d \in Docs |-> NoEntry] /\ form = Blank /\ saving = Idle /\ upload = NoUpload
      /\ leaving = FALSE /\ deleting = FALSE /\ used = [rows |-> 1, texts |-> 0, moves |-> 0, errors |-> 0] /\ visit = Began
  BY DEF Init, Began
<1>2. PICK a : trail = <<a>> /\ (a = Away \/ a = [Away EXCEPT !.page = "new"])
  BY DEF Init
<1>3. Place(a) /\ a.doc = Nothing
  BY <1>2, NoneValues DEF Place, Away, Address
<1>4. trail \in Seq(Address) /\ Len(trail) = 1 /\ DOMAIN trail = {1} /\ At = a
  BY <1>1, <1>2, <1>3 DEF At, Place
<1>5. rows \in [Docs -> Row]
  <2>1. ASSUME NEW d \in Docs PROVE [NoRow EXCEPT !.exists = d <= 1] \in Row
    <3>1. \A b \in BOOLEAN : [NoRow EXCEPT !.exists = b] \in Row
      BY NoneValues DEF Row
    <3>2. (d <= 1) \in BOOLEAN
      OBVIOUS
    <3>. QED
      BY <3>1, <3>2
  <2>. QED
    BY <1>1, <2>1
<1>6. used \in Counts /\ used.rows = 1
  BY <1>1, Bounds DEF Counts
<1>7. cache \in Caches /\ ~Loaded(At, cache)
  BY <1>1, <1>3, <1>4, NoneValues DEF Caches, Loaded
<1>8. /\ form \in Forms /\ form.text = form.base /\ saving \in Saves /\ saving.step = ""
      /\ upload \in Uploads /\ visit \in Visits
  BY <1>1, NoneValues
<1>9. TypeOK
  BY <1>1, <1>4, <1>5, <1>6, <1>7, <1>8, Typing
<1>10. Places
  BY <1>2, <1>3, <1>4 DEF Places, Place
<1>11. FormFits /\ SaveFits
  BY <1>7, <1>8 DEF FormFits, SaveFits, Dirty
<1>12. UploadFits
  <2>1. upload.left = 0
    BY <1>1, NoneValues
  <2>2. ~(upload.left > 0)
    BY <2>1
  <2>. QED
    BY <2>2 DEF UploadFits
<1>13. visit.made = 0
  BY <1>1 DEF Began
<1>14. DraftFits
  <2>1. visit.made < used.rows /\ ~(visit.made > 0)
    BY <1>6, <1>13
  <2>. QED
    BY <1>13, <2>1 DEF DraftFits
<1>. QED
  BY <1>9, <1>10, <1>11, <1>12, <1>14 DEF Inv

LEMMA Steps ==
  ASSUME Inv, [Next]_vars PROVE Inv'
<1>1. CASE Next
  <2>1. CASE \E a \in Links : Leave(a)
    BY <2>1, LeaveKeeps
  <2>2. CASE \E n \in 1 .. MaxMoves + 1 : Travel(n)
    BY <2>2, TravelKeeps
  <2>3. CASE Reload
    BY <2>3, ReloadKeeps
  <2>4. CASE Delete
    BY <2>4, DeleteKeeps
  <2>5. CASE Discard \/ Type
    BY <2>5, TypeKeeps
  <2>6. CASE NextFromBasics \/ NextFromPhotos \/ Back
    BY <2>6, StepsKeep
  <2>7. CASE SaveDraft \/ SaveListing \/ SaveProfile
    BY <2>7, SavesKeep
  <2>8. CASE Serve
    BY <2>8, ServeKeeps
  <2>9. CASE DraftSaved
    BY <2>9, DraftSavedKeeps
  <2>10. CASE FormSaved
    BY <2>10, FormSavedKeeps
  <2>11. CASE Refused
    BY <2>11, RefusedKeeps
  <2>12. CASE SaveLost
    BY <2>12, SaveLostKeeps
  <2>13. CASE Publish
    BY <2>13, PublishKeeps
  <2>14. CASE Toggle
    BY <2>14, ToggleKeeps
  <2>15. CASE \E d \in Docs : Load(d) \/ LoadFails(d) \/ ElseDevice(d) \/ Moderate(d)
    BY <2>15, LoadKeeps, LoadFailsKeeps, ElseDeviceKeeps, ModerateKeeps
  <2>16. CASE \E n \in 1 .. MaxPicks : Pick(n)
    BY <2>16, PickKeeps
  <2>17. CASE UploadOne
    BY <2>17, UploadOneKeeps
  <2>18. CASE DropPhoto
    BY <2>18, DropPhotoKeeps
  <2>19. CASE SignOut \/ SignedOut \/ Expire
    BY <2>19, SignOutKeeps, SessionOverKeeps
  <2>. QED
    BY <1>1, <2>1, <2>2, <2>3, <2>4, <2>5, <2>6, <2>7, <2>8, <2>9, <2>10, <2>11, <2>12, <2>13,
       <2>14, <2>15, <2>16, <2>17, <2>18, <2>19 DEF Next
<1>2. CASE UNCHANGED vars
  <2>1. /\ rows' = rows /\ cache' = cache /\ form' = form /\ saving' = saving /\ upload' = upload
        /\ deleting' = deleting /\ used' = used /\ visit' = visit /\ UNCHANGED tab
    BY <1>2 DEF vars
  <2>2. upload' \in Uploads /\ UploadFits' /\ rows' \in [Docs -> Row] /\ used' \in Counts
    BY <2>1, Typing DEF Inv, UploadFits
  <2>. QED
    BY <2>1, <2>2, DocumentsChange
<1>. QED
  BY <1>1, <1>2

LEMMA Invariance == Spec => []Inv
BY Initially, Steps, PTL DEF Spec

\* The forms keep the shape the code gives them.
THEOREM EditorTyping == Spec => []TypeOK
<1>1. Inv => TypeOK
  BY DEF Inv
<1>. QED
  BY <1>1, Invariance, PTL

\* One creation makes one draft, unless the user went back past it, saved before
\* it was read again, or lost the answer to the first save (saveDraft).
THEOREM OneCreationOneDraft == Spec => []OneDraft
<1>1. ASSUME Inv PROVE OneDraft
  <2>1. visit.made \in Nat /\ DraftFits
    BY <1>1, MadeFewer DEF Inv
  <2>2. ASSUME visit.made > 1, ~visit.why PROVE FALSE
    <3>1. visit.made > 0 /\ visit.made # 1
      BY <2>1, <2>2
    <3>. QED
      BY <2>1, <2>2, <3>1 DEF DraftFits
  <2>. QED
    BY <2>2 DEF OneDraft
<1>. QED
  BY <1>1, Invariance, PTL

-----------------------------------------------------------------------------
(* Text that is not saved.                                                 *)

\* With no save under way, and no draft, the page asks.
LEMMA TheyAsk ==
  ASSUME Inv, Dirty, saving.step = "", ~(At.page = "new" /\ At.doc # Nothing)
  PROVE  Guarded
<1>1. At \in Address /\ FormFits
  BY AtTyped DEF Inv
<1>2. At.page # "away"
  BY <1>1 DEF FormFits
<1>3. Screen # "away"
  BY <1>1, <1>2 DEF Screen, NewScreen, EditScreen, ProfileScreen, FormScreen, Address
<1>4. At.page # "new" => form.of # Nothing
  BY <1>1, <1>2 DEF FormFits, Loaded, Address
<1>. QED
  BY <1>3, <1>4 DEF Guarded, Submitting

\* A form with unsaved text does not start again from its own document while
\* that is there.
LEMMA NotAgain ==
  ASSUME Inv, Dirty, NEW a, Place(a), Path(a) = Path(At), NEW c, At.page = "new" => a.doc = Nothing,
         At.page # "new" => Loaded(a, c)
  PROVE  Settle(a, c, form) = form
<1>1. At \in Address /\ a \in Address /\ FormFits
  BY AtTyped DEF Inv, Place
<1>2. a.page = At.page /\ (a.page = "new" \/ a.doc = At.doc)
  BY <1>1, SamePath
<1>3. CASE At.page = "new"
  BY <1>2, <1>3 DEF Settle, Loaded
<1>4. CASE At.page # "new"
  <2>1. form.of = a.doc /\ Loaded(a, c)
    BY <1>1, <1>2, <1>4 DEF FormFits, Address
  <2>. QED
    BY <2>1 DEF Settle
<1>. QED
  BY <1>3, <1>4

\* Of a document that has been read, only a failed read or its removal takes the
\* form away.
LEMMA StillLoaded ==
  ASSUME Inv, Dirty, At.page # "new", NEW a, Place(a), Path(a) = Path(At), NEW c,
         c[At.doc].has, ~c[At.doc].failed, ~c[At.doc].row.removed
  PROVE  Loaded(a, c)
<1>1. At \in Address /\ a \in Address /\ FormFits
  BY AtTyped DEF Inv, Place
<1>2. a.doc = At.doc /\ At.doc # Nothing
  BY <1>1, SamePath DEF FormFits, Loaded, Address
<1>. QED
  BY <1>2 DEF Loaded

\* What each step may do to text that is not on the server.
Excused ==
  \/ Asked
  \/ SessionEnds
  \/ saving.step # ""
  \/ At.page = "new" /\ (At.doc # Nothing \/ (At.doc # At.doc' /\ Path(At) = Path(At)'))
  \/ At.doc # Nothing /\ (cache'[At.doc].failed \/ cache'[At.doc].row.removed)

LEMMA MovesKeepText ==
  ASSUME Inv, Dirty, form'.text # form.text,
         \/ \E a \in Links : Leave(a)
         \/ \E n \in 1 .. MaxMoves + 1 : Travel(n)
         \/ Reload \/ Delete \/ NextFromBasics \/ NextFromPhotos \/ Back \/ Publish
  PROVE  Excused
<1>1. SUFFICES ASSUME saving.step = "", ~(At.page = "new" /\ At.doc # Nothing) PROVE Excused
  BY DEF Excused
<1>2. Guarded
  BY <1>1, TheyAsk
<1>4. At \in Address /\ TypeOK /\ Places
  BY AtTyped DEF Inv
<1>5. Path(At)' # Path(At) => Excused
  BY <1>2 DEF Excused, Asked
<1>6. ASSUME NEW a \in Links, Leave(a) PROVE Excused
  <2>1. Opens(a) /\ Path(a) # Path(At)
    BY <1>6 DEF Leave, Push, Opens
  <2>2. trail \in Seq(Address) /\ here \in DOMAIN trail
    BY <1>4 DEF TypeOK
  <2>3. At' = a
    BY <1>4, <2>1, <2>2, LeaveTyped, Opened
  <2>. QED
    BY <1>5, <2>1, <2>3
<1>7. ASSUME NEW to, Travel(to) PROVE Excused
  <2>1. to \in DOMAIN trail /\ here' = to /\ trail' = trail
    BY <1>7 DEF Travel
  <2>2. At' = trail[to] /\ Place(trail[to])
    BY <1>4, <2>1, AtTyped DEF At, Place, Places
  <2>3. CASE Path(trail[to]) = Path(At)
    <3>1. form' = Settle(trail[to], cache, form)
      BY <1>7, <2>3 DEF Travel
    <3>2. At.page # "new" => Loaded(trail[to], cache)
      <4>1. ASSUME At.page # "new" PROVE At.doc = trail[to].doc /\ At.page = trail[to].page /\ Loaded(At, cache)
        BY <1>4, <2>2, <2>3, <4>1, SamePath DEF Place, Inv, FormFits, Address
      <4>. QED
        BY <4>1 DEF Loaded
    <3>3. ~(At.page = "new" => trail[to].doc = Nothing)
      BY <2>2, <2>3, <3>1, <3>2, NotAgain
    <3>4. At.page = "new" /\ At.doc # At.doc' /\ Path(At) = Path(At)'
      BY <1>1, <2>2, <2>3, <3>3
    <3>. QED
      BY <3>4 DEF Excused
  <2>4. CASE Path(trail[to]) # Path(At)
    BY <1>5, <2>2, <2>4
  <2>. QED
    BY <2>3, <2>4
<1>8. CASE Reload
  BY <1>2, <1>8 DEF Excused, Asked
<1>9. CASE Delete
  <2>1. CASE deleting' = TRUE
    BY <1>2, <2>1 DEF Excused, Asked
  <2>2. CASE Replace(cache')
    <3>0. trail' = [trail EXCEPT ![here] = Away] /\ here' = here
      BY <2>2 DEF Replace
    <3>1. trail \in Seq(Address) /\ here \in DOMAIN trail /\ DOMAIN trail = 1 .. Len(trail)
      BY <1>4, AtTyped DEF TypeOK
    <3>2. At' = Away
      BY <3>0, <3>1 DEF At
    <3>3. Path(Away) # Path(At)
      BY <1>4, <1>9, NoneValues, SamePath DEF Delete
    <3>. QED
      BY <1>5, <3>2, <3>3
  <2>. QED
    BY <1>9, <2>1, <2>2 DEF Delete
<1>10. CASE NextFromBasics \/ NextFromPhotos \/ Back
  <2>1. PICK step \in 1 .. 4 : At.page = "new" /\ Turn(step)
    BY <1>10, Turns
  <2>2. To(step) \in Address /\ To(step).page = At.page /\ To(step).doc = At.doc
    BY <1>4, <2>1 DEF To, Address
  <2>3. Place(To(step)) /\ Path(To(step)) = Path(At)
    BY <1>4, <2>1, <2>2, SamePath DEF Place
  <2>4. form' = Settle(To(step), cache, form)
    BY <2>1, <2>3 DEF Turn, Push, Show
  <2>5. To(step).doc = Nothing
    BY <1>1, <2>1, <2>2
  <2>. QED
    BY <2>1, <2>3, <2>4, <2>5, NotAgain
<1>11. CASE Publish
  BY <1>1, <1>11 DEF Publish, Loaded
<1>. QED
  BY <1>6, <1>7, <1>8, <1>9, <1>10, <1>11

LEMMA StepsKeepText ==
  ASSUME Inv, Next, Unsaved, form'.text # form.text, used'.texts = used.texts
  PROVE  Excused
<1>1. Dirty /\ TypeOK /\ FormFits /\ At \in Address
  BY AtTyped DEF Unsaved, Inv
<1>2. CASE \/ \E a \in Links : Leave(a)
           \/ \E n \in 1 .. MaxMoves + 1 : Travel(n)
           \/ Reload \/ Delete \/ NextFromBasics \/ NextFromPhotos \/ Back \/ Publish
  BY <1>1, <1>2, MovesKeepText
<1>3. CASE Discard
  BY <1>3 DEF Excused, Asked
<1>4. CASE Type
  <2>1. Count("texts", MaxTexts)
    BY <1>4 DEF Type
  <2>2. used'.texts = used.texts + 1
    BY <1>1, <2>1, Counted
  <2>3. used.texts \in Nat
    BY <1>1, Typing, Bounds DEF Counts
  <2>. QED
    BY <2>2, <2>3
<1>5. CASE SaveDraft \/ SaveListing \/ SaveProfile
  BY <1>5 DEF SaveDraft, SaveListing, SaveProfile, Send
<1>6. CASE Serve \/ Toggle \/ UploadOne \/ DropPhoto
  BY <1>6 DEF Serve, Toggle, UploadOne, DropPhoto
<1>7. CASE DraftSaved \/ FormSaved \/ Refused \/ SaveLost
  BY <1>7 DEF DraftSaved, FormSaved, Refused, SaveLost, Excused
<1>8. ASSUME NEW d \in Docs, Load(d) PROVE Excused
  <2>1. At.doc = d /\ form' = Settle(At, cache', form)
    BY <1>8 DEF Load, Wanted
  <2>2. CASE At.page = "new"
    BY <2>1, <2>2, NoneValues DEF Excused
  <2>3. CASE At.page # "new"
    <3>1. Place(At) /\ Path(At) = Path(At)
      BY <1>1 DEF Place, Inv, Places, At, TypeOK
    <3>2. PICK c : c = cache'
      OBVIOUS
    <3>3. CASE c[d].row.removed
      BY <2>1, <3>2, <3>3, NoneValues DEF Excused
    <3>4. CASE ~c[d].row.removed
      <4>1. c[d] = Read(d)
        BY <1>8, <3>2, FormStaysFit DEF Load, Caches
      <4>2. c[d].has /\ ~c[d].failed
        BY <4>1 DEF Read
      <4>3. Loaded(At, c)
        BY <1>1, <2>1, <2>3, <3>1, <3>4, <4>2, StillLoaded
      <4>. QED
        BY <1>1, <2>1, <2>3, <3>1, <3>2, <4>3, NotAgain
    <3>. QED
      BY <3>3, <3>4
  <2>. QED
    BY <2>2, <2>3
<1>9. ASSUME NEW d \in Docs, LoadFails(d) PROVE Excused
  <2>1. At.doc = d /\ cache' = [cache EXCEPT ![d].failed = TRUE, ![d].stale = FALSE]
    BY <1>9 DEF LoadFails, Wanted
  <2>2. cache \in Caches
    BY FormStaysFit
  <2>3. cache'[d].failed
    BY <2>1, <2>2 DEF Caches, Entry
  <2>. QED
    BY <2>1, <2>3, NoneValues DEF Excused
<1>10. ASSUME NEW d \in Docs, ElseDevice(d) PROVE Excused
  BY <1>10 DEF ElseDevice
<1>11. ASSUME NEW n, Pick(n) PROVE Excused
  BY <1>11 DEF Pick
<1>12. ASSUME NEW d \in Docs, Moderate(d) PROVE Excused
  BY <1>12 DEF Moderate
<1>13. CASE SignedOut \/ Expire
  BY <1>13 DEF SessionEnds, Excused
<1>14. CASE SignOut
  <2>1. SUFFICES ASSUME saving.step = "", ~(At.page = "new" /\ At.doc # Nothing), ~SessionEnds PROVE Excused
    BY DEF Excused
  <2>2. Guarded
    BY <1>1, <2>1, TheyAsk
  <2>3. Replace(cache)
    BY <1>14 DEF SignOut
  <2>4. trail' = [trail EXCEPT ![here] = Away] /\ here' = here
    BY <2>3 DEF Replace
  <2>5. At' = Away
    BY <1>1, <2>4, AtTyped DEF At, TypeOK
  <2>6. Path(Away) # Path(At)
    <3>1. At.page # "away"
      BY <1>1 DEF FormFits
    <3>. QED
      BY <1>1, <3>1, NoneValues, SamePath
  <2>. QED
    BY <2>1, <2>2, <2>5, <2>6 DEF Excused, Asked
<1>. QED
  BY <1>2, <1>3, <1>4, <1>5, <1>6, <1>7, <1>8, <1>9, <1>10, <1>11, <1>12, <1>13, <1>14 DEF Next

\* Text that is not on the server leaves the screen only when the user said so,
\* or where useLeaveGuard has nothing to ask: a save under way, a creation with
\* its draft, a document that cannot be read.
THEOREM NoTextLost == Spec => TextKept
<1>1. ASSUME Inv, [Next]_vars
      PROVE  [Unsaved /\ form'.text # form.text /\ used'.texts = used.texts => Excused]_vars
  BY <1>1, StepsKeepText
<1>. QED
  BY <1>1, Invariance, PTL DEF Spec, TextKept, Excused
=============================================================================
