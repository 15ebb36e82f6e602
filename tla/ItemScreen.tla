----------------------------- MODULE ItemScreen -----------------------------
(***************************************************************************)
(* The page of one item in one member's browser.  It has four sections,    *)
(* each an element with an id of its own: the detail, which contains the   *)
(* other three, the links, the photos and the history.  A click sends a    *)
(* form; the handler does its work, reads what it shows and answers with   *)
(* one section, and htmx puts the answer in the place of the element that  *)
(* the form named when it was sent.  Photos and history come with the      *)
(* detail as empty stubs that load themselves.                             *)
(*                                                                         *)
(* Custody and Gallery model what happens when operations interleave; here *)
(* each is one step, which may break off half-way, and the matter is what  *)
(* the member sees and may click.  age counts the changes of the item: a   *)
(* section carries the age it was read at.                                 *)
(***************************************************************************)
EXTENDS Integers, FiniteSets, Functions

CONSTANTS Bin, Hidden,   \* bins, and those the member may not see
          Me, Other,     \* the member, and everybody else
          LinkId, PhotoId,
          Click,         \* requests of the page that can be under way
          FirstPositions,  \* the positions that photos may have at first
          None, Gone,
          MaxChanges     \* bound: changes of the item

\* A bin is not a person, and None and Gone are neither.
ASSUME ItemScreenAssumption ==
  /\ Hidden \subseteq Bin /\ Me # Other
  /\ Bin \cap {Me, Other} = {}
  /\ \A absent \in {None, Gone} : absent \notin Bin \cup {Me, Other}
  /\ IsFiniteSet(PhotoId) /\ None \notin PhotoId
  /\ FirstPositions \subseteq SUBSET Nat

VARIABLES place,     \* the bin or the holder of the item, or Gone
          mine,      \* the member's return request is open
          links,     \* the item's links
          photos,    \* where its photos are, the primary one, and the photo rows
          age,       \* the number of changes so far
          page,      \* the sections on the screen
          click,     \* the requests that are under way
          alone      \* since the page was opened, nobody else has changed the
                     \* item, no two clicks were under way at once and no
                     \* call has failed
vars == <<place, mine, links, photos, age, page, click, alone>>

-----------------------------------------------------------------------------
(* The page. *)

Visible == place \notin Hidden \cup {Gone}
VisibleBins == Bin \ Hidden

\* A section: not there, an empty stub, a stub whose answer is on its way, or shown.
Absent == [state |-> "absent", age |-> 0, what |-> None]
Stub == [Absent EXCEPT !.state = "stub"]
Shown(at, what) == [state |-> "shown", age |-> at, what |-> what]

Blank == [detail |-> Absent, links |-> Absent, photos |-> Absent, history |-> Absent]

Idle == [stage |-> "idle", form |-> None, live |-> FALSE, seen |-> 0,
         outcome |-> None, answer |-> None]

Form(verb, of, input) == [verb |-> verb, of |-> of, input |-> input]
Good(verb, of) == Form(verb, of, "good")

\* ItemLinksSection: a form to add a link, and in each row one to edit and one
\* to delete it.
AddLinkForms == {Form("add link", None, input) : input \in {"good", "bad"}}
EditLinkForm(l) == Good("edit link", l)
DeleteLinkForm(l) == Good("delete link", l)
LinkForms(rows) == AddLinkForms \cup UNION {{EditLinkForm(l), DeleteLinkForm(l)} : l \in rows}

\* A gallery shows the order of the photos, not their positions.
Place(at, p) == Cardinality({q \in DOMAIN at : at[q] < at[p]})
View(g) == [place |-> [p \in DOMAIN g.at |-> Place(g.at, p)], primary |-> g.primary]

\* PhotoGallerySection: the arrows stop at the ends, the primary photo has no
\* star.  A file is a picture of the member's or nothing the scrubber takes;
\* bound: one file in a form.
UploadForms == {Good("upload", p) : p \in PhotoId} \cup {Form("upload", None, "bad")}
DeletePhotoForm(p) == Good("delete photo", p)
PrimaryForms(v) == {Good("primary", p) : p \in DOMAIN v.place \ {v.primary}}
MoveForms(v) ==
  {Good("up", p) : p \in {q \in DOMAIN v.place : v.place[q] > 0}} \cup
  {Good("down", p) : p \in {q \in DOMAIN v.place : v.place[q] + 1 < Cardinality(DOMAIN v.place)}}
PhotoForms(v) ==
  UploadForms \cup {DeletePhotoForm(p) : p \in DOMAIN v.place} \cup PrimaryForms(v) \cup MoveForms(v)

\* ReturnRequestSection: ask, or take back what one has asked.
RequestForm == Good("request", None)
CancelForm == Good("cancel", None)

\* Mutant of RequestForms: the holder is offered the form as well.
RequestFormsForAll(d) == IF d.mine THEN {CancelForm} ELSE {RequestForm}

RequestForms(d) ==
  IF d.mine THEN {CancelForm} ELSE IF d.place # Me THEN {RequestForm} ELSE {}

\* ItemDetail's panels, for an item in a bin and for one that is out.  The
\* picker is empty when the member sees no bin: nothing is chosen then.
CheckOutForm == Good("check out", None)
ReturnForms(bins) == {Good("return", b) : b \in IF bins = {} THEN {None} ELSE bins}
InBinForms == {CheckOutForm}
CheckedOutForms(d) == ReturnForms(d.bins) \cup RequestForms(d)
DetailForms(d) == IF d.place \in Bin THEN InBinForms ELSE CheckedOutForms(d)

FormsOf(name, what) ==
  CASE name = "detail" -> DetailForms(what)
    [] name = "links" -> LinkForms(what)
    [] name = "photos" -> PhotoForms(what)

\* hx-target.
Target(form) ==
  IF form.verb \in {"add link", "edit link", "delete link"} THEN "links"
  ELSE IF form.verb \in {"upload", "up", "down", "primary", "delete photo"} THEN "photos"
  ELSE "detail"

-----------------------------------------------------------------------------
(* The photos of an item. *)

\* A photo that is uploaded gets a row, and a position that is the number of
\* photos: the first one is the primary one.  Positions are unique.
Count(g) == Cardinality(DOMAIN g.at)
Stranded(g, p) == [g EXCEPT !.rows = @ \cup {p}]
Attached(g, p) ==
  [at |-> [q \in DOMAIN g.at \cup {p} |-> IF q = p THEN Count(g) ELSE g.at[q]],
   primary |-> IF Count(g) = 0 THEN p ELSE g.primary,
   rows |-> g.rows \cup {p}]

\* The link goes first and then the row.  No photo takes the primary one's place.
Unlinked(g, p) ==
  [g EXCEPT !.at = Restrict(@, DOMAIN g.at \ {p}), !.primary = IF @ = p THEN None ELSE @]
Deleted(g, p) == [Unlinked(g, p) EXCEPT !.rows = @ \ {p}]

\* moveOrder: the places once p and its neighbour are exchanged; at an end they
\* stay as they are.
Moved(at, p, up) ==
  LET from == Place(at, p)
      to   == IF up THEN from - 1 ELSE from + 1
  IN  [q \in DOMAIN at |->
         IF Place(at, q) = to THEN from
         ELSE IF q = p /\ to \in 0..Cardinality(DOMAIN at) - 1 THEN to ELSE Place(at, q)]

\* Reorder, once k photos are staged, and then once k have their places.
Staged(at, order, k) ==
  [q \in DOMAIN at |-> IF order[q] < k THEN Cardinality(DOMAIN at) + order[q] ELSE at[q]]
Finalized(at, order, k) ==
  [q \in DOMAIN at |-> IF order[q] < k THEN order[q] ELSE Cardinality(DOMAIN at) + order[q]]

\* Mutant of Blocked: the photos go to their places without being staged.
BlockedInPlace(at, order, k) == \E q \in DOMAIN at : order[q] > k /\ at[q] = k

\* Photo number k is to be staged where a photo is that has not been staged.
Blocked(at, order, k) == \E q \in DOMAIN at : order[q] > k /\ at[q] = Cardinality(DOMAIN at) + k
Free(at, order) == \A k \in 0..Cardinality(DOMAIN at) - 1 : ~Blocked(at, order, k)
Reached(at, order) == {k \in 0..Cardinality(DOMAIN at) : \A j \in 0..k - 1 : ~Blocked(at, order, j)}

\* What a photo form makes of the photos, and how far it can have come when a
\* call fails on the way.
Order(f) == Moved(photos.at, f.of, f.verb = "up")
Halfway(f) ==
  CASE f.verb = "upload" -> {Stranded(photos, f.of)}
    [] f.verb = "primary" -> {[photos EXCEPT !.primary = None]}
    [] f.verb = "delete photo" -> {Unlinked(photos, f.of)}
    [] f.verb \in {"up", "down"} ->
         {[photos EXCEPT !.at = Staged(@, Order(f), k)] : k \in Reached(photos.at, Order(f))} \cup
         IF Free(photos.at, Order(f))
         THEN {[photos EXCEPT !.at = Finalized(@, Order(f), k)] : k \in 0..Count(photos)} ELSE {}

-----------------------------------------------------------------------------
(* What the services do. *)

Changed(p, m, l, g) ==
  /\ age < MaxChanges
  /\ place' = p /\ mine' = m /\ links' = l /\ photos' = g
  /\ age' = age + 1

Nothing == UNCHANGED <<place, mine, links, photos, age>>

PhotosBecome(g) == IF g = photos THEN Nothing ELSE Changed(place, mine, links, g)

PhotoVerb == {"upload", "up", "down", "primary", "delete photo"}
MoveVerb == {"up", "down"}

\* ItemLinkService, PhotosWebHandlers, ItemsWebHandlers: what they do of an item
\* that is visible.  A picture that has a row already is taken for uploaded.
Accepts(f) ==
  CASE f.verb = "open" -> TRUE
    [] f.verb = "check out" -> place \in Bin
    [] f.verb = "return" -> f.of # None /\ place \in {Me, Other}
    [] f.verb = "request" -> place = Other /\ ~mine
    [] f.verb = "cancel" -> mine
    [] f.verb = "add link" -> f.input = "good"
    [] f.verb \in {"edit link", "delete link"} -> f.of \in links
    [] f.verb = "upload" -> f.input = "good" /\ (f.of \in photos.rows \/ Count(photos) \notin Range(photos.at))
    [] f.verb \in {"primary", "delete photo"} -> f.of \in DOMAIN photos.at
    [] OTHER -> f.of \in DOMAIN photos.at /\ Free(photos.at, Order(f))

\* Bounds: link ids, and age.
CheckOut == Changed(Me, mine, links, photos)
Return(b) == Changed(b, FALSE, links, photos)
RequestReturn == Changed(place, TRUE, links, photos)
CancelReturnRequest == Changed(place, FALSE, links, photos)
AddLink == \E l \in LinkId \ links : Changed(place, mine, links \cup {l}, photos)
EditLink == Changed(place, mine, links, photos)
DeleteLink(l) == Changed(place, mine, links \ {l}, photos)
Upload(p) == PhotosBecome(IF p \in photos.rows THEN photos ELSE Attached(photos, p))
Move(f) == PhotosBecome([photos EXCEPT !.at = Order(f)])
SetPrimary(p) == PhotosBecome([photos EXCEPT !.primary = p])
DeletePhoto(p) == PhotosBecome(Deleted(photos, p))

Does(f) ==
  \/ f.verb = "open" /\ Nothing
  \/ f.verb = "check out" /\ CheckOut
  \/ f.verb = "return" /\ Return(f.of)
  \/ f.verb = "request" /\ RequestReturn
  \/ f.verb = "cancel" /\ CancelReturnRequest
  \/ f.verb = "add link" /\ AddLink
  \/ f.verb = "edit link" /\ EditLink
  \/ f.verb = "delete link" /\ DeleteLink(f.of)
  \/ f.verb = "upload" /\ Upload(f.of)
  \/ f.verb \in MoveVerb /\ Move(f)
  \/ f.verb = "primary" /\ SetPrimary(f.of)
  \/ f.verb = "delete photo" /\ DeletePhoto(f.of)

\* The position of the upload is taken: its row stays.
UploadCollides(f) ==
  /\ f.verb = "upload" /\ f.input = "good"
  /\ f.of \notin photos.rows /\ Count(photos) \in Range(photos.at)

\* The move comes to a position that is taken: what is staged stays there.
MoveStops(f) ==
  /\ f.verb \in MoveVerb
  /\ f.of \in DOMAIN photos.at /\ ~Free(photos.at, Order(f))

\* Neither is undone.
Refuses(f) ==
  \/ UploadCollides(f) /\ PhotosBecome(Stranded(photos, f.of))
  \/ /\ MoveStops(f)
     /\ \E k \in Reached(photos.at, Order(f)) :
          /\ Blocked(photos.at, Order(f), k)
          /\ PhotosBecome([photos EXCEPT !.at = Staged(@, Order(f), k)])
  \/ ~UploadCollides(f) /\ ~MoveStops(f) /\ Nothing

Works(f) == IF Accepts(f) THEN Does(f) ELSE Refuses(f)

\* Some call of the work fails: nothing is done, or a part, or all of it, only
\* the answer does not come back.
BreaksOff(f) ==
  \/ Nothing
  \/ Works(f)
  \/ /\ f.verb \in PhotoVerb /\ (Accepts(f) \/ UploadCollides(f) \/ MoveStops(f))
     /\ f.verb = "upload" => f.of \notin photos.rows
     /\ \E g \in Halfway(f) : PhotosBecome(g)

NoPhotos == [photos EXCEPT !.at = [p \in {} |-> 0], !.primary = None]

\* Somebody else does one of these things, over the web or the api, or
\* deletes the item, which takes everything with it but the photo rows.
Elsewhere ==
  /\ place # Gone
  /\ \/ place \in Bin /\ Changed(Other, mine, links, photos)
     \/ \E b \in Bin \ {place} : Changed(b, FALSE, links, photos)
     \/ mine /\ CancelReturnRequest
     \/ AddLink \/ \E l \in links : DeleteLink(l)
     \/ \E f \in PhotoForms(View(photos)) : Works(f)
     \/ Changed(Gone, FALSE, {}, NoPhotos)
  /\ alone' = FALSE
  /\ UNCHANGED <<page, click>>

-----------------------------------------------------------------------------
(* A click and its answer. *)

Quiet == \A c \in Click : click[c] = Idle

Send(c, f, seen) ==
  /\ click[c] = Idle
  /\ \A d \in Click : click[d].form # f
  /\ click' = [click EXCEPT ![c] = [Idle EXCEPT !.stage = "sent", !.form = f, !.live = TRUE, !.seen = seen]]
  /\ alone' = (alone /\ Quiet)
  /\ UNCHANGED <<place, mine, links, photos, age, page>>

\* GET /items/{id}, the address or a link.
Open(c) == Quiet /\ Send(c, Good("open", None), age)

\* A form on the screen; bound: not while another page is loading.
Submit(c, name) ==
  /\ page[name].state = "shown"
  /\ \A d \in Click : click[d].form # Good("open", None)
  /\ \E f \in FormsOf(name, page[name].what) : Send(c, f, page[name].age)

Outcome(f) == IF ~Visible THEN "missing" ELSE IF Accepts(f) THEN "taken" ELSE "refused"

Answered(c, outcome, answer) ==
  click' = [click EXCEPT ![c].stage = "answered", ![c].outcome = outcome, ![c].answer = answer]

\* The handler does its work, or is refused.  A move that has stopped is an
\* error no handler knows: its answer is plain text.
Act(c) ==
  LET f == click[c].form
  IN  /\ click[c].stage = "sent"
      /\ IF Visible THEN Works(f) ELSE Nothing
      /\ click' = [click EXCEPT ![c].stage = IF Visible /\ MoveStops(f) THEN "answered" ELSE "acted",
                                 ![c].seen = 0, ![c].outcome = Outcome(f)]
      /\ UNCHANGED <<page, alone>>

\* An error of a call, or its deadline, during the work ...
CutOff(c) ==
  /\ click[c].stage = "sent"
  /\ IF Visible THEN BreaksOff(click[c].form) ELSE Nothing
  /\ click' = [click EXCEPT ![c].stage = "answered", ![c].seen = 0, ![c].outcome = "failed"]
  /\ alone' = FALSE
  /\ UNCHANGED page

\* ... or while the handler reads what it is to show.
ReadFails(c) ==
  /\ click[c].stage \in {"acted", "half", "linked"}
  /\ Answered(c, "failed", None)
  /\ alone' = FALSE
  /\ UNCHANGED <<place, mine, links, photos, age, page>>

\* renderLinksSection, renderGallery: the item is looked up again first.
ReadSection(c) ==
  LET name == Target(click[c].form)
  IN  /\ click[c].stage = "acted" /\ name # "detail"
      /\ IF ~Visible THEN Answered(c, "missing", None)
         ELSE Answered(c, click[c].outcome, Shown(age, IF name = "links" THEN links ELSE View(photos)))
      /\ UNCHANGED <<place, mine, links, photos, age, page, alone>>

\* renderDetail: first the item ...
ReadItem(c) ==
  /\ click[c].stage = "acted" /\ Target(click[c].form) = "detail"
  /\ IF ~Visible THEN Answered(c, "missing", None)
     ELSE click' = [click EXCEPT ![c].stage = "half",
                                 ![c].answer = Shown(age, [place |-> place, mine |-> FALSE, bins |-> {}])]
  /\ UNCHANGED <<place, mine, links, photos, age, page, alone>>

\* What the page is made of: photos and history load themselves.
Whole(detail, list) == [detail |-> detail, links |-> list, photos |-> Stub, history |-> Stub]

\* ... then its links, which is all for an item in a bin ...
ReadLinks(c) ==
  LET read == Whole(click[c].answer, Shown(age, links))
  IN  /\ click[c].stage = "half"
      /\ IF ~Visible THEN Answered(c, "missing", None)
         ELSE IF click[c].answer.what.place \in Bin THEN Answered(c, click[c].outcome, read)
         ELSE click' = [click EXCEPT ![c].stage = "linked", ![c].answer = read]
      /\ UNCHANGED <<place, mine, links, photos, age, page, alone>>

\* Mutant of ReadRequest: the member's own request is not looked up.
ReadBinsOnly(c) ==
  /\ click[c].stage = "linked"
  /\ IF ~Visible THEN Answered(c, "missing", None)
     ELSE Answered(c, click[c].outcome, [click[c].answer EXCEPT !.detail.what.bins = VisibleBins])
  /\ UNCHANGED <<place, mine, links, photos, age, page, alone>>

\* ... and of an item that was out the bins, which do not change here, and the
\* member's own open request.
ReadRequest(c) ==
  /\ click[c].stage = "linked"
  /\ IF ~Visible THEN Answered(c, "missing", None)
     ELSE Answered(c, click[c].outcome,
            [click[c].answer EXCEPT !.detail.what.mine = mine, !.detail.what.bins = VisibleBins])
  /\ UNCHANGED <<place, mine, links, photos, age, page, alone>>

\* The element that an answer replaces takes the targets within it away.
Replacing(c, name) ==
  click' = [d \in Click |->
              IF d = c THEN Idle
              ELSE [click[d] EXCEPT !.live = @ /\ name # "detail" /\ Target(click[d].form) # name]]

\* Mutant of Swap: the answer stands above the photos and the history that were there.
SwapAbove(c) ==
  LET f == click[c].form  name == Target(f)
  IN  /\ click[c].stage = "answered" /\ f.verb # "open"
      /\ IF click[c].outcome = "taken" /\ click[c].live
         THEN /\ Replacing(c, name)
              /\ page' = IF name = "detail"
                         THEN [page EXCEPT !.detail = click[c].answer.detail, !.links = click[c].answer.links]
                         ELSE [page EXCEPT ![name] = click[c].answer]
         ELSE click' = [click EXCEPT ![c] = Idle] /\ UNCHANGED page
      /\ UNCHANGED <<place, mine, links, photos, age, alone>>

\* Mutant of Swap: the gallery that is answered goes nowhere.
SwapWithoutPhotos(c) ==
  LET f == click[c].form  name == Target(f)
  IN  /\ click[c].stage = "answered" /\ f.verb # "open"
      /\ IF click[c].outcome = "taken" /\ click[c].live /\ name # "photos"
         THEN /\ Replacing(c, name)
              /\ page' = IF name = "detail" THEN click[c].answer ELSE [page EXCEPT ![name] = click[c].answer]
         ELSE click' = [click EXCEPT ![c] = Idle] /\ UNCHANGED page
      /\ UNCHANGED <<place, mine, links, photos, age, alone>>

\* htmx puts an answer in place when its status is 2xx and its target is still
\* on the page; another page takes everything away.
Swap(c) ==
  LET f == click[c].form  name == Target(f)
  IN  /\ click[c].stage = "answered" /\ f.verb # "open"
      /\ IF click[c].outcome = "taken" /\ click[c].live
         THEN /\ Replacing(c, name)
              /\ page' = IF name = "detail" THEN click[c].answer ELSE [page EXCEPT ![name] = click[c].answer]
         ELSE click' = [click EXCEPT ![c] = Idle] /\ UNCHANGED page
      /\ UNCHANGED <<place, mine, links, photos, age, alone>>

Navigate(c) ==
  /\ click[c].stage = "answered" /\ click[c].form.verb = "open"
  /\ click' = [click EXCEPT ![c] = Idle]
  /\ page' = IF click[c].outcome = "taken" THEN click[c].answer ELSE Blank
  /\ alone' = (click[c].outcome = "taken" /\ click[c].answer.detail.age = age)
  /\ UNCHANGED <<place, mine, links, photos, age>>

\* PhotoGalleryStub and ItemHistoryStub load themselves, once: the item is
\* looked up, its photos or events are read; an error leaves the element empty.
Load(name) ==
  /\ page[name].state = "stub"
  /\ page' = [page EXCEPT ![name] =
                IF ~Visible THEN Absent
                ELSE [Shown(age, IF name = "photos" THEN View(photos) ELSE place) EXCEPT !.state = "answered"]]
  /\ UNCHANGED <<place, mine, links, photos, age, click, alone>>

LoadFails(name) ==
  /\ page[name].state = "stub"
  /\ page' = [page EXCEPT ![name] = Absent]
  /\ UNCHANGED <<place, mine, links, photos, age, click, alone>>

ShowLoaded(name) ==
  /\ page[name].state = "answered"
  /\ page' = [page EXCEPT ![name].state = "shown"]
  /\ UNCHANGED <<place, mine, links, photos, age, click, alone>>

-----------------------------------------------------------------------------
Init ==
  /\ place \in Bin \cup {Other} /\ mine = FALSE
  /\ links = {} /\ age = 0
  /\ \E S \in FirstPositions : \E D \in SUBSET PhotoId : \E at \in [D -> S] :
       /\ Range(at) = S /\ Cardinality(D) = Cardinality(S)
       /\ \E first \in PhotoId \cup {None} :
            /\ IF 0 \in S THEN first \in D /\ at[first] = 0 ELSE first = None
            /\ photos = [at |-> at, primary |-> first, rows |-> D]
  /\ page = Blank /\ click = [c \in Click |-> Idle] /\ alone = FALSE

Next ==
  \/ Elsewhere
  \/ \E c \in Click :
       \/ Open(c) \/ Act(c) \/ CutOff(c) \/ ReadFails(c) \/ Swap(c) \/ Navigate(c)
       \/ ReadSection(c) \/ ReadItem(c) \/ ReadLinks(c) \/ ReadRequest(c)
       \/ \E name \in {"detail", "links", "photos"} : Submit(c, name)
  \/ \E name \in {"photos", "history"} : Load(name) \/ LoadFails(name) \/ ShowLoaded(name)

Spec == Init /\ [][Next]_vars

-----------------------------------------------------------------------------
(* Properties. *)

\* The photos have the first positions, as before any deletion.
Dense(at) == Range(at) = 0..Cardinality(DOMAIN at) - 1

Calm(c) ==
  LET f == click[c].form
  IN  /\ click[c].stage = "sent" /\ click[c].seen = age
      /\ f \notin {Good("open", None), Good("return", None)} /\ f.input = "good"
      /\ f.verb \in {"upload"} \cup MoveVerb => Dense(photos.at)

\* A click on a form that the page offers is not refused when nothing has
\* happened to the item since the page was read: what the templates offer is
\* what the services take.  (An input can be bad, and a member who sees no
\* bin has none to choose; and once a photo has been deleted from the middle,
\* an upload or a move can come to a position that is taken.)
CalmClickIsTaken ==
  [][\A c \in Click : Calm(c) /\ click'[c].stage # "sent" => click'[c].outcome \in {"taken", "failed"}]_vars

\* The history on the screen is never older than the placement above it: it
\* is loaded again with every new detail, and late answers go nowhere.
HistoryNotBehind ==
  page.history.state \in {"answered", "shown"} => page.history.age >= page.detail.age

Loaded == \A name \in DOMAIN page : page[name].state = "shown"

\* A member who is alone with the item, and does one thing at a time, sees it
\* as it is once everything has loaded; the photos, while no gaps are between them.
OwnPageIsCurrent ==
  alone /\ Quiet /\ Loaded
    => /\ page.detail.what.place = place
       /\ place \notin Bin => page.detail.what.mine = mine
       /\ page.links.what = links
       /\ Dense(photos.at) => page.photos.what = View(photos)
       /\ page.history.what = place
=============================================================================
