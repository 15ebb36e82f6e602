----------------------------- MODULE BinScreens -----------------------------
(***************************************************************************)
(* The pages of bins and locations in one member's browser, who is not an  *)
(* admin.  The screen is one page at a time: a list of cards, a bin, a     *)
(* location, or a form.  A click sends a request; the handler does its     *)
(* work, then either redirects to another page or reads the page it shows, *)
(* in two statements; while it does so the rest of the household goes on.  *)
(* A bin's page is addressed by the code on its label, and so is its edit  *)
(* form; its moves and its deletion are addressed by id.                   *)
(*                                                                         *)
(* Relocation models a move inside; here each operation is one step.       *)
(***************************************************************************)
EXTENDS Naturals

CONSTANTS BinId, Room, Code,
          Member,        \* the member, who is not an admin
          Admin,         \* everybody else, admins among them
          None, Gone,
          MaxDeeds       \* bound: changes made by everybody else

VARIABLES bin,      \* bin row of each id: None before, Gone after
          room,     \* each location: None before, Gone after
          screen,   \* the page on the screen
          task,     \* the member's request, or None
          deeds     \* changes made by everybody else
vars == <<bin, room, screen, task, deeds>>

-----------------------------------------------------------------------------
(* The database. *)

Row(code, place, by, private) ==
  [code |-> code, place |-> place, by |-> by, private |-> private,
   full |-> FALSE,          \* an item is in it
   shared |-> ~private]     \* it has been public at some time

Rooms == {r \in Room : room[r] = "there"}
Stands == {b \in BinId : bin[b] \notin {None, Gone}}

\* visibilityWhere.
MaySee(row, who) == ~row.private \/ row.by = who \/ who = Admin

\* Mutant of SeenBy: every bin of the household.
SeenByAll(who) == Stands

SeenBy(who) == {b \in Stands : MaySee(bin[b], who)}

Visible == SeenBy(Member)
ByCode(who, code) == {b \in SeenBy(who) : bin[b].code = code}

\* Create, for a code that no bin has, in a location that exists.
CreateBin(b, code, place, who, private) ==
  /\ bin[b] = None /\ place \in Rooms
  /\ \A c \in Stands : bin[c].code # code
  /\ bin' = [bin EXCEPT ![b] = Row(code, place, who, private)] /\ UNCHANGED room

\* Update: neither the code nor the place.
EditBin(b, who, private) ==
  /\ b \in SeenBy(who)
  /\ bin' = [bin EXCEPT ![b].private = private, ![b].shared = @ \/ ~private] /\ UNCHANGED room

MoveBin(b, who, place) ==
  /\ b \in SeenBy(who) /\ place \in Rooms /\ bin[b].place # place
  /\ bin' = [bin EXCEPT ![b].place = place] /\ UNCHANGED room

\* An item in the bin keeps it.
DeleteBin(b, who) ==
  /\ b \in SeenBy(who) /\ ~bin[b].full
  /\ bin' = [bin EXCEPT ![b] = Gone] /\ UNCHANGED room

CreateRoom(r) == room[r] = None /\ room' = [room EXCEPT ![r] = "there"] /\ UNCHANGED bin
RenameRoom(r) == r \in Rooms /\ UNCHANGED <<bin, room>>

\* Mutant of DeleteRoom: bins may stand in it.
DeleteRoomUnderBins(r) == r \in Rooms /\ room' = [room EXCEPT ![r] = Gone] /\ UNCHANGED bin

\* A bin in the location keeps it, be it visible or not.
DeleteRoom(r) ==
  /\ r \in Rooms /\ \A b \in Stands : bin[b].place # r
  /\ room' = [room EXCEPT ![r] = Gone] /\ UNCHANGED bin

-----------------------------------------------------------------------------
(* Pages and what they offer. *)

Link(page, of) == [page |-> page, of |-> of]
Home == Link("bins", None)
Locations == Link("locations", None)

\* What a page shows: cards of bins, the locations it lists or lets choose
\* from, the bin it is about and, of a bin's page, the bin whose events it
\* lists.  at is the number of deeds when the page was asked for.
Empty(link) == [link |-> link, at |-> 0, cards |-> {}, rooms |-> {}, bin |-> None,
                private |-> FALSE, feed |-> None]

\* buildBinCard: named tells whether the place was among the locations read.
Card(b) == [bin |-> b, code |-> bin[b].code, place |-> bin[b].place, named |-> TRUE]
Named(card, rooms) == [card EXCEPT !.named = card.place \in rooms]

Ask(verb, link) == [verb |-> verb, link |-> link, bin |-> None, room |-> None, code |-> None,
                    private |-> FALSE, stage |-> "sent", at |-> deeds, got |-> None]
Go(link) == Ask("go", link)

\* BinCard; and a label on a bin can be scanned at any time.
BinLinks == {Link("bin", c) : c \in Code}
LocationLinks(s) == IF s.link.page = "locations" THEN {Link("location", r) : r \in s.rooms} ELSE {}
EditLinks(s) ==
  CASE s.link.page = "bin" -> {Link("edit", s.link.of)}
    [] s.link.page = "location" -> {Link("rename", s.link.of)}
    [] OTHER -> {}

Links(s) == {Home, Locations, Link("new bin", None)} \cup BinLinks \cup LocationLinks(s) \cup EditLinks(s)

\* MoveBinForm offers every location, the present one too.
MoveForms(s) == {[Ask("move", s.link) EXCEPT !.bin = s.bin, !.room = r] : r \in s.rooms}
DeleteForm(s) == [Ask("delete", s.link) EXCEPT !.bin = s.bin]
BinForms(s) == MoveForms(s) \cup {DeleteForm(s)}

\* BinForm, blank or filled in: the code is given once, the place only with it.
CreateForm(s, c, r, p) == [Ask("create", s.link) EXCEPT !.code = c, !.room = r, !.private = p]
CreateForms(s) == {CreateForm(s, c, r, p) : c \in Code, r \in s.rooms, p \in BOOLEAN}
EditForms(s) == {[Ask("edit", s.link) EXCEPT !.code = s.link.of, !.private = p] : p \in BOOLEAN}

AddRoomForm(s) == Ask("add room", s.link)
DeleteRoomForm(s) == [Ask("delete room", s.link) EXCEPT !.room = s.link.of]
RenameRoomForm(s) == [Ask("rename room", s.link) EXCEPT !.room = s.link.of]

Forms(s) ==
  CASE s.link.page = "bin" -> BinForms(s)
    [] s.link.page = "edit" -> EditForms(s)
    [] s.link.page = "new bin" -> CreateForms(s)
    [] s.link.page = "locations" -> {AddRoomForm(s)}
    [] s.link.page = "location" -> {DeleteRoomForm(s)}
    [] s.link.page = "rename" -> {RenameRoomForm(s)}
    [] OTHER -> {}

\* Bound: one request at a time.
Choose ==
  /\ task = None
  /\ \/ \E l \in Links(screen) : task' = Go(l)
     \/ \E f \in Forms(screen) : task' = f
  /\ UNCHANGED <<bin, room, screen, deeds>>

-----------------------------------------------------------------------------
(* What the handlers do. *)

\* The request is taken: the browser is sent to another page ...
Redirect(link) == task' = Go(link)
\* ... or the handler goes on to render one.
Render(link) == task' = [task EXCEPT !.verb = "show", !.link = link]

CreateTaken ==
  /\ task.verb = "create"
  /\ \E b \in BinId : CreateBin(b, task.code, task.room, Member, task.private)
  /\ Redirect(Link("bin", task.code))

\* Update finds the bin by the code of the address.
EditTaken ==
  /\ task.verb = "edit"
  /\ \E b \in ByCode(Member, task.code) : EditBin(b, Member, task.private)
  /\ Redirect(Link("bin", task.code))

\* Mutant of MoveTaken: the bin is looked up by the code of its page.
MoveTakenByCode ==
  /\ task.verb = "move"
  /\ \E b \in ByCode(Member, task.link.of) : MoveBin(b, Member, task.room)
  /\ Render(task.link)

MoveTaken ==
  /\ task.verb = "move" /\ MoveBin(task.bin, Member, task.room)
  /\ Render(task.link)

DeleteTaken == task.verb = "delete" /\ DeleteBin(task.bin, Member) /\ Redirect(Home)

\* Mutant of AddRoomTaken: the index is not rendered again.
AddRoomTakenSilently ==
  /\ task.verb = "add room" /\ \E r \in Room : CreateRoom(r)
  /\ task' = None

AddRoomTaken ==
  /\ task.verb = "add room" /\ \E r \in Room : CreateRoom(r)
  /\ Render(Locations)

RenameRoomTaken ==
  /\ task.verb = "rename room" /\ RenameRoom(task.room)
  /\ Redirect(Link("location", task.room))

DeleteRoomTaken == task.verb = "delete room" /\ DeleteRoom(task.room) /\ Redirect(Locations)

Taken ==
  CreateTaken \/ EditTaken \/ MoveTaken \/ DeleteTaken \/ AddRoomTaken \/ RenameRoomTaken \/ DeleteRoomTaken

\* What mapBinError and mapLocationError stand for; the answer has a status
\* that htmx does not put on the page, and the form stays as it was.
Acceptable ==
  CASE task.verb = "create" -> task.room \in Rooms /\ \A b \in Stands : bin[b].code # task.code
    [] task.verb = "edit" -> ByCode(Member, task.code) # {}
    [] task.verb = "move" -> task.bin \in Visible /\ task.room \in Rooms \ {bin[task.bin].place}
    [] task.verb = "delete" -> task.bin \in Visible /\ ~bin[task.bin].full
    [] task.verb = "rename room" -> task.room \in Rooms
    [] task.verb = "delete room" -> task.room \in Rooms /\ \A b \in Stands : bin[b].place # task.room
    [] OTHER -> TRUE

Act ==
  /\ task # None /\ task.stage = "sent" /\ task.verb \notin {"go", "show"}
  /\ \/ Taken
     \/ ~Acceptable /\ task' = None /\ UNCHANGED <<bin, room>>
  /\ UNCHANGED <<screen, deeds>>

-----------------------------------------------------------------------------
(* Reading a page. *)

Shows(got) == task' = [task EXCEPT !.stage = "ready", !.got = [got EXCEPT !.at = task.at]]
Half(got) == task' = [task EXCEPT !.stage = "half", !.got = [got EXCEPT !.at = task.at]]

\* A page that is not there; the answer to a form is not put on the page then.
NotFound == IF task.verb = "go" THEN Shows(Empty(Link("missing", None))) ELSE task' = None

Page == Empty(task.link)

\* GetByCode for an address, GetByID after a move.
BinsOfLink == IF task.verb = "go" THEN ByCode(Member, task.link.of) ELSE Visible \cap {task.bin}

ReadBins == task.link.page = "bins" /\ Half([Page EXCEPT !.cards = {Card(b) : b \in Visible}])

ReadBin ==
  /\ task.link.page = "bin"
  /\ \/ BinsOfLink = {} /\ NotFound
     \/ \E b \in BinsOfLink : Half([Page EXCEPT !.bin = b, !.cards = {Card(b)}])

ReadEditForm ==
  /\ task.link.page = "edit"
  /\ \/ BinsOfLink = {} /\ NotFound
     \/ \E b \in BinsOfLink : Shows([Page EXCEPT !.bin = b, !.private = bin[b].private])

ReadCreateForm == task.link.page = "new bin" /\ Shows([Page EXCEPT !.rooms = Rooms])

ReadLocations == task.link.page = "locations" /\ Half([Page EXCEPT !.rooms = Rooms])

ReadLocation ==
  /\ task.link.page = "location"
  /\ IF task.link.of \in Rooms THEN Half(Page) ELSE NotFound

ReadRenameForm ==
  /\ task.link.page = "rename"
  /\ IF task.link.of \in Rooms THEN Shows(Page) ELSE NotFound

Read ==
  /\ task # None /\ task.stage = "sent" /\ task.verb \in {"go", "show"}
  /\ \/ ReadBins \/ ReadBin \/ ReadEditForm \/ ReadCreateForm
     \/ ReadLocations \/ ReadLocation \/ ReadRenameForm
  /\ UNCHANGED <<bin, room, screen, deeds>>

\* The lists of bins and a bin's page look up the names of locations; the pages
\* of locations list the bins that stand there.
ReadNames ==
  /\ task.link.page \in {"bins", "bin"}
  /\ Shows([task.got EXCEPT !.cards = {Named(c, Rooms) : c \in @}, !.rooms = Rooms])

BinsAt(rooms) == {Card(b) : b \in {b \in Visible : bin[b].place \in rooms}}

ReadCards ==
  \/ task.link.page = "locations" /\ Shows([task.got EXCEPT !.cards = BinsAt(task.got.rooms)])
  \/ task.link.page = "location" /\ Shows([task.got EXCEPT !.cards = BinsAt({task.link.of})])

ReadRest ==
  /\ task # None /\ task.stage = "half"
  /\ ReadNames \/ ReadCards
  /\ UNCHANGED <<bin, room, screen, deeds>>

Show ==
  /\ task # None /\ task.stage = "ready"
  /\ screen' = task.got /\ task' = None
  /\ UNCHANGED <<bin, room, deeds>>

\* BinActivityStub loads itself once, by the code; an error leaves it empty.
ShowActivity ==
  /\ screen.link.page = "bin" /\ screen.feed = None
  /\ \/ \E b \in ByCode(Member, screen.link.of) : screen' = [screen EXCEPT !.feed = b]
     \/ ByCode(Member, screen.link.of) = {} /\ screen' = [screen EXCEPT !.feed = Gone]
  /\ UNCHANGED <<bin, room, task, deeds>>

-----------------------------------------------------------------------------
(* Everybody else. *)

PutOrTakeItem(b) == b \in Stands /\ bin' = [bin EXCEPT ![b].full = ~@] /\ UNCHANGED room

Elsewhere ==
  /\ deeds < MaxDeeds /\ deeds' = deeds + 1
  /\ \/ \E b \in BinId, c \in Code, r \in Room, p \in BOOLEAN : CreateBin(b, c, r, Admin, p)
     \/ \E b \in BinId : DeleteBin(b, Admin) \/ PutOrTakeItem(b)
     \/ \E b \in BinId, p \in BOOLEAN : EditBin(b, Admin, p)
     \/ \E b \in BinId, r \in Room : MoveBin(b, Admin, r)
     \/ \E r \in Room : CreateRoom(r) \/ DeleteRoom(r)
  /\ UNCHANGED <<screen, task>>

Init ==
  /\ bin = [b \in BinId |-> None] /\ room = [r \in Room |-> None] /\ deeds = 0
  /\ screen = Empty(Link("missing", None)) /\ task = None

Next == Choose \/ Act \/ Read \/ ReadRest \/ Show \/ ShowActivity \/ Elsewhere

Spec == Init /\ [][Next]_vars

-----------------------------------------------------------------------------
(* Properties. *)

\* A bin that has been private to somebody else from its first day on is on no
\* page of the member: no list, no count, no activity, under no interleaving.
PrivateStaysUnseen ==
  \A b \in {c.bin : c \in screen.cards} \cup {screen.bin, screen.feed} :
    b \in Stands => bin[b].shared \/ bin[b].by = Member

\* A card without the name of its location is out of date: the bin has been
\* moved, or is gone.  (The bins are read before the locations, and a location
\* with a bin in it cannot be deleted.)
NoNameMeansMoved ==
  \A c \in screen.cards : ~c.named => c.bin \notin Stands \/ bin[c.bin].place # c.place

\* A move or a deletion that the member asks for happens to the bin that the
\* screen shows, even when a bin with the same code has taken its place.
MovesWhatItShows ==
  [][\A b \in BinId :
       task # None /\ task.verb \in {"move", "delete"} /\ bin'[b] # bin[b] /\ deeds' = deeds
         => b = screen.bin]_vars

\* A page that nobody has interfered with since it was asked for shows what is
\* there: every request of the member ends on a page that was read after it.
OwnScreenIsCurrent ==
  task = None /\ screen.at = deeds =>
    CASE screen.link.page = "bins" -> screen.cards = {Card(b) : b \in Visible}
      [] screen.link.page = "bin" ->
           /\ ByCode(Member, screen.link.of) = {screen.bin} /\ screen.cards = {Card(screen.bin)}
           /\ screen.rooms = Rooms /\ screen.feed \in {None, screen.bin}
      [] screen.link.page = "edit" -> screen.private = bin[screen.bin].private
      [] screen.link.page = "locations" -> screen.rooms = Rooms /\ screen.cards = BinsAt(Rooms)
      [] screen.link.page = "location" -> screen.link.of \in Rooms /\ screen.cards = BinsAt({screen.link.of})
      [] screen.link.page = "rename" -> screen.link.of \in Rooms
      [] OTHER -> TRUE
=============================================================================
