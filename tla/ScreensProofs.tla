--------------------------- MODULE ScreensProofs ---------------------------
(* The pages.  Of bins and locations: what a page that is read in two      *)
(* statements, and shown while the household goes on, tells the member.    *)
(* Of an item: what its sections say, each as old as its answer, and what  *)
(* the forms in them may ask for.  Of the notifications: what page, bell   *)
(* and switches show to one who does one thing at a time.                  *)
EXTENDS MCScreens, TLAPS, FiniteSetTheorems

laneVars == <<vars, bins, notices, lane>>

-----------------------------------------------------------------------------
(* The household's rows.                                                   *)

Standing(rows) == {b \in BinId : rows[b] \notin {None, Gone}}
RoomsOf(rooms) == {r \in Room : rooms[r] = "there"}

\* A bin stands in a location that is there, codes differ, and a bin that is
\* public has been so.
RowsSound(rows, rooms) ==
  /\ rows \in [BinId -> BinRow \cup {None, Gone}]
  /\ rooms \in [Room -> {None, "there", Gone}]
  /\ \A b \in Standing(rows) : rows[b].place \in RoomsOf(rooms)
  /\ \A b, c \in Standing(rows) : rows[b].code = rows[c].code => b = c
  /\ \A b \in Standing(rows) : rows[b].private \/ rows[b].shared

\* What no change takes back: a bin that is there keeps its code and its
\* creator, has been public if it ever was, and what is gone stays gone.
Onward(rows, rooms, rows2, rooms2) ==
  /\ \A b \in BinId : rows[b] # None =>
       /\ rows2[b] # None
       /\ rows2[b] # Gone =>
            /\ rows[b] # Gone /\ rows2[b].code = rows[b].code /\ rows2[b].by = rows[b].by
            /\ rows[b].shared => rows2[b].shared
  /\ \A r \in Room : /\ rooms[r] # None => rooms2[r] # None
                     /\ rooms[r] = Gone => rooms2[r] = Gone

\* One change of the household's rows, by whomever.
HouseStep ==
  \/ \E b \in BinId, code \in Address, r \in Room, who \in {Me, Other}, private \in BOOLEAN :
       Bins!CreateBin(b, code, r, who, private)
  \/ \E b \in BinId, who \in {Me, Other}, private \in BOOLEAN : Bins!EditBin(b, who, private)
  \/ \E b \in BinId, who \in {Me, Other}, r \in Room : Bins!MoveBin(b, who, r)
  \/ \E b \in BinId, who \in {Me, Other} : Bins!DeleteBin(b, who)
  \/ \E b \in BinId : Bins!PutOrTakeItem(b)
  \/ \E r \in Room : Bins!CreateRoom(r) \/ Bins!DeleteRoom(r)
  \/ UNCHANGED <<bin, room>>

LEMMA Households ==
  /\ Bins!Stands = Standing(bin) /\ Bins!Rooms = RoomsOf(room)
  /\ \A who : Bins!SeenBy(who) \subseteq Standing(bin)
BY DEF Bins!Stands, Bins!Rooms, Bins!SeenBy, Standing, RoomsOf

\* Every change of the rows keeps them sound and takes back nothing: the
\* unique index on codes, the foreign key that keeps a location with bins in
\* it, and ids that are not used again.
LEMMA HouseStands ==
  ASSUME RowsSound(bin, room), HouseStep
  PROVE  RowsSound(bin', room') /\ Onward(bin, room, bin', room')
<1>1. /\ bin \in [BinId -> BinRow \cup {None, Gone}]
      /\ room \in [Room -> {None, "there", Gone}]
  BY DEF RowsSound
<1>2. ASSUME NEW b \in BinId, NEW code \in Address, NEW r \in Room, NEW who \in {Me, Other},
             NEW private \in BOOLEAN, Bins!CreateBin(b, code, r, who, private)
      PROVE  RowsSound(bin', room') /\ Onward(bin, room, bin', room')
  <2> DEFINE new == Bins!Row(code, r, who, private)
  <2>1. new \in BinRow /\ new.code = code /\ new.place = r /\ (new.private \/ new.shared)
    BY DEF Bins!Row, BinRow
  <2>2. /\ bin[b] = None /\ r \in RoomsOf(room) /\ room' = room /\ bin' = [bin EXCEPT ![b] = new]
        /\ \A c \in Standing(bin) : bin[c].code # code
    BY <1>2, Households DEF Bins!CreateBin
  <2> HIDE DEF new
  <2>3. new \notin {None, Gone}
    BY <2>1, ScreensAssumption
  <2> QED
    BY <1>1, <2>1, <2>2, <2>3 DEF RowsSound, Onward, Standing
<1>3. ASSUME NEW b \in BinId, NEW row2 \in BinRow, b \in Standing(bin), room' = room,
             bin' = [bin EXCEPT ![b] = row2],
             row2.code = bin[b].code, row2.by = bin[b].by, row2.place \in RoomsOf(room),
             bin[b].shared => row2.shared, row2.private \/ row2.shared
      PROVE  RowsSound(bin', room') /\ Onward(bin, room, bin', room')
  BY <1>1, <1>3, ScreensAssumption DEF RowsSound, Onward, Standing
<1>4. ASSUME NEW b \in Standing(bin)
      PROVE  bin[b] \in BinRow /\ bin[b].place \in RoomsOf(room) /\ (bin[b].private \/ bin[b].shared)
  BY <1>1, <1>4 DEF RowsSound, Standing
<1>5. ASSUME NEW b \in BinId, NEW who \in {Me, Other}, NEW private \in BOOLEAN,
             Bins!EditBin(b, who, private)
      PROVE  RowsSound(bin', room') /\ Onward(bin, room, bin', room')
  <2> DEFINE row2 == [bin[b] EXCEPT !.private = private, !.shared = bin[b].shared \/ ~private]
  <2>1. b \in Standing(bin) /\ room' = room /\ bin' = [bin EXCEPT ![b] = row2]
    BY <1>5, Households DEF Bins!EditBin
  <2>2. /\ row2 \in BinRow /\ row2.code = bin[b].code /\ row2.by = bin[b].by
        /\ row2.place = bin[b].place /\ (bin[b].shared => row2.shared) /\ (row2.private \/ row2.shared)
    BY <1>4, <2>1 DEF BinRow
  <2> HIDE DEF row2
  <2> QED
    BY <1>3, <1>4, <2>1, <2>2
<1>6. ASSUME NEW b \in BinId, NEW who \in {Me, Other}, NEW r \in Room, Bins!MoveBin(b, who, r)
      PROVE  RowsSound(bin', room') /\ Onward(bin, room, bin', room')
  <2> DEFINE row2 == [bin[b] EXCEPT !.place = r]
  <2>1. /\ b \in Standing(bin) /\ room' = room /\ bin' = [bin EXCEPT ![b] = row2]
        /\ r \in RoomsOf(room)
    BY <1>6, Households DEF Bins!MoveBin
  <2>2. /\ row2 \in BinRow /\ row2.code = bin[b].code /\ row2.by = bin[b].by /\ row2.place = r
        /\ row2.shared = bin[b].shared /\ row2.private = bin[b].private
    BY <1>4, <2>1 DEF BinRow
  <2> HIDE DEF row2
  <2> QED
    BY <1>3, <1>4, <2>1, <2>2
<1>7. ASSUME NEW b \in BinId, Bins!PutOrTakeItem(b)
      PROVE  RowsSound(bin', room') /\ Onward(bin, room, bin', room')
  <2> DEFINE row2 == [bin[b] EXCEPT !.full = ~bin[b].full]
  <2>1. b \in Standing(bin) /\ room' = room /\ bin' = [bin EXCEPT ![b] = row2]
    BY <1>7, Households DEF Bins!PutOrTakeItem
  <2>2. /\ row2 \in BinRow /\ row2.code = bin[b].code /\ row2.by = bin[b].by /\ row2.place = bin[b].place
        /\ row2.shared = bin[b].shared /\ row2.private = bin[b].private
    BY <1>4, <2>1 DEF BinRow
  <2> HIDE DEF row2
  <2> QED
    BY <1>3, <1>4, <2>1, <2>2
<1>8. ASSUME NEW b \in BinId, NEW who \in {Me, Other}, Bins!DeleteBin(b, who)
      PROVE  RowsSound(bin', room') /\ Onward(bin, room, bin', room')
  <2>1. b \in Standing(bin) /\ room' = room /\ bin' = [bin EXCEPT ![b] = Gone]
    BY <1>8, Households DEF Bins!DeleteBin
  <2> QED
    BY <1>1, <2>1, ScreensAssumption DEF RowsSound, Onward, Standing
<1>9. ASSUME NEW r \in Room, Bins!CreateRoom(r)
      PROVE  RowsSound(bin', room') /\ Onward(bin, room, bin', room')
  <2>1. bin' = bin /\ room[r] = None /\ room' = [room EXCEPT ![r] = "there"]
    BY <1>9 DEF Bins!CreateRoom
  <2> QED
    BY <1>1, <2>1, ScreensAssumption DEF RowsSound, Onward, Standing, RoomsOf
<1>10. ASSUME NEW r \in Room, Bins!DeleteRoom(r)
       PROVE  RowsSound(bin', room') /\ Onward(bin, room, bin', room')
  <2>1. /\ bin' = bin /\ room' = [room EXCEPT ![r] = Gone]
        /\ \A b \in Standing(bin) : bin[b].place # r
    BY <1>10, Households DEF Bins!DeleteRoom
  <2> QED
    BY <1>1, <2>1, ScreensAssumption DEF RowsSound, Onward, Standing, RoomsOf
<1>11. CASE UNCHANGED <<bin, room>>
  BY <1>11 DEF RowsSound, Onward
<1> QED
  BY <1>2, <1>5, <1>6, <1>7, <1>8, <1>9, <1>10, <1>11 DEF HouseStep

-----------------------------------------------------------------------------
(* What a page has shown, and what it shows now.                           *)

\* A bin that the member may have been shown.
Met(rows, b) ==
  /\ b \in BinId /\ rows[b] # None
  /\ rows[b] # Gone => rows[b].shared \/ rows[b].by = Me

Labelled(rows, b, code) == rows[b] # Gone => rows[b].code = code

\* A card was true once; where it has no name for its location, that is gone.
CardTrue(c, rows, rooms) ==
  /\ Met(rows, c.bin) /\ rooms[c.place] # None
  /\ ~c.named => rooms[c.place] = Gone

PageTrue(s, rows, rooms) ==
  /\ \A c \in s.cards : CardTrue(c, rows, rooms)
  /\ s.bin # None => Met(rows, s.bin)
  /\ s.feed \notin {None, Gone} => Met(rows, s.feed)
  /\ s.link.page = "bin" => s.bin # None /\ Labelled(rows, s.bin, s.link.of)

SeenNow(rows) == {b \in Standing(rows) : ~rows[b].private \/ rows[b].by = Me}
CodedNow(rows, code) == {b \in SeenNow(rows) : rows[b].code = code}
CardNow(rows, b) == [bin |-> b, code |-> rows[b].code, place |-> rows[b].place, named |-> TRUE]
CardsNow(rows) == {CardNow(rows, b) : b \in SeenNow(rows)}
CardsAt(rows, rooms) == {CardNow(rows, b) : b \in {x \in SeenNow(rows) : rows[x].place \in rooms}}

\* A page shows what is there: OwnScreenIsCurrent, of any page and any rows.
Now(s, rows, rooms) ==
  /\ s.link.page = "bins" => s.cards = CardsNow(rows)
  /\ s.link.page = "bin" =>
       /\ CodedNow(rows, s.link.of) = {s.bin} /\ s.cards = {CardNow(rows, s.bin)}
       /\ s.rooms = RoomsOf(rooms) /\ s.feed \in {None, s.bin}
  /\ s.link.page = "edit" => s.private = rows[s.bin].private
  /\ s.link.page = "locations" =>
       s.rooms = RoomsOf(rooms) /\ s.cards = CardsAt(rows, RoomsOf(rooms))
  /\ s.link.page = "location" =>
       s.link.of \in RoomsOf(rooms) /\ s.cards = CardsAt(rows, {s.link.of})
  /\ s.link.page = "rename" => s.link.of \in RoomsOf(rooms)

\* A page that is half read shows what is there as far as it goes.
HalfNow(s, rows, rooms) ==
  /\ s.link.page = "bins" => s.cards = CardsNow(rows)
  /\ s.link.page = "bin" =>
       CodedNow(rows, s.link.of) = {s.bin} /\ s.cards = {CardNow(rows, s.bin)}
  /\ s.link.page = "locations" => s.rooms = RoomsOf(rooms)
  /\ s.link.page = "location" => s.link.of \in RoomsOf(rooms)

LEMMA Views ==
  /\ Bins!Visible = SeenNow(bin)
  /\ \A code : Bins!ByCode(Me, code) = CodedNow(bin, code)
  /\ \A b : Bins!Card(b) = CardNow(bin, b)
  /\ \A rooms : Bins!BinsAt(rooms) = CardsAt(bin, rooms)
<1>1. Bins!SeenBy(Me) = SeenNow(bin)
  BY ScreensAssumption DEF Bins!SeenBy, Bins!MaySee, Bins!Stands, SeenNow, Standing
<1>2. Bins!Visible = SeenNow(bin)
  BY <1>1 DEF Bins!Visible
<1>3. \A b : Bins!Card(b) = CardNow(bin, b)
  BY DEF Bins!Card, CardNow
<1>4. \A code : Bins!ByCode(Me, code) = CodedNow(bin, code)
  BY <1>1 DEF Bins!ByCode, CodedNow
<1>5. \A rooms : Bins!BinsAt(rooms) = CardsAt(bin, rooms)
  BY <1>2, <1>3 DEF Bins!BinsAt, CardsAt
<1> QED
  BY <1>2, <1>3, <1>4, <1>5

\* What a page has shown stays true as things go on.
LEMMA PagesStayTrue ==
  ASSUME NEW rows, NEW rooms, NEW rows2, NEW rooms2, Onward(rows, rooms, rows2, rooms2),
         NEW s \in BinPage, PageTrue(s, rows, rooms)
  PROVE  PageTrue(s, rows2, rooms2)
<1>1. ASSUME NEW b, Met(rows, b) PROVE Met(rows2, b)
  BY <1>1 DEF Met, Onward
<1>2. ASSUME NEW c \in s.cards PROVE CardTrue(c, rows2, rooms2)
  <2>1. c.place \in Room
    BY DEF BinPage, BinCard
  <2> QED
    BY <1>1, <1>2, <2>1 DEF PageTrue, CardTrue, Onward
<1>3. s.link.page = "bin" => s.bin # None /\ Labelled(rows2, s.bin, s.link.of)
  BY DEF PageTrue, Labelled, Met, Onward
<1> QED
  BY <1>1, <1>2, <1>3 DEF PageTrue

\* Whom the member sees has been shown to him, and stands where it stands.
LEMMA SeenIsMet ==
  ASSUME NEW rows, NEW rooms, RowsSound(rows, rooms), NEW b \in SeenNow(rows)
  PROVE  /\ Met(rows, b) /\ CardTrue(CardNow(rows, b), rows, rooms)
         /\ CardNow(rows, b) \in BinCard /\ rows[b].place \in RoomsOf(rooms)
<1>1. b \in Standing(rows) /\ b \in BinId /\ rows[b] \in BinRow
  BY DEF SeenNow, Standing, RowsSound
<1>2. rows[b].place \in RoomsOf(rooms) /\ (rows[b].private \/ rows[b].shared)
  BY <1>1 DEF RowsSound
<1>3. Met(rows, b)
  BY <1>1, <1>2 DEF Met, SeenNow, Standing
<1>4. CardNow(rows, b) \in BinCard
  BY <1>1 DEF CardNow, BinCard, BinRow
<1>5. rooms[rows[b].place] # None
  BY <1>2, ScreensAssumption DEF RoomsOf
<1> QED
  BY <1>2, <1>3, <1>4, <1>5 DEF CardTrue, CardNow

-----------------------------------------------------------------------------
(* The invariant.                                                          *)

Reading == {"go", "show"}

\* A request that has begun to read carries a page that was true when it was
\* read; a form is about what the screen shows; a page that is shown again after
\* a move is the bin's.
TaskTrue(k, s, rows, rooms) ==
  /\ s.at <= k.at
  /\ k.stage # "sent" =>
       /\ k.verb \in Reading /\ k.got \in BinPage /\ PageTrue(k.got, rows, rooms)
       /\ k.got.at = k.at /\ k.got.feed = None
  /\ k.stage = "half" => k.got.link = k.link
  /\ k.verb \in {"move", "delete"} =>
       s.link.page = "bin" /\ k.bin = s.bin /\ k.link = s.link
  /\ k.verb = "show" =>
       /\ k.link.page \in {"bin", "locations"}
       /\ k.link.page = "bin" => k.bin # None /\ Met(rows, k.bin) /\ Labelled(rows, k.bin, k.link.of)

\* As long as nobody else has done anything since it was sent.
TaskNow(k, rows, rooms) ==
  /\ k.stage = "half" => HalfNow(k.got, rows, rooms)
  /\ k.stage = "ready" => Now(k.got, rows, rooms)
  /\ k.stage = "sent" /\ k.verb = "show" /\ k.link.page = "bin" => k.bin \in SeenNow(rows)

ScreenKept ==
  /\ screen \in BinPage /\ screen.at <= deeds /\ PageTrue(screen, bin, room)
  /\ screen.at = deeds /\ (task = None \/ task.verb \notin Reading) => Now(screen, bin, room)

TaskKept ==
  task # None =>
    /\ task \in BinTask /\ task.at <= deeds
    /\ TaskTrue(task, screen, bin, room)
    /\ task.at = deeds => TaskNow(task, bin, room)

BinsKept == deeds \in Nat /\ RowsSound(bin, room) /\ ScreenKept /\ TaskKept

LEMMA BinsStart == LaneInit => BinsKept
<1> SUFFICES ASSUME LaneInit PROVE BinsKept
  OBVIOUS
<1>1. /\ bin = [b \in BinId |-> None] /\ room = [r \in Room |-> None] /\ deeds = 0
      /\ screen = Bins!Empty(Bins!Link("missing", None)) /\ task = None
  BY DEF LaneInit, Bins!Init
<1>2. /\ screen \in BinPage /\ screen.at = 0 /\ screen.cards = {} /\ screen.bin = None
      /\ screen.feed = None /\ screen.link.page = "missing"
  <2>1. Bins!Link("missing", None) \in PageLink /\ Bins!Link("missing", None).page = "missing"
    BY DEF Bins!Link, PageLink, PageName, Address
  <2> QED
    BY <1>1, <2>1 DEF Bins!Empty, BinPage
<1>3. RowsSound(bin, room)
  BY <1>1 DEF RowsSound, Standing
<1>4. PageTrue(screen, bin, room) /\ Now(screen, bin, room)
  BY <1>2 DEF PageTrue, Now
<1> QED
  BY <1>1, <1>2, <1>3, <1>4 DEF BinsKept, ScreenKept, TaskKept

-----------------------------------------------------------------------------
(* Clicks.                                                                 *)

\* A request for a page or a form, as it is sent.
Sent(k, verb, link) ==
  /\ k \in BinTask /\ k # None /\ k.verb = verb /\ k.link = link /\ k.stage = "sent" /\ k.at = deeds

LEMMA Asking ==
  ASSUME deeds \in Nat, NEW verb \in TaskVerb, NEW link \in PageLink
  PROVE  Sent(Bins!Ask(verb, link), verb, link) /\ Bins!Ask(verb, link).got = None
<1>1. /\ Bins!Ask(verb, link) \in BinTask /\ Bins!Ask(verb, link).verb = verb
      /\ Bins!Ask(verb, link).link = link /\ Bins!Ask(verb, link).stage = "sent"
      /\ Bins!Ask(verb, link).at = deeds /\ Bins!Ask(verb, link).got = None
  BY DEF Bins!Ask, BinTask, Address
<1> QED
  BY <1>1, ScreensAssumption DEF Sent

LEMMA Linking ==
  ASSUME NEW name \in PageName, NEW of \in Address
  PROVE  Bins!Link(name, of) \in PageLink /\ Bins!Link(name, of).page = name
         /\ Bins!Link(name, of).of = of
BY DEF Bins!Link, PageLink

LEMMA LinksLead ==
  ASSUME NEW s \in BinPage, NEW l \in Bins!Links(s)
  PROVE  l \in PageLink
<1>1. s.link.of \in Address /\ s.rooms \subseteq Address /\ Code \subseteq Address /\ None \in Address
  BY DEF BinPage, PageLink, Address
<1>2. Bins!Home \in PageLink /\ Bins!Locations \in PageLink /\ Bins!Link("new bin", None) \in PageLink
  BY <1>1, Linking DEF Bins!Home, Bins!Locations, PageName
<1>3. \A c \in Code : Bins!Link("bin", c) \in PageLink
  BY <1>1, Linking DEF PageName
<1>4. \A r \in s.rooms : Bins!Link("location", r) \in PageLink
  BY <1>1, Linking DEF PageName
<1>5. Bins!Link("edit", s.link.of) \in PageLink /\ Bins!Link("rename", s.link.of) \in PageLink
  BY <1>1, Linking DEF PageName
<1>6. Bins!BinLinks \subseteq PageLink /\ Bins!LocationLinks(s) \subseteq PageLink
  BY <1>3, <1>4 DEF Bins!BinLinks, Bins!LocationLinks
<1>7. Bins!EditLinks(s) \subseteq PageLink
  BY <1>5 DEF Bins!EditLinks
<1> QED
  BY <1>2, <1>6, <1>7 DEF Bins!Links

\* A form names what the page is about.
LEMMA FormsFill ==
  ASSUME deeds \in Nat, NEW s \in BinPage, NEW f \in Bins!Forms(s)
  PROVE  \E verb \in TaskVerb \ Reading :
           /\ Sent(f, verb, s.link)
           /\ verb \in {"move", "delete"} => s.link.page = "bin" /\ f.bin = s.bin
<1>1. /\ s.link \in PageLink /\ s.link.of \in Address /\ s.bin \in BinId \cup {None}
      /\ s.rooms \subseteq Address /\ Code \subseteq Address
  BY DEF BinPage, PageLink, Address
<1>2. ASSUME NEW verb \in TaskVerb \ Reading, NEW k, k \in BinTask, k.verb = verb,
             k.link = s.link, k.stage = "sent", k.at = deeds,
             verb \in {"move", "delete"} => s.link.page = "bin" /\ k.bin = s.bin
      PROVE  \E v \in TaskVerb \ Reading :
               /\ Sent(k, v, s.link)
               /\ v \in {"move", "delete"} => s.link.page = "bin" /\ k.bin = s.bin
  BY <1>2, ScreensAssumption DEF Sent
<1>3. ASSUME NEW verb \in TaskVerb \ Reading
      PROVE  /\ Bins!Ask(verb, s.link) \in BinTask /\ Bins!Ask(verb, s.link).verb = verb
             /\ Bins!Ask(verb, s.link).link = s.link /\ Bins!Ask(verb, s.link).stage = "sent"
             /\ Bins!Ask(verb, s.link).at = deeds
  BY <1>1, <1>3, Asking DEF Sent
\* Filling in a form leaves what it is and when it was sent.
<1>4. ASSUME NEW a \in BinTask, NEW r \in Address, NEW c \in Address, NEW p \in BOOLEAN
      PROVE  /\ [a EXCEPT !.bin = s.bin] \in BinTask
             /\ [a EXCEPT !.bin = s.bin, !.room = r] \in BinTask
             /\ [a EXCEPT !.room = r] \in BinTask
             /\ [a EXCEPT !.code = c, !.private = p] \in BinTask
             /\ [a EXCEPT !.code = c, !.room = r, !.private = p] \in BinTask
  BY <1>1, <1>4 DEF BinTask
<1>5. ASSUME NEW verb \in TaskVerb \ Reading, NEW a \in BinTask, a.verb = verb,
             a.link = s.link, a.stage = "sent", a.at = deeds,
             NEW r \in Address, NEW c \in Address, NEW p \in BOOLEAN,
             \/ s.link.page = "bin" /\ f \in {[a EXCEPT !.bin = s.bin], [a EXCEPT !.bin = s.bin, !.room = r]}
             \/ verb \notin {"move", "delete"} /\
                  f \in {a, [a EXCEPT !.room = r], [a EXCEPT !.code = c, !.private = p],
                        [a EXCEPT !.code = c, !.room = r, !.private = p]}
      PROVE  \E v \in TaskVerb \ Reading :
               /\ Sent(f, v, s.link)
               /\ v \in {"move", "delete"} => s.link.page = "bin" /\ f.bin = s.bin
  <2>1. f \in BinTask
    <3>1. CASE f \in {[a EXCEPT !.bin = s.bin], [a EXCEPT !.bin = s.bin, !.room = r]}
      BY <1>4, <3>1
    <3>2. CASE f = a \/ f = [a EXCEPT !.room = r]
      BY <1>4, <1>5, <3>2
    <3>3. CASE f = [a EXCEPT !.code = c, !.private = p]
      BY <1>4, <1>5, <3>3
    <3>4. CASE f = [a EXCEPT !.code = c, !.room = r, !.private = p]
      BY <1>4, <1>5, <3>4
    <3> QED
      BY <1>5, <3>1, <3>2, <3>3, <3>4
  <2>2. f.verb = verb /\ f.link = s.link /\ f.stage = "sent" /\ f.at = deeds
    BY <1>5 DEF BinTask
  <2>3. verb \in {"move", "delete"} => s.link.page = "bin" /\ f.bin = s.bin
    BY <1>5 DEF BinTask
  <2> QED
    BY <1>2, <2>1, <2>2, <2>3
<1>6. None \in Address /\ TRUE \in BOOLEAN
  BY DEF Address
<1>7. CASE s.link.page = "bin" /\ f = Bins!DeleteForm(s)
  <2>1. "delete" \in TaskVerb \ Reading
    BY DEF TaskVerb, Reading
  <2> QED
    BY <1>3, <1>5, <1>6, <1>7, <2>1 DEF Bins!DeleteForm
<1>8. CASE s.link.page = "bin" /\ f \in Bins!MoveForms(s)
  <2>1. PICK r \in s.rooms : f = [Bins!Ask("move", s.link) EXCEPT !.bin = s.bin, !.room = r]
    BY <1>8 DEF Bins!MoveForms
  <2>2. "move" \in TaskVerb \ Reading /\ r \in Address
    BY <1>1, <2>1 DEF TaskVerb, Reading
  <2> QED
    BY <1>3, <1>5, <1>6, <1>8, <2>1, <2>2
<1>9. CASE f \in Bins!EditForms(s)
  <2>1. PICK p \in BOOLEAN : f = [Bins!Ask("edit", s.link) EXCEPT !.code = s.link.of, !.private = p]
    BY <1>9 DEF Bins!EditForms
  <2>2. "edit" \in TaskVerb \ Reading
    BY DEF TaskVerb, Reading
  <2> QED
    BY <1>1, <1>3, <1>5, <1>6, <2>1, <2>2
<1>10. CASE f \in Bins!CreateForms(s)
  <2>1. \E c \in Code, r \in s.rooms, p \in BOOLEAN : f = Bins!CreateForm(s, c, r, p)
    BY <1>10 DEF Bins!CreateForms
  <2>2. "create" \in TaskVerb \ Reading
    BY DEF TaskVerb, Reading
  <2>3. PICK c \in Code, r \in s.rooms, p \in BOOLEAN :
          f = [Bins!Ask("create", s.link) EXCEPT !.code = c, !.room = r, !.private = p]
    BY <2>1 DEF Bins!CreateForm
  <2>4. c \in Address /\ r \in Address /\ p \in BOOLEAN
    BY <1>1
  <2> QED
    BY <1>3, <1>5, <2>2, <2>3, <2>4
<1>11. CASE f = Bins!AddRoomForm(s)
  <2>1. "add room" \in TaskVerb \ Reading
    BY DEF TaskVerb, Reading
  <2> QED
    BY <1>3, <1>5, <1>6, <1>11, <2>1 DEF Bins!AddRoomForm
<1>12. CASE f = Bins!DeleteRoomForm(s)
  <2>1. "delete room" \in TaskVerb \ Reading
    BY DEF TaskVerb, Reading
  <2> QED
    BY <1>1, <1>3, <1>5, <1>6, <1>12, <2>1 DEF Bins!DeleteRoomForm
<1>13. CASE f = Bins!RenameRoomForm(s)
  <2>1. "rename room" \in TaskVerb \ Reading
    BY DEF TaskVerb, Reading
  <2> QED
    BY <1>1, <1>3, <1>5, <1>6, <1>13, <2>1 DEF Bins!RenameRoomForm
<1>14. \/ s.link.page = "bin" /\ f \in Bins!BinForms(s)
       \/ f \in Bins!EditForms(s) \/ f \in Bins!CreateForms(s) \/ f = Bins!AddRoomForm(s)
       \/ f = Bins!DeleteRoomForm(s) \/ f = Bins!RenameRoomForm(s)
  BY DEF Bins!Forms
<1> QED
  BY <1>7, <1>8, <1>9, <1>10, <1>11, <1>12, <1>13, <1>14 DEF Bins!BinForms

\* A request for a page: what it will show is yet to be read.
LEMMA Going ==
  ASSUME deeds \in Nat, deeds' = deeds, NEW link \in PageLink, task' = Bins!Go(link),
         screen' \in BinPage, screen'.at <= deeds, PageTrue(screen', bin', room')
  PROVE  ScreenKept' /\ TaskKept'
<1>1. "go" \in TaskVerb
  BY DEF TaskVerb
<1>2. Sent(task', "go", link)
  BY <1>1, Asking DEF Bins!Go
<1>3. TaskTrue(task', screen', bin', room') /\ TaskNow(task', bin', room')
  BY <1>2 DEF Sent, TaskTrue, TaskNow
<1> QED
  BY <1>2, <1>3 DEF ScreenKept, TaskKept, Sent, Reading

\* A click leaves the household as it is.
LEMMA ChooseKept ==
  ASSUME BinsKept, Bins!Choose
  PROVE  BinsKept'
<1>1. /\ task = None /\ UNCHANGED <<bin, room, screen, deeds>>
      /\ deeds \in Nat /\ screen \in BinPage /\ screen.at <= deeds /\ PageTrue(screen, bin, room)
      /\ RowsSound(bin, room) /\ (screen.at = deeds => Now(screen, bin, room))
  BY DEF BinsKept, ScreenKept, Bins!Choose
<1>2. deeds' \in Nat /\ RowsSound(bin, room)' /\ PageTrue(screen, bin, room)'
  BY <1>1
<1>3. ASSUME NEW l \in Bins!Links(screen), task' = Bins!Go(l) PROVE BinsKept'
  <2>1. l \in PageLink
    BY <1>1, LinksLead
  <2>2. ScreenKept' /\ TaskKept'
    BY <1>1, <1>2, <1>3, <2>1, Going
  <2> QED
    BY <1>2, <2>2 DEF BinsKept
<1>4. ASSUME NEW f \in Bins!Forms(screen), task' = f PROVE BinsKept'
  <2>1. PICK verb \in TaskVerb \ Reading :
          /\ Sent(f, verb, screen.link)
          /\ verb \in {"move", "delete"} => screen.link.page = "bin" /\ f.bin = screen.bin
    BY <1>1, FormsFill
  <2>2. TaskTrue(task', screen', bin', room') /\ TaskNow(task', bin', room')
    BY <1>1, <1>4, <2>1 DEF Sent, TaskTrue, TaskNow, Reading
  <2>3. TaskKept'
    BY <1>1, <1>4, <2>1, <2>2 DEF TaskKept, Sent
  <2>4. ScreenKept'
    BY <1>1, <1>2 DEF ScreenKept
  <2> QED
    BY <1>2, <2>3, <2>4 DEF BinsKept
<1> QED
  BY <1>3, <1>4 DEF Bins!Choose

-----------------------------------------------------------------------------
(* Changes by the member.                                                  *)

\* A form that is taken changes the rows, and leads to a page or renders one;
\* after a move that is the page of the bin that was moved.
LEMMA TakenLeads ==
  ASSUME BinsKept, task # None, Bins!Taken
  PROVE  /\ HouseStep
         /\ \/ \E link \in PageLink : task' = Bins!Go(link)
            \/ /\ task.verb = "move" /\ task.bin \in SeenNow(bin')
               /\ task' = [task EXCEPT !.verb = "show", !.link = task.link]
            \/ task' = [task EXCEPT !.verb = "show", !.link = Bins!Locations]
<1>1. /\ task \in BinTask /\ task.code \in Address /\ task.room \in Address /\ task.private \in BOOLEAN
      /\ None \in Address /\ Me \in {Me, Other} /\ RowsSound(bin, room)
  BY DEF BinsKept, TaskKept, BinTask, Address
<1>2. \A name \in PageName, of \in Address : Bins!Link(name, of) \in PageLink
  BY Linking
<1>3. {"bin", "bins", "location", "locations"} \subseteq PageName
  BY DEF PageName
<1>4. CASE Bins!CreateTaken
  <2>1. PICK b \in BinId : Bins!CreateBin(b, task.code, task.room, Me, task.private)
    BY <1>4 DEF Bins!CreateTaken
  <2>2. task.room \in Room
    BY <2>1 DEF Bins!CreateBin, Bins!Rooms
  <2>3. HouseStep
    BY <1>1, <2>1, <2>2 DEF HouseStep
  <2> QED
    BY <1>1, <1>2, <1>3, <1>4, <2>3 DEF Bins!CreateTaken, Bins!Redirect
<1>5. CASE Bins!EditTaken
  <2>1. PICK b \in Bins!ByCode(Me, task.code) : Bins!EditBin(b, Me, task.private)
    BY <1>5 DEF Bins!EditTaken
  <2>2. b \in BinId
    BY <2>1 DEF Bins!ByCode, Bins!SeenBy, Bins!Stands
  <2>3. HouseStep
    BY <1>1, <2>1, <2>2 DEF HouseStep
  <2> QED
    BY <1>1, <1>2, <1>3, <1>5, <2>3 DEF Bins!EditTaken, Bins!Redirect
<1>6. CASE Bins!MoveTaken
  <2>1. /\ task.verb = "move" /\ Bins!MoveBin(task.bin, Me, task.room)
        /\ task' = [task EXCEPT !.verb = "show", !.link = task.link]
    BY <1>6 DEF Bins!MoveTaken, Bins!Render
  <2>2. /\ task.bin \in Bins!SeenBy(Me) /\ task.room \in Room
        /\ bin' = [bin EXCEPT ![task.bin] = [bin[task.bin] EXCEPT !.place = task.room]]
    BY <2>1 DEF Bins!MoveBin, Bins!Rooms
  <2>3. task.bin \in SeenNow(bin) /\ task.bin \in BinId
    BY <2>2, Views DEF Bins!Visible, SeenNow, Standing
  <2>4. bin[task.bin] \in BinRow
    BY <1>1, <2>3 DEF SeenNow, Standing, RowsSound
  <2>5. task.bin \in SeenNow(bin')
    <3> DEFINE moved == [bin[task.bin] EXCEPT !.place = task.room]
    <3>1. /\ moved \in BinRow /\ moved.private = bin[task.bin].private
          /\ moved.by = bin[task.bin].by
      BY <2>2, <2>4 DEF BinRow
    <3>2. bin'[task.bin] = moved
      BY <1>1, <2>2, <2>3 DEF RowsSound
    <3> HIDE DEF moved
    <3> QED
      BY <2>3, <3>1, <3>2, ScreensAssumption DEF SeenNow, Standing
  <2>6. HouseStep
    BY <1>1, <2>1, <2>2, <2>3 DEF HouseStep
  <2> QED
    BY <2>1, <2>5, <2>6
<1>7. CASE Bins!DeleteTaken
  <2>1. Bins!DeleteBin(task.bin, Me) /\ task' = Bins!Go(Bins!Home)
    BY <1>7 DEF Bins!DeleteTaken, Bins!Redirect
  <2>2. task.bin \in BinId
    BY <2>1 DEF Bins!DeleteBin, Bins!SeenBy, Bins!Stands
  <2>3. HouseStep
    BY <1>1, <2>1, <2>2 DEF HouseStep
  <2> QED
    BY <1>1, <1>2, <1>3, <2>1, <2>3 DEF Bins!Home
<1>8. CASE Bins!AddRoomTaken
  <2>1. HouseStep
    BY <1>8 DEF Bins!AddRoomTaken, HouseStep
  <2> QED
    BY <1>8, <2>1 DEF Bins!AddRoomTaken, Bins!Render
<1>9. CASE Bins!RenameRoomTaken
  <2>1. HouseStep
    BY <1>9 DEF Bins!RenameRoomTaken, Bins!RenameRoom, HouseStep
  <2> QED
    BY <1>1, <1>2, <1>3, <1>9, <2>1 DEF Bins!RenameRoomTaken, Bins!Redirect
<1>10. CASE Bins!DeleteRoomTaken
  <2>1. Bins!DeleteRoom(task.room) /\ task' = Bins!Go(Bins!Locations)
    BY <1>10 DEF Bins!DeleteRoomTaken, Bins!Redirect
  <2>2. task.room \in Room
    BY <2>1 DEF Bins!DeleteRoom, Bins!Rooms
  <2>3. HouseStep
    BY <2>1, <2>2 DEF HouseStep
  <2> QED
    BY <1>1, <1>2, <1>3, <2>1, <2>3 DEF Bins!Locations
<1> QED
  BY <1>4, <1>5, <1>6, <1>7, <1>8, <1>9, <1>10 DEF Bins!Taken

\* A form that is taken or refused.
LEMMA ActKept ==
  ASSUME BinsKept, Bins!Act
  PROVE  BinsKept'
<1>1. /\ task # None /\ task.stage = "sent" /\ task.verb \notin Reading
      /\ UNCHANGED <<screen, deeds>>
      /\ Bins!Taken \/ (task' = None /\ UNCHANGED <<bin, room>>)
  BY DEF Bins!Act, Reading
<1>2. /\ deeds \in Nat /\ RowsSound(bin, room) /\ screen \in BinPage /\ screen.at <= deeds
      /\ PageTrue(screen, bin, room) /\ task \in BinTask /\ task.at <= deeds
      /\ TaskTrue(task, screen, bin, room)
      /\ screen.at = deeds => Now(screen, bin, room)
  BY <1>1 DEF BinsKept, ScreenKept, TaskKept
<1>3. CASE task' = None /\ UNCHANGED <<bin, room>>
  <2>1. RowsSound(bin, room)' /\ PageTrue(screen, bin, room)' /\ deeds' \in Nat
    BY <1>1, <1>2, <1>3
  <2>2. ScreenKept' /\ TaskKept'
    BY <1>1, <1>2, <1>3, <2>1 DEF ScreenKept, TaskKept
  <2> QED
    BY <2>1, <2>2 DEF BinsKept
<1>4. CASE Bins!Taken
  <2>1. HouseStep
    BY <1>1, <1>4, TakenLeads
  <2>2. RowsSound(bin', room') /\ Onward(bin, room, bin', room')
    BY <1>2, <2>1, HouseStands
  <2>3. PageTrue(screen, bin', room')
    BY <1>2, <2>2, PagesStayTrue
  <2>4. ASSUME NEW link \in PageLink, task' = Bins!Go(link) PROVE BinsKept'
    <3>1. ScreenKept' /\ TaskKept'
      BY <1>1, <1>2, <2>3, <2>4, Going
    <3> QED
      BY <1>1, <1>2, <2>2, <3>1 DEF BinsKept
  <2>5. ASSUME NEW link \in PageLink, task' = [task EXCEPT !.verb = "show", !.link = link],
               link.page \in {"bin", "locations"},
               link.page = "bin" => /\ task.bin # None /\ task.bin \in SeenNow(bin')
                                    /\ Met(bin', task.bin) /\ Labelled(bin', task.bin, link.of)
        PROVE  BinsKept'
    <3>1. /\ task' \in BinTask /\ task'.verb = "show" /\ task'.link = link /\ task'.stage = "sent"
          /\ task'.at = task.at /\ task'.bin = task.bin
      BY <1>1, <1>2, <2>5 DEF BinTask, TaskVerb
    <3>2. task' # None
      BY <3>1, ScreensAssumption
    <3>3. TaskTrue(task', screen', bin', room') /\ TaskNow(task', bin', room')
      BY <1>1, <1>2, <2>5, <3>1 DEF TaskTrue, TaskNow
    <3>4. ScreenKept' /\ TaskKept'
      BY <1>1, <1>2, <2>3, <3>1, <3>2, <3>3 DEF ScreenKept, TaskKept, Reading
    <3> QED
      BY <1>1, <1>2, <2>2, <3>4 DEF BinsKept
  <2>6. CASE /\ task.verb = "move" /\ task.bin \in SeenNow(bin')
             /\ task' = [task EXCEPT !.verb = "show", !.link = task.link]
    <3>1. task.link = screen.link /\ task.link.page = "bin" /\ task.bin = screen.bin
      BY <1>2, <2>6 DEF TaskTrue
    <3>2. /\ task.bin # None /\ Met(bin', task.bin) /\ Labelled(bin', task.bin, task.link.of)
      BY <2>3, <3>1 DEF PageTrue
    <3>3. task.link \in PageLink
      BY <1>2 DEF BinTask
    <3> QED
      BY <2>5, <2>6, <3>1, <3>2, <3>3
  <2>7. CASE task' = [task EXCEPT !.verb = "show", !.link = Bins!Locations]
    <3>1. Bins!Locations \in PageLink /\ Bins!Locations.page = "locations"
      BY DEF Bins!Locations, Bins!Link, PageLink, PageName, Address
    <3> QED
      BY <2>5, <2>7, <3>1
  <2> QED
    BY <1>1, <1>4, <2>4, <2>6, <2>7, TakenLeads
<1> QED
  BY <1>1, <1>3, <1>4

-----------------------------------------------------------------------------
(* Reading a page.                                                         *)

\* A page that is read, in part or to its end: the request carries it.
LEMMA Carried ==
  ASSUME BinsKept, task # None, task.verb \in Reading, UNCHANGED <<bin, room, screen, deeds>>,
         NEW stage \in {"half", "ready"}, NEW got \in BinPage, got.feed = None,
         PageTrue(got, bin, room),
         task' = [task EXCEPT !.stage = stage, !.got = [got EXCEPT !.at = task.at]],
         stage = "half" => got.link = task.link,
         task.at = deeds /\ stage = "half" => HalfNow(got, bin, room),
         task.at = deeds /\ stage = "ready" => Now(got, bin, room)
  PROVE  BinsKept'
<1> DEFINE kept == [got EXCEPT !.at = task.at]
<1>1. /\ deeds \in Nat /\ RowsSound(bin, room) /\ screen \in BinPage /\ screen.at <= deeds
      /\ PageTrue(screen, bin, room) /\ task \in BinTask /\ task.at <= deeds /\ task.at \in Nat
      /\ TaskTrue(task, screen, bin, room)
  BY DEF BinsKept, ScreenKept, TaskKept, BinTask
<1>2. /\ kept \in BinPage /\ kept.at = task.at /\ kept.link = got.link /\ kept.cards = got.cards
      /\ kept.rooms = got.rooms /\ kept.bin = got.bin /\ kept.private = got.private
      /\ kept.feed = got.feed
  BY <1>1 DEF BinPage
<1>3. task' = [task EXCEPT !.stage = stage, !.got = kept]
  OBVIOUS
<1> HIDE DEF kept
<1>4. PageTrue(kept, bin, room)
  BY <1>2 DEF PageTrue
<1>5. /\ task.at = deeds /\ stage = "half" => HalfNow(kept, bin, room)
      /\ task.at = deeds /\ stage = "ready" => Now(kept, bin, room)
  BY <1>2 DEF HalfNow, Now
<1>6. /\ task' \in BinTask /\ task'.stage = stage /\ task'.got = kept /\ task'.verb = task.verb
      /\ task'.link = task.link /\ task'.at = task.at /\ task'.bin = task.bin
  BY <1>1, <1>2, <1>3 DEF BinTask
<1>7. TaskTrue(task', screen, bin, room)
  BY <1>1, <1>2, <1>4, <1>6 DEF TaskTrue
<1>8. task'.at = deeds => TaskNow(task', bin, room)
  BY <1>5, <1>6 DEF TaskNow
<1>9. task' # None
  BY <1>6, ScreensAssumption
<1>10. RowsSound(bin, room)' /\ PageTrue(screen, bin, room)' /\ TaskTrue(task, screen, bin, room)'
       /\ (task'.at = deeds' => TaskNow(task, bin, room)')
  BY <1>1, <1>7, <1>8
<1>11. ScreenKept'
  BY <1>1, <1>6, <1>9, <1>10 DEF ScreenKept
<1>12. TaskKept'
  BY <1>1, <1>6, <1>10 DEF TaskKept
<1> QED
  BY <1>1, <1>10, <1>11, <1>12 DEF BinsKept

\* An empty page.
LEMMA BlankPage ==
  ASSUME NEW l \in PageLink, NEW got, got = Bins!Empty(l)
  PROVE  /\ got \in BinPage /\ got.link = l /\ got.cards = {} /\ got.bin = None
         /\ got.feed = None /\ got.rooms = {}
<1>1. got \in BinPage
  BY DEF Bins!Empty, BinPage
<1>2. got.link = l /\ got.cards = {} /\ got.bin = None /\ got.feed = None /\ got.rooms = {}
  BY DEF Bins!Empty
<1> QED
  BY <1>1, <1>2

\* A page that is not there: to a member who asked for it, it is what there is.
\* The answer to a form that finds nothing is dropped, which is not when nobody
\* has interfered.
LEMMA NotFoundKept ==
  ASSUME BinsKept, task # None, task.verb \in Reading, UNCHANGED <<bin, room, screen, deeds>>,
         Bins!NotFound, task.verb = "show" => task.at # deeds
  PROVE  BinsKept'
<1>1. CASE task.verb = "go"
  <2>0. "missing" \in PageName /\ None \in Address
    BY DEF PageName, Address
  <2>1. PICK missing \in PageLink : missing = Bins!Link("missing", None) /\ missing.page = "missing"
    BY <2>0, Linking
  <2>2. PICK got : got = Bins!Empty(missing)
    OBVIOUS
  <2>3. task' = [task EXCEPT !.stage = "ready", !.got = [got EXCEPT !.at = task.at]]
    BY <1>1, <2>1, <2>2 DEF Bins!NotFound, Bins!Shows
  <2>4. got \in BinPage /\ got.link = missing /\ got.cards = {} /\ got.bin = None /\ got.feed = None
    BY <2>1, <2>2, BlankPage
  <2>5. PageTrue(got, bin, room) /\ Now(got, bin, room)
    BY <2>1, <2>4 DEF PageTrue, Now
  <2> QED
    BY <2>3, <2>4, <2>5, Carried
<1>2. CASE task.verb = "show"
  <2>1. task' = None
    BY <1>2 DEF Bins!NotFound
  <2>2. /\ deeds \in Nat /\ RowsSound(bin, room) /\ screen \in BinPage /\ screen.at <= deeds
        /\ PageTrue(screen, bin, room) /\ task \in BinTask /\ task.at <= deeds
        /\ screen.at <= task.at /\ task.at # deeds
    BY <1>2 DEF BinsKept, ScreenKept, TaskKept, TaskTrue
  <2>3. screen.at \in Nat /\ task.at \in Nat
    BY <2>2 DEF BinPage, BinTask
  <2>4. screen.at # deeds
    BY <2>2, <2>3
  <2>5. RowsSound(bin, room)' /\ PageTrue(screen, bin, room)'
    BY <2>2
  <2>6. ScreenKept' /\ TaskKept'
    BY <2>1, <2>2, <2>4, <2>5 DEF ScreenKept, TaskKept
  <2> QED
    BY <2>2, <2>5, <2>6 DEF BinsKept
<1> QED
  BY <1>1, <1>2 DEF Reading

\* The first statement of a page of bins.
LEMMA ReadKept ==
  ASSUME BinsKept, Bins!Read
  PROVE  BinsKept'
<1>1. /\ task # None /\ task.stage = "sent" /\ task.verb \in Reading
      /\ UNCHANGED <<bin, room, screen, deeds>>
  BY DEF Bins!Read, Reading
<1>2. /\ deeds \in Nat /\ RowsSound(bin, room) /\ screen \in BinPage /\ screen.at <= deeds
      /\ PageTrue(screen, bin, room) /\ task \in BinTask /\ task.at <= deeds /\ task.link \in PageLink
      /\ TaskTrue(task, screen, bin, room) /\ (task.at = deeds => TaskNow(task, bin, room))
  BY <1>1 DEF BinsKept, ScreenKept, TaskKept, BinTask
<1>3. PICK blank : blank = Bins!Empty(task.link)
  OBVIOUS
<1>4. /\ blank \in BinPage /\ blank.link = task.link /\ blank.cards = {} /\ blank.bin = None
      /\ blank.feed = None /\ blank.rooms = {}
  BY <1>2, <1>3, BlankPage
<1>5. Bins!Page = blank /\ Bins!Rooms = RoomsOf(room) /\ RoomsOf(room) \subseteq Room
  BY <1>3, Households DEF Bins!Page, RoomsOf
\* A page that is not there, of a kind that no form renders.
<1>6. ASSUME task.link.page \notin {"bin", "locations"}, Bins!NotFound PROVE BinsKept'
  BY <1>1, <1>2, <1>6, NotFoundKept DEF TaskTrue
<1>7. CASE Bins!ReadBins
  <2>1. task.link.page = "bins" /\ Bins!Half([blank EXCEPT !.cards = CardsNow(bin)])
    BY <1>5, <1>7, Views DEF Bins!ReadBins, CardsNow
  <2>2. CardsNow(bin) \subseteq BinCard /\ \A c \in CardsNow(bin) : CardTrue(c, bin, room)
    BY <1>2, SeenIsMet DEF CardsNow
  <2>3. PICK got : got = [blank EXCEPT !.cards = CardsNow(bin)]
    OBVIOUS
  <2>4. /\ got \in BinPage /\ got.link = task.link /\ got.cards = CardsNow(bin)
        /\ got.bin = None /\ got.feed = None
    BY <1>4, <2>2, <2>3 DEF BinPage
  <2>5. PageTrue(got, bin, room) /\ HalfNow(got, bin, room)
    BY <2>1, <2>2, <2>4 DEF PageTrue, HalfNow
  <2>6. task' = [task EXCEPT !.stage = "half", !.got = [got EXCEPT !.at = task.at]]
    BY <2>1, <2>3 DEF Bins!Half
  <2> QED
    BY <1>1, <2>4, <2>5, <2>6, Carried
<1>8. CASE Bins!ReadBin
  <2>1. task.link.page = "bin"
    BY <1>8 DEF Bins!ReadBin
  <2>2. Bins!BinsOfLink = IF task.verb = "go" THEN CodedNow(bin, task.link.of) ELSE SeenNow(bin) \cap {task.bin}
    BY Views DEF Bins!BinsOfLink
  <2>3. CASE Bins!BinsOfLink = {} /\ Bins!NotFound
    <3>1. ASSUME task.verb = "show", task.at = deeds PROVE FALSE
      BY <1>1, <1>2, <2>1, <2>2, <2>3, <3>1 DEF TaskNow
    <3> QED
      BY <1>1, <2>3, <3>1, NotFoundKept
  <2>4. ASSUME NEW b \in Bins!BinsOfLink,
               Bins!Half([blank EXCEPT !.bin = b, !.cards = {CardNow(bin, b)}])
        PROVE  BinsKept'
    <3>1. b \in SeenNow(bin)
      BY <2>2, <2>4 DEF CodedNow
    <3>2. Labelled(bin, b, task.link.of)
      BY <1>1, <1>2, <2>1, <2>2, <2>4 DEF CodedNow, TaskTrue, Labelled, Reading
    <3>3. /\ CardNow(bin, b) \in BinCard /\ CardTrue(CardNow(bin, b), bin, room)
          /\ Met(bin, b) /\ b \in BinId /\ b # None
      BY <1>2, <3>1, SeenIsMet, ScreensAssumption DEF Met
    <3>4. CodedNow(bin, task.link.of) = {b}
      BY <1>2, <3>1, <3>2 DEF CodedNow, SeenNow, Standing, Labelled, RowsSound
    <3>5. PICK got : got = [blank EXCEPT !.bin = b, !.cards = {CardNow(bin, b)}]
      OBVIOUS
    <3>6. /\ got \in BinPage /\ got.link = task.link /\ got.cards = {CardNow(bin, b)}
          /\ got.bin = b /\ got.feed = None
      BY <1>4, <3>3, <3>5 DEF BinPage
    <3>7. PageTrue(got, bin, room) /\ HalfNow(got, bin, room)
      BY <2>1, <3>2, <3>3, <3>4, <3>6 DEF PageTrue, HalfNow
    <3>8. task' = [task EXCEPT !.stage = "half", !.got = [got EXCEPT !.at = task.at]]
      BY <2>4, <3>5 DEF Bins!Half
    <3> QED
      BY <1>1, <3>6, <3>7, <3>8, Carried
  <2> QED
    BY <1>5, <1>8, <2>3, <2>4, Views DEF Bins!ReadBin
<1>9. CASE Bins!ReadEditForm
  <2>1. task.link.page = "edit"
    BY <1>9 DEF Bins!ReadEditForm
  <2>2. CASE Bins!NotFound
    BY <1>6, <2>1, <2>2
  <2>3. ASSUME NEW b \in Bins!BinsOfLink,
               Bins!Shows([blank EXCEPT !.bin = b, !.private = bin[b].private])
        PROVE  BinsKept'
    <3>1. b \in SeenNow(bin)
      BY <2>3, Views DEF Bins!BinsOfLink, CodedNow
    <3>2. Met(bin, b) /\ b \in BinId /\ bin[b] \in BinRow /\ bin[b].private \in BOOLEAN
      BY <1>2, <3>1, SeenIsMet DEF Met, SeenNow, Standing, RowsSound, BinRow
    <3>3. PICK got : got = [blank EXCEPT !.bin = b, !.private = bin[b].private]
      OBVIOUS
    <3>4. got \in BinPage
      BY <1>4, <3>2, <3>3 DEF BinPage
    <3>5. /\ got.link = task.link /\ got.cards = {} /\ got.bin = b /\ got.feed = None
          /\ got.private = bin[b].private
      BY <1>4, <3>3 DEF BinPage
    <3>6. PageTrue(got, bin, room) /\ Now(got, bin, room)
      BY <2>1, <3>2, <3>5 DEF PageTrue, Now
    <3>7. task' = [task EXCEPT !.stage = "ready", !.got = [got EXCEPT !.at = task.at]]
      BY <2>3, <3>3 DEF Bins!Shows
    <3> QED
      BY <1>1, <3>4, <3>5, <3>6, <3>7, Carried
  <2> QED
    BY <1>5, <1>9, <2>2, <2>3 DEF Bins!ReadEditForm
<1>10. CASE Bins!ReadCreateForm
  <2>1. task.link.page = "new bin" /\ Bins!Shows([blank EXCEPT !.rooms = RoomsOf(room)])
    BY <1>5, <1>10 DEF Bins!ReadCreateForm
  <2>2. PICK got : got = [blank EXCEPT !.rooms = RoomsOf(room)]
    OBVIOUS
  <2>3. /\ got \in BinPage /\ got.link = task.link /\ got.cards = {} /\ got.bin = None /\ got.feed = None
    BY <1>4, <1>5, <2>2 DEF BinPage
  <2>4. PageTrue(got, bin, room) /\ Now(got, bin, room)
    BY <2>1, <2>3 DEF PageTrue, Now
  <2>5. task' = [task EXCEPT !.stage = "ready", !.got = [got EXCEPT !.at = task.at]]
    BY <2>1, <2>2 DEF Bins!Shows
  <2> QED
    BY <1>1, <2>3, <2>4, <2>5, Carried
<1>11. CASE Bins!ReadLocations
  <2>1. task.link.page = "locations" /\ Bins!Half([blank EXCEPT !.rooms = RoomsOf(room)])
    BY <1>5, <1>11 DEF Bins!ReadLocations
  <2>2. PICK got : got = [blank EXCEPT !.rooms = RoomsOf(room)]
    OBVIOUS
  <2>3. /\ got \in BinPage /\ got.link = task.link /\ got.cards = {} /\ got.bin = None /\ got.feed = None
        /\ got.rooms = RoomsOf(room)
    BY <1>4, <1>5, <2>2 DEF BinPage
  <2>4. PageTrue(got, bin, room) /\ HalfNow(got, bin, room)
    BY <2>1, <2>3 DEF PageTrue, HalfNow
  <2>5. task' = [task EXCEPT !.stage = "half", !.got = [got EXCEPT !.at = task.at]]
    BY <2>1, <2>2 DEF Bins!Half
  <2> QED
    BY <1>1, <2>3, <2>4, <2>5, Carried
<1>12. CASE Bins!ReadLocation
  <2>1. task.link.page = "location"
    BY <1>12 DEF Bins!ReadLocation
  <2>2. CASE task.link.of \in RoomsOf(room)
    <3>1. task' = [task EXCEPT !.stage = "half", !.got = [blank EXCEPT !.at = task.at]]
      BY <1>5, <1>12, <2>2 DEF Bins!ReadLocation, Bins!Half
    <3>2. PageTrue(blank, bin, room) /\ HalfNow(blank, bin, room)
      BY <1>4, <2>1, <2>2 DEF PageTrue, HalfNow
    <3> QED
      BY <1>1, <1>4, <3>1, <3>2, Carried
  <2>3. CASE task.link.of \notin RoomsOf(room)
    BY <1>5, <1>6, <1>12, <2>1, <2>3 DEF Bins!ReadLocation
  <2> QED
    BY <2>2, <2>3
<1>13. CASE Bins!ReadRenameForm
  <2>1. task.link.page = "rename"
    BY <1>13 DEF Bins!ReadRenameForm
  <2>2. CASE task.link.of \in RoomsOf(room)
    <3>1. task' = [task EXCEPT !.stage = "ready", !.got = [blank EXCEPT !.at = task.at]]
      BY <1>5, <1>13, <2>2 DEF Bins!ReadRenameForm, Bins!Shows
    <3>2. PageTrue(blank, bin, room) /\ Now(blank, bin, room)
      BY <1>4, <2>1, <2>2 DEF PageTrue, Now
    <3> QED
      BY <1>1, <1>4, <3>1, <3>2, Carried
  <2>3. CASE task.link.of \notin RoomsOf(room)
    BY <1>5, <1>6, <1>13, <2>1, <2>3 DEF Bins!ReadRenameForm
  <2> QED
    BY <2>2, <2>3
<1> QED
  BY <1>7, <1>8, <1>9, <1>10, <1>11, <1>12, <1>13 DEF Bins!Read

\* The second statement.  The locations are read after the bins: a location
\* whose name is missing then has gone since.
LEMMA ReadRestKept ==
  ASSUME BinsKept, Bins!ReadRest
  PROVE  BinsKept'
<1>1. task # None /\ task.stage = "half" /\ UNCHANGED <<bin, room, screen, deeds>>
  BY DEF Bins!ReadRest
<1>2. /\ RowsSound(bin, room) /\ task.verb \in Reading /\ task.link \in PageLink
      /\ task.got \in BinPage /\ task.got.link = task.link /\ task.got.feed = None
      /\ PageTrue(task.got, bin, room)
      /\ (task.at = deeds => HalfNow(task.got, bin, room))
  BY <1>1 DEF BinsKept, TaskKept, TaskTrue, TaskNow, BinTask
<1>3. Bins!Rooms = RoomsOf(room) /\ RoomsOf(room) \subseteq Room
  BY Households DEF RoomsOf
<1>4. ASSUME NEW cards \in SUBSET BinCard, NEW rooms \in SUBSET Room, NEW got,
             got = [task.got EXCEPT !.cards = cards, !.rooms = rooms], Bins!Shows(got),
             \A c \in cards : CardTrue(c, bin, room),
             task.at = deeds => Now(got, bin, room)
      PROVE  BinsKept'
  <2>1. /\ got \in BinPage /\ got.cards = cards /\ got.link = task.got.link
        /\ got.bin = task.got.bin /\ got.feed = task.got.feed
    BY <1>2, <1>4 DEF BinPage
  <2>2. PageTrue(got, bin, room)
    BY <1>2, <1>4, <2>1 DEF PageTrue
  <2>3. task' = [task EXCEPT !.stage = "ready", !.got = [got EXCEPT !.at = task.at]]
    BY <1>4 DEF Bins!Shows
  <2> QED
    BY <1>1, <1>2, <1>4, <2>1, <2>2, <2>3, Carried
<1>5. CASE Bins!ReadNames
  <2> DEFINE names == {Bins!Named(c, RoomsOf(room)) : c \in task.got.cards}
  <2>1. /\ task.link.page \in {"bins", "bin"}
        /\ Bins!Shows([task.got EXCEPT !.cards = names, !.rooms = RoomsOf(room)])
    BY <1>3, <1>5 DEF Bins!ReadNames
  <2>2. ASSUME NEW c \in task.got.cards
        PROVE  /\ Bins!Named(c, RoomsOf(room)) \in BinCard
               /\ CardTrue(Bins!Named(c, RoomsOf(room)), bin, room)
    <3>1. c \in BinCard /\ CardTrue(c, bin, room)
      BY <1>2 DEF PageTrue, BinPage
    <3>2. PICK n : n = Bins!Named(c, RoomsOf(room))
      OBVIOUS
    <3>3. CASE c.place \in RoomsOf(room)
      <4>1. (c.place \in RoomsOf(room)) = TRUE
        BY <3>3
      <4>2. n = [c EXCEPT !.named = TRUE]
        BY <3>2, <4>1 DEF Bins!Named
      <4>3. n \in BinCard /\ n.bin = c.bin /\ n.place = c.place /\ n.named
        BY <3>1, <4>2 DEF BinCard
      <4> QED
        BY <3>1, <3>2, <4>3 DEF CardTrue
    <3>4. CASE c.place \notin RoomsOf(room)
      <4>1. (c.place \in RoomsOf(room)) = FALSE
        BY <3>4
      <4>2. n = [c EXCEPT !.named = FALSE]
        BY <3>2, <4>1 DEF Bins!Named
      <4>3. n \in BinCard /\ n.bin = c.bin /\ n.place = c.place /\ n.place \in Room
        BY <3>1, <4>2 DEF BinCard
      <4>4. room[n.place] = Gone
        BY <1>2, <3>1, <3>4, <4>3 DEF CardTrue, RowsSound, RoomsOf
      <4> QED
        BY <3>1, <3>2, <4>3, <4>4 DEF CardTrue
    <3> QED
      BY <3>3, <3>4
  <2>3. ASSUME NEW b \in SeenNow(bin)
        PROVE  Bins!Named(CardNow(bin, b), RoomsOf(room)) = CardNow(bin, b)
    <3>1. bin[b].place \in RoomsOf(room)
      BY <1>2, <2>3, SeenIsMet
    <3>2. CardNow(bin, b).place = bin[b].place /\ (CardNow(bin, b).place \in RoomsOf(room)) = TRUE
      BY <3>1 DEF CardNow
    <3>3. Bins!Named(CardNow(bin, b), RoomsOf(room)) = [CardNow(bin, b) EXCEPT !.named = TRUE]
      BY <3>2 DEF Bins!Named
    <3> QED
      BY <3>3 DEF CardNow
  <2>4. ASSUME task.got.cards \subseteq CardsNow(bin)
        PROVE  names = task.got.cards
    BY <2>3, <2>4 DEF CardsNow
  <2>5. names \in SUBSET BinCard /\ \A c \in names : CardTrue(c, bin, room)
    BY <2>2
  <2> HIDE DEF names
  <2>6. PICK got : got = [task.got EXCEPT !.cards = names, !.rooms = RoomsOf(room)]
    OBVIOUS
  <2>7. got.cards = names /\ got.rooms = RoomsOf(room) /\ got.link = task.link
        /\ got.bin = task.got.bin /\ got.feed = None
    BY <1>2, <2>6 DEF BinPage
  <2>8. ASSUME task.at = deeds PROVE Now(got, bin, room)
    <3>1. HalfNow(task.got, bin, room)
      BY <1>2, <2>8
    <3>2. task.link.page = "bins" => got.cards = CardsNow(bin)
      BY <1>2, <2>4, <2>7, <3>1 DEF HalfNow
    <3>3. task.link.page = "bin" => task.got.cards \subseteq CardsNow(bin)
      BY <1>2, <3>1 DEF HalfNow, CardsNow, CodedNow
    <3>4. task.link.page = "bin" => /\ CodedNow(bin, task.link.of) = {got.bin}
                                    /\ got.cards = {CardNow(bin, got.bin)}
      BY <1>2, <2>4, <2>7, <3>1, <3>3 DEF HalfNow
    <3> QED
      BY <2>1, <2>7, <3>2, <3>4 DEF Now
  <2> QED
    BY <1>3, <1>4, <2>1, <2>5, <2>6, <2>8
<1>6. ASSUME NEW rooms,
             Bins!Shows([task.got EXCEPT !.cards = Bins!BinsAt(rooms)]),
             \/ task.link.page = "locations" /\ rooms = task.got.rooms
             \/ task.link.page = "location" /\ rooms = {task.link.of}
      PROVE  BinsKept'
  <2>1. CardsAt(bin, rooms) \in SUBSET BinCard /\ \A c \in CardsAt(bin, rooms) : CardTrue(c, bin, room)
    BY <1>2, SeenIsMet DEF CardsAt
  <2>2. PICK got : got = [task.got EXCEPT !.cards = CardsAt(bin, rooms), !.rooms = task.got.rooms]
    OBVIOUS
  <2>3. got = [task.got EXCEPT !.cards = CardsAt(bin, rooms)] /\ task.got.rooms \in SUBSET Room
    BY <1>2, <2>2 DEF BinPage
  <2>4. got.cards = CardsAt(bin, rooms) /\ got.rooms = task.got.rooms /\ got.link = task.link
    BY <1>2, <2>2 DEF BinPage
  <2>5. task.at = deeds => Now(got, bin, room)
    BY <1>2, <1>6, <2>4 DEF HalfNow, Now
  <2> QED
    BY <1>4, <1>6, <2>1, <2>2, <2>3, <2>5, Views
<1>7. CASE Bins!ReadCards
  <2>1. CASE task.link.page = "locations" /\ Bins!Shows([task.got EXCEPT !.cards = Bins!BinsAt(task.got.rooms)])
    BY <1>2, <1>6, <2>1 DEF BinPage
  <2>2. CASE task.link.page = "location" /\ Bins!Shows([task.got EXCEPT !.cards = Bins!BinsAt({task.link.of})])
    BY <1>6, <2>2
  <2> QED
    BY <1>7, <2>1, <2>2 DEF Bins!ReadCards
<1> QED
  BY <1>5, <1>7 DEF Bins!ReadRest

-----------------------------------------------------------------------------
(* What comes onto the screen, and everybody else.                         *)

LEMMA ShowKept ==
  ASSUME BinsKept, Bins!Show
  PROVE  BinsKept'
<1>1. /\ task # None /\ task.stage = "ready" /\ screen' = task.got /\ task' = None
      /\ UNCHANGED <<bin, room, deeds>>
  BY DEF Bins!Show
<1>2. /\ deeds \in Nat /\ RowsSound(bin, room) /\ task.at <= deeds /\ task.got \in BinPage
      /\ PageTrue(task.got, bin, room) /\ task.got.at = task.at
      /\ (task.at = deeds => Now(task.got, bin, room))
  BY <1>1 DEF BinsKept, TaskKept, TaskTrue, TaskNow
<1>3. RowsSound(bin, room)' /\ PageTrue(screen, bin, room)' /\ (screen'.at = deeds' => Now(screen, bin, room)')
  BY <1>1, <1>2
<1>4. ScreenKept' /\ TaskKept'
  BY <1>1, <1>2, <1>3 DEF ScreenKept, TaskKept
<1> QED
  BY <1>1, <1>2, <1>3, <1>4 DEF BinsKept

\* The events are those of the bin that has the code now, which is the page's
\* bin as long as nobody has interfered.
LEMMA ActivityKept ==
  ASSUME BinsKept, Bins!ShowActivity
  PROVE  BinsKept'
<1>1. /\ screen.link.page = "bin" /\ screen.feed = None /\ UNCHANGED <<bin, room, task, deeds>>
  BY DEF Bins!ShowActivity
<1>2. /\ deeds \in Nat /\ RowsSound(bin, room) /\ screen \in BinPage /\ screen.at <= deeds
      /\ PageTrue(screen, bin, room) /\ TaskKept
      /\ (screen.at = deeds /\ (task = None \/ task.verb \notin Reading) => Now(screen, bin, room))
  BY DEF BinsKept, ScreenKept
<1>3. PICK feed \in BinId \cup {Gone} :
        /\ screen' = [screen EXCEPT !.feed = feed]
        /\ \/ feed \in CodedNow(bin, screen.link.of)
           \/ feed = Gone /\ CodedNow(bin, screen.link.of) = {}
  BY Views DEF Bins!ShowActivity, CodedNow, SeenNow, Standing
<1>4. /\ screen' \in BinPage /\ screen'.feed = feed /\ screen'.link = screen.link
      /\ screen'.at = screen.at /\ screen'.cards = screen.cards /\ screen'.rooms = screen.rooms
      /\ screen'.bin = screen.bin /\ screen'.private = screen.private
  BY <1>2, <1>3 DEF BinPage
<1>5. feed # Gone => Met(bin, feed)
  BY <1>2, <1>3, SeenIsMet DEF CodedNow
<1>6. PageTrue(screen', bin, room)
  BY <1>2, <1>4, <1>5 DEF PageTrue
<1>7. ASSUME screen.at = deeds, task = None \/ task.verb \notin Reading
      PROVE  Now(screen', bin, room)
  <2>1. Now(screen, bin, room)
    BY <1>2, <1>7
  <2>2. feed = screen.bin
    BY <1>1, <1>3, <2>1 DEF Now
  <2> QED
    BY <1>1, <1>4, <2>1, <2>2 DEF Now
<1>8. ScreenKept'
  BY <1>1, <1>2, <1>4, <1>6, <1>7 DEF ScreenKept
<1>9. TaskKept'
  BY <1>1, <1>2, <1>4 DEF TaskKept, TaskTrue
<1>10. RowsSound(bin, room)'
  BY <1>1, <1>2
<1> QED
  BY <1>1, <1>2, <1>8, <1>9, <1>10 DEF BinsKept

\* What everybody else does makes every page older.
LEMMA ElsewhereKept ==
  ASSUME BinsKept, Bins!Elsewhere
  PROVE  BinsKept'
<1>1. deeds' = deeds + 1 /\ UNCHANGED <<screen, task>>
  BY DEF Bins!Elsewhere
<1>2. HouseStep
  <2>1. Code \subseteq Address /\ Other \in {Me, Other}
    BY DEF Address
  <2> QED
    BY <2>1 DEF Bins!Elsewhere, HouseStep
<1>3. /\ deeds \in Nat /\ RowsSound(bin, room) /\ screen \in BinPage /\ screen.at <= deeds
      /\ PageTrue(screen, bin, room) /\ screen.at \in Nat
  BY DEF BinsKept, ScreenKept, BinPage
<1>4. RowsSound(bin', room') /\ Onward(bin, room, bin', room')
  BY <1>2, <1>3, HouseStands
<1>5. PageTrue(screen, bin', room')
  BY <1>3, <1>4, PagesStayTrue
<1>6. ScreenKept'
  BY <1>1, <1>3, <1>5 DEF ScreenKept
<1>7. ASSUME task # None
      PROVE  /\ task \in BinTask /\ task.at \in Nat /\ task.at <= deeds
             /\ TaskTrue(task, screen, bin', room')
  <2>1. /\ task \in BinTask /\ task.at \in Nat /\ task.at <= deeds
        /\ TaskTrue(task, screen, bin, room)
    BY <1>7 DEF BinsKept, TaskKept, BinTask
  <2>2. task.stage # "sent" => PageTrue(task.got, bin', room')
    BY <1>4, <2>1, PagesStayTrue DEF TaskTrue
  <2>3. task.verb = "show" /\ task.link.page = "bin" =>
          Met(bin', task.bin) /\ Labelled(bin', task.bin, task.link.of)
    BY <1>4, <2>1 DEF TaskTrue, Met, Labelled, Onward
  <2> QED
    BY <2>1, <2>2, <2>3 DEF TaskTrue
<1>8. TaskKept'
  BY <1>1, <1>3, <1>7 DEF TaskKept
<1> QED
  BY <1>1, <1>3, <1>4, <1>6, <1>8 DEF BinsKept

-----------------------------------------------------------------------------
(* The results.                                                            *)

LEMMA BinsStay == BinsKept /\ [LaneNext]_laneVars => BinsKept'
<1> SUFFICES ASSUME BinsKept, [LaneNext]_laneVars PROVE BinsKept'
  OBVIOUS
<1>1. CASE UNCHANGED bins
  <2>1. /\ RowsSound(bin, room)' /\ deeds' \in Nat /\ ScreenKept' /\ TaskKept'
    BY <1>1 DEF bins, BinsKept, ScreenKept, TaskKept
  <2> QED
    BY <2>1 DEF BinsKept
<1>2. CASE Bins!Next
  BY <1>2, ChooseKept, ActKept, ReadKept, ReadRestKept, ShowKept, ActivityKept, ElsewhereKept
     DEF Bins!Next
<1> QED
  BY <1>1, <1>2 DEF LaneNext, laneVars, bins

THEOREM PagesKeep == LaneSpec => []BinsKept
BY BinsStart, BinsStay, PTL DEF LaneSpec, laneVars

\* Under every interleaving of the member's requests with what everybody else
\* does, no page shows a bin that has always been private to somebody else:
\* neither in its list or count, nor as its subject, nor in its activity.
THEOREM PrivateUnseen == LaneSpec => []PrivateStaysUnseen
<1>1. ASSUME BinsKept, NEW b \in Bins!Stands,
             b \in {c.bin : c \in screen.cards} \cup {screen.bin, screen.feed}
      PROVE  bin[b].shared \/ bin[b].by = Me
  <2>1. PageTrue(screen, bin, room)
    BY <1>1 DEF BinsKept, ScreenKept
  <2>2. b \in BinId /\ bin[b] # Gone /\ b \notin {None, Gone}
    BY ScreensAssumption DEF Bins!Stands
  <2>3. CASE \E c \in screen.cards : b = c.bin
    BY <2>1, <2>2, <2>3 DEF PageTrue, CardTrue, Met
  <2>4. CASE b \in {screen.bin, screen.feed}
    BY <2>1, <2>2, <2>4 DEF PageTrue, Met
  <2> QED
    BY <1>1, <2>3, <2>4
<1>2. BinsKept => PrivateStaysUnseen
  BY <1>1 DEF PrivateStaysUnseen, Bins!PrivateStaysUnseen
<1> QED
  BY <1>2, PagesKeep, PTL

\* A card that has no name for its location is of a bin that was moved or is
\* gone: the location cannot have been deleted with the bin in it.
THEOREM NamesGoWithBins == LaneSpec => []NoNameMeansMoved
<1>1. ASSUME BinsKept, NEW c \in screen.cards, ~c.named, c.bin \in Bins!Stands
      PROVE  bin[c.bin].place # c.place
  <2>1. room[c.place] = Gone
    BY <1>1 DEF BinsKept, ScreenKept, PageTrue, CardTrue
  <2>2. bin[c.bin].place \in RoomsOf(room)
    BY <1>1, Households DEF BinsKept, RowsSound
  <2> QED
    BY <2>1, <2>2, ScreensAssumption DEF RoomsOf
<1>2. BinsKept => NoNameMeansMoved
  BY <1>1 DEF NoNameMeansMoved, Bins!NoNameMeansMoved
<1> QED
  BY <1>2, PagesKeep, PTL

\* Every page that nobody has interfered with since it was asked for shows what
\* is there, though it was read in two statements and came after a redirect.
THEOREM OwnPagesAreCurrent == LaneSpec => []OwnScreenIsCurrent
<1>1. BinsKept /\ task = None /\ screen.at = deeds => Now(screen, bin, room)
  BY DEF BinsKept, ScreenKept
<1>2. Now(screen, bin, room) =>
        CASE screen.link.page = "bins" -> screen.cards = CardsNow(bin)
          [] screen.link.page = "bin" ->
               /\ CodedNow(bin, screen.link.of) = {screen.bin} /\ screen.cards = {CardNow(bin, screen.bin)}
               /\ screen.rooms = RoomsOf(room) /\ screen.feed \in {None, screen.bin}
          [] screen.link.page = "edit" -> screen.private = bin[screen.bin].private
          [] screen.link.page = "locations" ->
               screen.rooms = RoomsOf(room) /\ screen.cards = CardsAt(bin, RoomsOf(room))
          [] screen.link.page = "location" ->
               screen.link.of \in RoomsOf(room) /\ screen.cards = CardsAt(bin, {screen.link.of})
          [] screen.link.page = "rename" -> screen.link.of \in RoomsOf(room)
          [] OTHER -> TRUE
  BY DEF Now
<1>3. {Bins!Card(b) : b \in Bins!Visible} = CardsNow(bin)
  BY Views DEF CardsNow
<1>4. Now(screen, bin, room) /\ task = None /\ screen.at = deeds => OwnScreenIsCurrent
  BY <1>2, <1>3, Views, Households DEF OwnScreenIsCurrent, Bins!OwnScreenIsCurrent
<1>5. BinsKept => OwnScreenIsCurrent
  BY <1>1, <1>4 DEF OwnScreenIsCurrent, Bins!OwnScreenIsCurrent
<1> QED
  BY <1>5, PagesKeep, PTL

\* A move or a deletion that the member asks for happens to the bin on the
\* screen, be there another with its code by then or not.
THEOREM MovesTheBinShown == LaneSpec => MovesWhatItShows
<1> DEFINE Own == \A b \in BinId :
                    task # None /\ task.verb \in {"move", "delete"} /\ bin'[b] # bin[b] /\ deeds' = deeds
                      => b = screen.bin
<1>1. ASSUME BinsKept, LaneNext, UNCHANGED bin \/ deeds' # deeds \/ Bins!Act
      PROVE  Own
  <2>1. SUFFICES ASSUME NEW b \in BinId, task # None, task.verb \in {"move", "delete"},
                        bin'[b] # bin[b], deeds' = deeds
                 PROVE  b = screen.bin
    OBVIOUS
  <2>2. task.bin = screen.bin /\ bin \in [BinId -> BinRow \cup {None, Gone}]
    BY <1>1, <2>1 DEF BinsKept, TaskKept, TaskTrue, RowsSound
  <2>3. Bins!Taken
    BY <1>1, <2>1 DEF Bins!Act
  <2>4. Bins!MoveTaken \/ Bins!DeleteTaken
    BY <2>1, <2>3 DEF Bins!Taken, Bins!CreateTaken, Bins!EditTaken, Bins!AddRoomTaken,
                      Bins!RenameRoomTaken, Bins!DeleteRoomTaken
  <2>5. \E new : bin' = [bin EXCEPT ![task.bin] = new]
    BY <2>4 DEF Bins!MoveTaken, Bins!MoveBin, Bins!DeleteTaken, Bins!DeleteBin
  <2> QED
    BY <2>1, <2>2, <2>5
<1>2. ASSUME BinsKept, LaneNext PROVE Own
  <2>1. CASE UNCHANGED bins
    BY <1>1, <1>2, <2>1 DEF bins
  <2>2. CASE Bins!Next
    <3>1. CASE Bins!Elsewhere
      <4>1. deeds' # deeds
        BY <1>2, <3>1 DEF Bins!Elsewhere, BinsKept
      <4> QED
        BY <1>1, <1>2, <4>1
    <3>2. CASE Bins!Act
      BY <1>1, <1>2, <3>2
    <3>3. CASE Bins!Choose \/ Bins!Read \/ Bins!ReadRest \/ Bins!Show \/ Bins!ShowActivity
      <4>1. UNCHANGED bin
        BY <3>3 DEF Bins!Choose, Bins!Read, Bins!ReadRest, Bins!Show, Bins!ShowActivity
      <4> QED
        BY <1>1, <1>2, <4>1
    <3> QED
      BY <2>2, <3>1, <3>2, <3>3 DEF Bins!Next
  <2> QED
    BY <1>2, <2>1, <2>2 DEF LaneNext
<1>3. BinsKept /\ [LaneNext]_laneVars => [Own]_(Bins!vars)
  BY <1>2 DEF laneVars, bins, Bins!vars
<1>4. LaneSpec => [][Own]_(Bins!vars)
  BY <1>3, PagesKeep, PTL DEF LaneSpec, laneVars
<1> QED
  BY <1>4, PTL DEF MovesWhatItShows, Bins!MovesWhatItShows

-----------------------------------------------------------------------------
(* The item and its page: types.                                           *)

Whereabouts == Bin \cup {Me, Other, Gone}
PhotoPlaces == UNION {[D -> Nat] : D \in SUBSET PhotoId}
StoredPhotos == [at : PhotoPlaces, primary : PhotoId \cup {None}, rows : SUBSET PhotoId]
PhotoView == [place : PhotoPlaces, primary : PhotoId \cup {None}]
ItemState == [place : Whereabouts, mine : BOOLEAN, links : SUBSET LinkId, photos : StoredPhotos, age : Nat]

\* The item as it is.
Item == [place |-> place, mine |-> mine, links |-> links, photos |-> photos, age |-> age]

DetailView == [place : Whereabouts, mine : BOOLEAN, bins : SUBSET VisibleBins]
Section(W) == [state : {"absent", "stub", "answered", "shown"}, age : Nat, what : W \cup {None}]
ItemPage == [detail : Section(DetailView), links : Section(SUBSET LinkId),
             photos : Section(PhotoView), history : Section(Whereabouts)]

ItemVerb == {"open", "check out", "return", "request", "cancel", "add link", "edit link",
             "delete link", "upload", "up", "down", "primary", "delete photo"}
ItemForm == [verb : ItemVerb, of : Bin \cup LinkId \cup PhotoId \cup {None}, input : {"good", "bad"}]

InSight(at) == at \notin Hidden \cup {Gone}

\* A form is about a bin that the member sees, or brings a picture, and the
\* page is asked for whole.
FormSound(f) ==
  /\ f \in ItemForm
  /\ f.verb = "return" => f.of \in VisibleBins \cup {None}
  /\ f.verb = "open" => f = Good("open", None)
  /\ f.verb = "upload" /\ f.input = "good" => f.of \in PhotoId

\* Accepts, of any state of the item.
Takes(f, i) ==
  /\ f.verb = "check out" => i.place \in Bin
  /\ f.verb = "return" => f.of # None /\ i.place \in {Me, Other}
  /\ f.verb = "request" => i.place = Other /\ ~i.mine
  /\ f.verb = "cancel" => i.mine
  /\ f.verb = "add link" => f.input = "good"
  /\ f.verb \in {"edit link", "delete link"} => f.of \in i.links
  /\ f.verb = "upload" =>
       f.input = "good" /\ (f.of \in i.photos.rows \/ Count(i.photos) \notin Range(i.photos.at))
  /\ f.verb \in {"primary", "delete photo"} => f.of \in DOMAIN i.photos.at
  /\ f.verb \in MoveVerb =>
       f.of \in DOMAIN i.photos.at /\ Free(i.photos.at, Moved(i.photos.at, f.of, f.verb = "up"))

LEMMA ItemFields ==
  /\ Item.place = place /\ Item.mine = mine /\ Item.links = links /\ Item.photos = photos
  /\ Item.age = age
BY DEF Item

LEMMA AcceptsIsTakes ==
  ASSUME NEW f \in ItemForm
  PROVE  Accepts(f) <=> Takes(f, Item)
<1>1. f.verb \in ItemVerb
  BY DEF ItemForm
<1>2. PICK order : order = Moved(photos.at, f.of, f.verb = "up")
  OBVIOUS
<1>3. CASE f.verb \in MoveVerb
  <2>1. Accepts(f) <=> f.of \in DOMAIN photos.at /\ Free(photos.at, order)
    BY <1>2, <1>3 DEF Accepts, MoveVerb, Order
  <2>2. Takes(f, Item) <=> f.of \in DOMAIN photos.at /\ Free(photos.at, order)
    BY <1>2, <1>3, ItemFields DEF Takes, MoveVerb
  <2> QED
    BY <2>1, <2>2
<1>4. CASE f.verb \notin MoveVerb
  BY <1>1, <1>4, ItemFields DEF Accepts, Takes, ItemVerb, MoveVerb
<1> QED
  BY <1>3, <1>4

\* The item is what it was, or older by one.
Moves(i, j) == j \in ItemState /\ (j = i \/ j.age = i.age + 1)

-----------------------------------------------------------------------------
(* The photos.                                                             *)

LEMMA PlacesCounted ==
  ASSUME NEW at \in PhotoPlaces
  PROVE  /\ DOMAIN at \subseteq PhotoId /\ at \in [DOMAIN at -> Nat]
         /\ Cardinality(DOMAIN at) \in Nat
         /\ \A p : Place(at, p) \in Nat
<1>1. DOMAIN at \subseteq PhotoId /\ at \in [DOMAIN at -> Nat]
  BY DEF PhotoPlaces
<1>2. IsFiniteSet(DOMAIN at)
  BY <1>1, ItemScreenAssumption, FS_Subset
<1>3. ASSUME NEW p PROVE Place(at, p) \in Nat
  <2>1. IsFiniteSet({q \in DOMAIN at : at[q] < at[p]})
    BY <1>2, FS_Subset
  <2> QED
    BY <2>1, FS_CardinalityType DEF Place
<1> QED
  BY <1>1, <1>2, <1>3, FS_CardinalityType

\* An order of photos, and how far Reorder comes with it, are positions.
LEMMA OrderKept ==
  ASSUME NEW at \in PhotoPlaces
  PROVE  /\ \A p : \A up \in BOOLEAN : Moved(at, p, up) \in [DOMAIN at -> Nat]
         /\ \A order \in [DOMAIN at -> Nat], k \in Nat :
              Staged(at, order, k) \in [DOMAIN at -> Nat] /\ Finalized(at, order, k) \in [DOMAIN at -> Nat]
<1>1. /\ DOMAIN at \subseteq PhotoId /\ at \in [DOMAIN at -> Nat]
      /\ Cardinality(DOMAIN at) \in Nat /\ \A p : Place(at, p) \in Nat
  BY PlacesCounted
<1>2. ASSUME NEW p, NEW up \in BOOLEAN PROVE Moved(at, p, up) \in [DOMAIN at -> Nat]
  <2> DEFINE from == Place(at, p)
             to == IF up THEN from - 1 ELSE from + 1
  <2>1. from \in Nat
    BY <1>1
  <2>2. Moved(at, p, up) =
          [q \in DOMAIN at |->
             IF Place(at, q) = to THEN from
             ELSE IF q = p /\ to \in 0..Cardinality(DOMAIN at) - 1 THEN to ELSE Place(at, q)]
    BY DEF Moved
  <2> HIDE DEF from
  <2>3. to \in 0..Cardinality(DOMAIN at) - 1 => to \in Nat
    BY <1>1, <2>1
  <2> HIDE DEF to
  <2> QED
    BY <1>1, <2>1, <2>2, <2>3
<1>3. ASSUME NEW order \in [DOMAIN at -> Nat], NEW k \in Nat
      PROVE  Staged(at, order, k) \in [DOMAIN at -> Nat] /\ Finalized(at, order, k) \in [DOMAIN at -> Nat]
  BY <1>1 DEF Staged, Finalized
<1> QED
  BY <1>2, <1>3

LEMMA PhotosKept ==
  ASSUME NEW g \in StoredPhotos
  PROVE  /\ View(g) \in PhotoView /\ DOMAIN View(g).place = DOMAIN g.at
         /\ \A p \in PhotoId : Attached(g, p) \in StoredPhotos /\ Stranded(g, p) \in StoredPhotos
         /\ \A p \in PhotoId \cup {None} : [g EXCEPT !.primary = p] \in StoredPhotos
         /\ \A p : Unlinked(g, p) \in StoredPhotos /\ Deleted(g, p) \in StoredPhotos
         /\ \A at \in [DOMAIN g.at -> Nat] : [g EXCEPT !.at = at] \in StoredPhotos
<1>1. g.at \in PhotoPlaces /\ g.primary \in PhotoId \cup {None} /\ g.rows \in SUBSET PhotoId
  BY DEF StoredPhotos
<1>2. /\ DOMAIN g.at \subseteq PhotoId /\ g.at \in [DOMAIN g.at -> Nat]
      /\ Cardinality(DOMAIN g.at) \in Nat /\ \A p : Place(g.at, p) \in Nat
  BY <1>1, PlacesCounted
<1>3. \A D \in SUBSET PhotoId : [D -> Nat] \subseteq PhotoPlaces
  BY DEF PhotoPlaces
<1>4. View(g) \in PhotoView /\ DOMAIN View(g).place = DOMAIN g.at
  <2>1. PICK v : v = [p \in DOMAIN g.at |-> Place(g.at, p)]
    OBVIOUS
  <2>2. v \in PhotoPlaces /\ DOMAIN v = DOMAIN g.at
    BY <1>2, <1>3, <2>1
  <2>3. View(g) = [place |-> v, primary |-> g.primary]
    BY <2>1 DEF View
  <2> QED
    BY <1>1, <2>2, <2>3 DEF PhotoView
<1>5. ASSUME NEW p \in PhotoId PROVE Attached(g, p) \in StoredPhotos
  <2>1. PICK at : at = [q \in DOMAIN g.at \cup {p} |-> IF q = p THEN Count(g) ELSE g.at[q]]
    OBVIOUS
  <2>2. Count(g) \in Nat
    BY <1>2 DEF Count
  <2>3. at \in [DOMAIN g.at \cup {p} -> Nat]
    BY <1>2, <2>1, <2>2
  <2>4. at \in PhotoPlaces
    BY <1>2, <1>3, <2>3
  <2> QED
    BY <1>1, <2>1, <2>4 DEF Attached, StoredPhotos
<1>6. ASSUME NEW p \in PhotoId PROVE Stranded(g, p) \in StoredPhotos
  BY <1>1 DEF Stranded, StoredPhotos
<1>7. ASSUME NEW p \in PhotoId \cup {None} PROVE [g EXCEPT !.primary = p] \in StoredPhotos
  BY <1>1 DEF StoredPhotos
<1>8. ASSUME NEW p PROVE Unlinked(g, p) \in StoredPhotos /\ Deleted(g, p) \in StoredPhotos
  <2>1. PICK at : at = Restrict(g.at, DOMAIN g.at \ {p})
    OBVIOUS
  <2>2. at \in [DOMAIN g.at \ {p} -> Nat]
    BY <1>2, <2>1 DEF Restrict
  <2>3. at \in PhotoPlaces
    BY <1>2, <1>3, <2>2
  <2>4. PICK primary : primary = IF g.primary = p THEN None ELSE g.primary
    OBVIOUS
  <2>5. Unlinked(g, p) = [g EXCEPT !.at = at, !.primary = primary]
    BY <2>1, <2>4 DEF Unlinked
  <2>6. Unlinked(g, p) \in StoredPhotos
    BY <1>1, <2>3, <2>4, <2>5 DEF StoredPhotos
  <2>7. \A h \in StoredPhotos : [h EXCEPT !.rows = @ \ {p}] \in StoredPhotos
    BY DEF StoredPhotos
  <2> QED
    BY <2>6, <2>7 DEF Deleted
<1>9. ASSUME NEW at \in [DOMAIN g.at -> Nat] PROVE [g EXCEPT !.at = at] \in StoredPhotos
  <2>1. at \in PhotoPlaces
    BY <1>2, <1>3
  <2> QED
    BY <1>1, <2>1 DEF StoredPhotos
<1> QED
  BY <1>4, <1>5, <1>6, <1>7, <1>8, <1>9

\* What stands at the first positions has room at the next, and can be moved.
LEMMA DenseIsFree ==
  ASSUME NEW at \in PhotoPlaces, Dense(at)
  PROVE  Cardinality(DOMAIN at) \notin Range(at) /\ \A order : Free(at, order)
<1>1. Cardinality(DOMAIN at) \in Nat
  BY PlacesCounted
<1>2. ASSUME NEW k \in Nat PROVE \A q \in DOMAIN at : at[q] # Cardinality(DOMAIN at) + k
  <2>1. ASSUME NEW q \in DOMAIN at PROVE at[q] \in 0..Cardinality(DOMAIN at) - 1
    BY DEF Dense, Range
  <2> QED
    BY <1>1, <2>1
<1>3. ASSUME NEW order PROVE Free(at, order)
  BY <1>1, <1>2 DEF Free, Blocked
<1>4. Cardinality(DOMAIN at) \notin 0..Cardinality(DOMAIN at) - 1
  BY <1>1
<1> QED
  BY <1>3, <1>4 DEF Dense

\* A photo that stands in the way of a move stays beyond the first positions.
LEMMA StopIsSparse ==
  ASSUME NEW at \in PhotoPlaces, NEW order \in [DOMAIN at -> Nat], NEW k \in Nat, Blocked(at, order, k)
  PROVE  ~Dense(Staged(at, order, k))
<1>1. PICK n : n = Cardinality(DOMAIN at)
  OBVIOUS
<1>2. n \in Nat
  BY <1>1, PlacesCounted
<1>3. PICK q \in DOMAIN at : order[q] > k /\ at[q] = n + k
  BY <1>1 DEF Blocked
<1>4. PICK to : to = Staged(at, order, k)
  OBVIOUS
<1>5. DOMAIN to = DOMAIN at /\ to[q] = n + k
  <2>1. ~(order[q] < k)
    BY <1>3
  <2> QED
    BY <1>3, <1>4, <2>1 DEF Staged
<1>6. n + k \in Range(to) /\ n + k \notin 0..n - 1
  BY <1>2, <1>5 DEF Range
<1> QED
  BY <1>1, <1>4, <1>5, <1>6 DEF Dense

-----------------------------------------------------------------------------
(* Work on the item.                                                       *)

\* Every change of the item makes it older by one and keeps its types.
LEMMA ChangedMoves ==
  ASSUME Item \in ItemState, NEW p \in Whereabouts, NEW m \in BOOLEAN, NEW l \in SUBSET LinkId,
         NEW g \in StoredPhotos, Changed(p, m, l, g)
  PROVE  /\ Item' \in ItemState /\ Item'.age = Item.age + 1
         /\ place' = p /\ mine' = m /\ links' = l /\ photos' = g
<1>1. /\ place' = p /\ mine' = m /\ links' = l /\ photos' = g /\ age' = age + 1
  BY DEF Changed
<1>2. age \in Nat
  BY ItemFields DEF ItemState
<1>3. Item' = [place |-> p, mine |-> m, links |-> l, photos |-> g, age |-> age + 1]
  BY <1>1 DEF Item
<1> QED
  BY <1>1, <1>2, <1>3, ItemFields DEF ItemState

LEMMA NothingMoves ==
  ASSUME Item \in ItemState, Nothing
  PROVE  Item' = Item /\ Moves(Item, Item')
<1>1. Item' = Item
  BY DEF Nothing, Item
<1> QED
  BY <1>1 DEF Moves

LEMMA PhotosBecomeMoves ==
  ASSUME Item \in ItemState, NEW g \in StoredPhotos, PhotosBecome(g)
  PROVE  /\ Moves(Item, Item')
         /\ place' = place /\ mine' = mine /\ links' = links /\ photos' = g
<1>1. place \in Whereabouts /\ mine \in BOOLEAN /\ links \in SUBSET LinkId
  BY ItemFields DEF ItemState
<1>2. CASE g = photos
  <2>1. Nothing
    BY <1>2 DEF PhotosBecome
  <2> QED
    BY <1>2, <2>1, NothingMoves DEF Nothing
<1>3. CASE g # photos
  <2>1. Changed(place, mine, links, g)
    BY <1>3 DEF PhotosBecome
  <2> QED
    BY <1>1, <2>1, ChangedMoves DEF Moves
<1> QED
  BY <1>2, <1>3

\* What a photo form does, as far as it comes, leaves photos.
LEMMA OrderOfForm ==
  ASSUME Item \in ItemState, NEW f
  PROVE  /\ photos \in StoredPhotos /\ photos.at \in PhotoPlaces
         /\ Order(f) \in [DOMAIN photos.at -> Nat]
         /\ \A k \in Reached(photos.at, Order(f)) : k \in Nat
<1>1. photos \in StoredPhotos /\ photos.at \in PhotoPlaces
  BY ItemFields DEF ItemState, StoredPhotos
<1>2. (f.verb = "up") \in BOOLEAN
  OBVIOUS
<1>3. Order(f) \in [DOMAIN photos.at -> Nat]
  BY <1>1, <1>2, OrderKept DEF Order
<1>4. Cardinality(DOMAIN photos.at) \in Nat
  BY <1>1, PlacesCounted
<1>5. \A k \in Reached(photos.at, Order(f)) : k \in Nat
  BY <1>4 DEF Reached
<1> QED
  BY <1>1, <1>3, <1>5

LEMMA PhotoWork ==
  ASSUME Item \in ItemState, NEW f, FormSound(f), f.verb \in PhotoVerb, Works(f)
  PROVE  \E g \in StoredPhotos : PhotosBecome(g)
<1>1. /\ photos \in StoredPhotos /\ photos.at \in PhotoPlaces
      /\ Order(f) \in [DOMAIN photos.at -> Nat]
      /\ \A k \in Reached(photos.at, Order(f)) : k \in Nat
  BY OrderOfForm
<1>2. Nothing => PhotosBecome(photos)
  BY DEF PhotosBecome
<1>3. CASE Accepts(f)
  <2>1. Does(f)
    BY <1>3 DEF Works
  <2>2. CASE f.verb = "upload" /\ Upload(f.of)
    <3>1. f.of \in PhotoId
      BY <1>3, <2>2 DEF Accepts, FormSound
    <3>2. PICK g : g = IF f.of \in photos.rows THEN photos ELSE Attached(photos, f.of)
      OBVIOUS
    <3>3. g \in StoredPhotos
      BY <1>1, <3>1, <3>2, PhotosKept
    <3> QED
      BY <2>2, <3>2, <3>3 DEF Upload
  <2>3. CASE f.verb \in MoveVerb /\ Move(f)
    <3>1. [photos EXCEPT !.at = Order(f)] \in StoredPhotos
      BY <1>1, PhotosKept
    <3> QED
      BY <2>3, <3>1 DEF Move
  <2>4. CASE f.verb = "primary" /\ SetPrimary(f.of)
    <3>1. f.of \in PhotoId
      BY <1>1, <1>3, <2>4, PlacesCounted DEF Accepts
    <3>2. [photos EXCEPT !.primary = f.of] \in StoredPhotos
      BY <1>1, <3>1, PhotosKept
    <3> QED
      BY <2>4, <3>2 DEF SetPrimary
  <2>5. CASE f.verb = "delete photo" /\ DeletePhoto(f.of)
    <3>1. Deleted(photos, f.of) \in StoredPhotos
      BY <1>1, PhotosKept
    <3> QED
      BY <2>5, <3>1 DEF DeletePhoto
  <2> QED
    BY <2>1, <2>2, <2>3, <2>4, <2>5 DEF Does, PhotoVerb, MoveVerb
<1>4. CASE ~Accepts(f)
  <2>1. Refuses(f)
    BY <1>4 DEF Works
  <2>2. CASE UploadCollides(f) /\ PhotosBecome(Stranded(photos, f.of))
    <3>1. Stranded(photos, f.of) \in StoredPhotos
      BY <1>1, <2>2, PhotosKept DEF UploadCollides, FormSound
    <3> QED
      BY <2>2, <3>1
  <2>3. ASSUME NEW k \in Reached(photos.at, Order(f)),
               PhotosBecome([photos EXCEPT !.at = Staged(@, Order(f), k)])
        PROVE  \E g \in StoredPhotos : PhotosBecome(g)
    <3>1. PICK at : at = Staged(photos.at, Order(f), k)
      OBVIOUS
    <3>2. at \in [DOMAIN photos.at -> Nat]
      BY <1>1, <3>1, OrderKept
    <3>3. [photos EXCEPT !.at = at] \in StoredPhotos
      BY <1>1, <3>2, PhotosKept
    <3> QED
      BY <2>3, <3>1, <3>3
  <2> QED
    BY <1>1, <1>2, <2>1, <2>2, <2>3 DEF Refuses
<1> QED
  BY <1>3, <1>4

LEMMA HalfwayKept ==
  ASSUME Item \in ItemState, NEW f, FormSound(f), f.verb \in PhotoVerb,
         Accepts(f) \/ UploadCollides(f) \/ MoveStops(f), NEW g \in Halfway(f)
  PROVE  g \in StoredPhotos
<1>1. /\ photos \in StoredPhotos /\ photos.at \in PhotoPlaces
      /\ Order(f) \in [DOMAIN photos.at -> Nat]
      /\ \A k \in Reached(photos.at, Order(f)) : k \in Nat
  BY OrderOfForm
<1>2. CASE f.verb = "upload"
  <2>1. f.of \in PhotoId
    BY <1>2 DEF Accepts, UploadCollides, MoveStops, MoveVerb, FormSound
  <2>2. g = Stranded(photos, f.of)
    BY <1>2 DEF Halfway
  <2> QED
    BY <1>1, <2>1, <2>2, PhotosKept
<1>3. CASE f.verb = "primary"
  <2>1. g = [photos EXCEPT !.primary = None]
    BY <1>3 DEF Halfway
  <2> QED
    BY <1>1, <2>1, PhotosKept
<1>4. CASE f.verb = "delete photo"
  <2>1. g = Unlinked(photos, f.of)
    BY <1>4 DEF Halfway
  <2> QED
    BY <1>1, <2>1, PhotosKept
<1>5. CASE f.verb \in MoveVerb
  <2>1. \/ \E k \in Reached(photos.at, Order(f)) : g = [photos EXCEPT !.at = Staged(@, Order(f), k)]
        \/ \E k \in 0..Count(photos) : g = [photos EXCEPT !.at = Finalized(@, Order(f), k)]
    BY <1>5 DEF Halfway, MoveVerb
  <2>2. PICK at \in [DOMAIN photos.at -> Nat] : g = [photos EXCEPT !.at = at]
    <3>1. CASE \E k \in Reached(photos.at, Order(f)) : g = [photos EXCEPT !.at = Staged(@, Order(f), k)]
      <4>1. PICK k \in Reached(photos.at, Order(f)) : g = [photos EXCEPT !.at = Staged(@, Order(f), k)]
        BY <3>1
      <4>2. Staged(photos.at, Order(f), k) \in [DOMAIN photos.at -> Nat]
        BY <1>1, OrderKept
      <4> QED
        BY <4>1, <4>2
    <3>2. CASE \E k \in 0..Count(photos) : g = [photos EXCEPT !.at = Finalized(@, Order(f), k)]
      <4>1. PICK k \in 0..Count(photos) : g = [photos EXCEPT !.at = Finalized(@, Order(f), k)]
        BY <3>2
      <4>2. k \in Nat
        BY <1>1, PlacesCounted DEF Count
      <4>3. Finalized(photos.at, Order(f), k) \in [DOMAIN photos.at -> Nat]
        BY <1>1, <4>2, OrderKept
      <4> QED
        BY <4>1, <4>3
    <3> QED
      BY <2>1, <3>1, <3>2
  <2> QED
    BY <1>1, <2>2, PhotosKept
<1> QED
  BY <1>2, <1>3, <1>4, <1>5 DEF PhotoVerb, MoveVerb

\* What the member's own click may change: what the answer will show again.
OnlyOf(f, i, j) ==
  /\ InSight(j.place)
  /\ Target(f) # "detail" => j.place = i.place /\ j.mine = i.mine
  /\ Target(f) = "links" => j.photos = i.photos
  /\ Target(f) = "photos" => j.links = i.links
  /\ f.verb = "open" => j = i

LEMMA OwnWork ==
  ASSUME Item \in ItemState, NEW f, FormSound(f), InSight(place), Works(f) \/ BreaksOff(f)
  PROVE  Moves(Item, Item') /\ OnlyOf(f, Item, Item')
<1>1. /\ place \in Whereabouts /\ mine \in BOOLEAN /\ links \in SUBSET LinkId /\ photos \in StoredPhotos
  BY ItemFields DEF ItemState
<1>2. Item'.place = place' /\ Item'.mine = mine' /\ Item'.links = links' /\ Item'.photos = photos'
  BY DEF Item
<1>3. ASSUME NEW p \in Whereabouts, NEW m \in BOOLEAN, NEW l \in SUBSET LinkId, NEW g \in StoredPhotos,
             Changed(p, m, l, g), f.verb # "open", InSight(p),
             Target(f) # "detail" => p = place /\ m = mine,
             Target(f) = "links" => g = photos,
             Target(f) = "photos" => l = links
      PROVE  Moves(Item, Item') /\ OnlyOf(f, Item, Item')
  BY <1>2, <1>3, ChangedMoves, ItemFields DEF Moves, OnlyOf
<1>4. CASE Nothing
  BY <1>4, NothingMoves, ItemFields DEF OnlyOf
<1>5. CASE f.verb \in PhotoVerb
  <2>1. PICK g \in StoredPhotos : PhotosBecome(g)
    <3>1. CASE Works(f)
      BY <1>5, <3>1, PhotoWork
    <3>2. CASE Nothing
      BY <1>1, <3>2 DEF PhotosBecome
    <3>3. CASE \E g \in Halfway(f) : PhotosBecome(g) /\ (Accepts(f) \/ UploadCollides(f) \/ MoveStops(f))
      BY <1>5, <3>3, HalfwayKept
    <3> QED
      BY <3>1, <3>2, <3>3 DEF BreaksOff
  <2>2. Target(f) = "photos" /\ f.verb # "open"
    BY <1>5 DEF Target, PhotoVerb
  <2>3. Moves(Item, Item') /\ place' = place /\ mine' = mine /\ links' = links
    BY <2>1, PhotosBecomeMoves
  <2> QED
    BY <1>2, <2>2, <2>3, ItemFields DEF OnlyOf
<1>6. CASE f.verb \notin PhotoVerb /\ Accepts(f) /\ Does(f)
  <2>1. Takes(f, Item)
    BY <1>6, AcceptsIsTakes DEF FormSound
  <2>2. CASE f.verb = "check out" /\ CheckOut
    <3>1. Me \in Whereabouts /\ InSight(Me)
      BY ItemScreenAssumption DEF Whereabouts, InSight
    <3>2. Target(f) = "detail"
      BY <2>2 DEF Target
    <3> QED
      BY <1>1, <1>3, <2>2, <3>1, <3>2 DEF CheckOut
  <2>3. CASE f.verb = "return" /\ Return(f.of)
    <3>1. f.of \in VisibleBins
      BY <2>1, <2>3 DEF FormSound, Takes
    <3>2. f.of \in Whereabouts /\ InSight(f.of)
      BY <3>1, ItemScreenAssumption DEF Whereabouts, InSight, VisibleBins
    <3>3. Target(f) = "detail" /\ FALSE \in BOOLEAN
      BY <2>3 DEF Target
    <3> QED
      BY <1>1, <1>3, <2>3, <3>2, <3>3 DEF Return
  <2>4. CASE f.verb \in {"request", "cancel"} /\ (RequestReturn \/ CancelReturnRequest)
    <3>1. Target(f) = "detail" /\ TRUE \in BOOLEAN /\ FALSE \in BOOLEAN
      BY <2>4 DEF Target
    <3> QED
      BY <1>1, <1>3, <2>4, <3>1 DEF RequestReturn, CancelReturnRequest
  <2>5. CASE f.verb \in {"add link", "edit link", "delete link"} /\ (AddLink \/ EditLink \/ DeleteLink(f.of))
    <3>1. PICK l \in SUBSET LinkId : Changed(place, mine, l, photos)
      BY <1>1, <2>5 DEF AddLink, EditLink, DeleteLink
    <3>2. Target(f) = "links"
      BY <2>5 DEF Target
    <3> QED
      BY <1>1, <1>3, <2>5, <3>1, <3>2
  <2>6. f.verb \notin MoveVerb \cup {"upload", "primary", "delete photo"}
    BY <1>6 DEF PhotoVerb, MoveVerb
  <2> QED
    BY <1>4, <1>6, <2>2, <2>3, <2>4, <2>5, <2>6 DEF Does
<1>7. CASE f.verb \notin PhotoVerb /\ Refuses(f)
  <2>1. ~UploadCollides(f) /\ ~MoveStops(f)
    BY <1>7 DEF UploadCollides, MoveStops, PhotoVerb, MoveVerb
  <2> QED
    BY <1>4, <1>7, <2>1 DEF Refuses
<1> QED
  BY <1>4, <1>5, <1>6, <1>7 DEF Works, BreaksOff

\* What is refused leaves everything, or photos that are not at the first positions.
LEMMA RefusalIsSparse ==
  ASSUME Item \in ItemState, NEW f, FormSound(f), Refuses(f)
  PROVE  \/ Item' = Item
         \/ place' = place /\ mine' = mine /\ links' = links /\ ~Dense(photos'.at)
<1>1. /\ photos \in StoredPhotos /\ photos.at \in PhotoPlaces
      /\ Order(f) \in [DOMAIN photos.at -> Nat]
      /\ \A k \in Reached(photos.at, Order(f)) : k \in Nat
  BY OrderOfForm
<1>2. CASE Nothing
  BY <1>2, NothingMoves
<1>3. CASE UploadCollides(f) /\ PhotosBecome(Stranded(photos, f.of))
  <2>1. Count(photos) \in Range(photos.at)
    BY <1>3 DEF UploadCollides
  <2>2. ~Dense(photos.at)
    BY <1>1, <2>1, DenseIsFree DEF Count
  <2>3. Stranded(photos, f.of) \in StoredPhotos
    BY <1>1, <1>3, PhotosKept DEF UploadCollides, FormSound
  <2>4. Stranded(photos, f.of).at = photos.at
    BY <1>1 DEF Stranded, StoredPhotos
  <2> QED
    BY <1>3, <2>2, <2>3, <2>4, PhotosBecomeMoves
<1>4. ASSUME NEW k \in Reached(photos.at, Order(f)), Blocked(photos.at, Order(f), k),
             PhotosBecome([photos EXCEPT !.at = Staged(@, Order(f), k)])
      PROVE  place' = place /\ mine' = mine /\ links' = links /\ ~Dense(photos'.at)
  <2>1. PICK at : at = Staged(photos.at, Order(f), k)
    OBVIOUS
  <2>2. at \in [DOMAIN photos.at -> Nat] /\ ~Dense(at)
    BY <1>1, <1>4, <2>1, OrderKept, StopIsSparse
  <2>3. PICK g : g = [photos EXCEPT !.at = at]
    OBVIOUS
  <2>4. g \in StoredPhotos /\ g.at = at
    <3>1. g.at = at
      BY <1>1, <2>3 DEF StoredPhotos
    <3> QED
      BY <1>1, <2>2, <2>3, <3>1, PhotosKept
  <2>5. PhotosBecome(g)
    BY <1>4, <2>1, <2>3
  <2> QED
    BY <2>2, <2>4, <2>5, PhotosBecomeMoves
<1> QED
  BY <1>2, <1>3, <1>4 DEF Refuses

\* The forms of a gallery are sound.
LEMMA PhotoFormsSound ==
  ASSUME NEW v \in PhotoView, NEW f \in PhotoForms(v)
  PROVE  /\ FormSound(f) /\ f.verb \in PhotoVerb
         /\ f.verb # "upload" => f.of \in DOMAIN v.place
<1>1. DOMAIN v.place \subseteq PhotoId
  BY PlacesCounted DEF PhotoView
<1>2. ASSUME NEW verb \in {"up", "down", "primary", "delete photo"}, NEW p \in DOMAIN v.place,
             f = Good(verb, p)
      PROVE  FormSound(f) /\ f.verb \in PhotoVerb /\ f.verb # "upload" /\ f.of \in DOMAIN v.place
  <2>1. f = [verb |-> verb, of |-> p, input |-> "good"] /\ p \in PhotoId
    BY <1>1, <1>2 DEF Good, Form
  <2>2. f.verb = verb /\ f.of = p /\ f.input = "good"
    BY <2>1
  <2> QED
    BY <1>2, <2>1, <2>2 DEF FormSound, ItemForm, ItemVerb, PhotoVerb
<1>3. CASE f \in UploadForms
  <2>1. PICK p \in PhotoId \cup {None}, input \in {"good", "bad"} :
          f = [verb |-> "upload", of |-> p, input |-> input] /\ (input = "good" => p \in PhotoId)
    BY <1>3 DEF UploadForms, Good, Form
  <2>2. f.verb = "upload" /\ f.of = p /\ f.input = input
    BY <2>1
  <2> QED
    BY <2>1, <2>2 DEF FormSound, ItemForm, ItemVerb, PhotoVerb
<1>4. CASE f \in {DeletePhotoForm(p) : p \in DOMAIN v.place}
  BY <1>2, <1>4 DEF DeletePhotoForm
<1>5. CASE f \in PrimaryForms(v)
  BY <1>2, <1>5 DEF PrimaryForms
<1>6. CASE f \in MoveForms(v)
  BY <1>2, <1>6 DEF MoveForms
<1> QED
  BY <1>2, <1>3, <1>4, <1>5, <1>6 DEF PhotoForms

\* What others do.
LEMMA OthersWork ==
  ASSUME Item \in ItemState, Elsewhere
  PROVE  Moves(Item, Item')
<1>1. /\ place \in Whereabouts /\ mine \in BOOLEAN /\ links \in SUBSET LinkId /\ photos \in StoredPhotos
      /\ TRUE \in BOOLEAN /\ FALSE \in BOOLEAN /\ Other \in Whereabouts /\ Gone \in Whereabouts
      /\ Bin \subseteq Whereabouts
  BY ItemFields DEF ItemState, Whereabouts
<1>2. NoPhotos \in StoredPhotos /\ {} \in SUBSET LinkId
  <2>1. PICK at : at = [p \in {} |-> 0]
    OBVIOUS
  <2>2. at \in [{} -> Nat] /\ {} \in SUBSET PhotoId
    BY <2>1
  <2>3. at \in PhotoPlaces
    BY <2>2 DEF PhotoPlaces
  <2>4. NoPhotos = [photos EXCEPT !.at = at, !.primary = None]
    BY <2>1 DEF NoPhotos
  <2> QED
    BY <1>1, <2>3, <2>4 DEF StoredPhotos
<1>3. ASSUME NEW p \in Whereabouts, NEW m \in BOOLEAN, NEW l \in SUBSET LinkId, NEW g \in StoredPhotos,
             Changed(p, m, l, g)
      PROVE  Moves(Item, Item')
  BY <1>3, ChangedMoves DEF Moves
<1>4. CASE AddLink
  BY <1>1, <1>3, <1>4 DEF AddLink
<1>5. CASE \E l \in links : DeleteLink(l)
  <2>1. PICK l \in links : DeleteLink(l)
    BY <1>5
  <2>2. links \ {l} \in SUBSET LinkId
    BY <1>1
  <2> QED
    BY <1>1, <1>3, <2>1, <2>2 DEF DeleteLink
<1>6. CASE \E f \in PhotoForms(View(photos)) : Works(f)
  <2>1. PICK f \in PhotoForms(View(photos)) : Works(f)
    BY <1>6
  <2>2. FormSound(f) /\ f.verb \in PhotoVerb
    BY <1>1, PhotosKept, PhotoFormsSound
  <2>3. PICK g \in StoredPhotos : PhotosBecome(g)
    BY <2>1, <2>2, PhotoWork
  <2> QED
    BY <2>3, PhotosBecomeMoves
<1>7. CASE Changed(Other, mine, links, photos)
  BY <1>1, <1>3, <1>7
<1>8. CASE \E b \in Bin \ {place} : Changed(b, FALSE, links, photos)
  BY <1>1, <1>3, <1>8
<1>9. CASE CancelReturnRequest
  BY <1>1, <1>3, <1>9 DEF CancelReturnRequest
<1>10. CASE Changed(Gone, FALSE, {}, NoPhotos)
  BY <1>1, <1>2, <1>3, <1>10
<1> QED
  BY <1>4, <1>5, <1>6, <1>7, <1>8, <1>9, <1>10 DEF Elsewhere

-----------------------------------------------------------------------------
(* What the page says of the item, and the clicks that are under way.       *)

OnPage(s) == s.state \in {"answered", "shown"}

DetailTrue(d, i) == d.place = i.place /\ (i.place \notin Bin => d.mine = i.mine)

\* A section is no newer than the item; where it is as old, it tells the truth.
DetailAt(s, i) ==
  /\ s.age <= i.age
  /\ OnPage(s) => s.what \in DetailView /\ (s.age = i.age => InSight(i.place) /\ DetailTrue(s.what, i))

PartAt(s, W, now, i) ==
  OnPage(s) => s.what \in W /\ s.age <= i.age /\ (s.age = i.age => InSight(i.place) /\ s.what = now)

PageAt(g, i) ==
  /\ g \in ItemPage
  /\ DetailAt(g.detail, i)
  /\ PartAt(g.links, SUBSET LinkId, i.links, i)
  /\ PartAt(g.photos, PhotoView, View(i.photos), i)
  /\ PartAt(g.history, Whereabouts, i.place, i)
  /\ OnPage(g.history) => g.history.age >= g.detail.age

\* A detail of which only the item has been read, and one with the links.
HalfAt(s, i) ==
  /\ s \in Section(DetailView) /\ OnPage(s) /\ s.what \in DetailView /\ s.age <= i.age
  /\ s.age = i.age => InSight(i.place) /\ s.what.place = i.place

LinkedAt(g, i) ==
  /\ g \in ItemPage /\ HalfAt(g.detail, i)
  /\ PartAt(g.links, SUBSET LinkId, i.links, i) /\ OnPage(g.links) /\ g.links.age >= g.detail.age
  /\ g.photos = Stub /\ g.history = Stub

AnswerAt(f, g, i) ==
  /\ Target(f) = "detail" =>
       /\ PageAt(g, i) /\ g.photos = Stub /\ g.history = Stub
       /\ OnPage(g.detail) /\ g.links.age >= g.detail.age
  /\ Target(f) = "links" => g \in Section(SUBSET LinkId) /\ PartAt(g, SUBSET LinkId, i.links, i)
  /\ Target(f) = "photos" => g \in Section(PhotoView) /\ PartAt(g, PhotoView, View(i.photos), i)

ItemAnswer ==
  {None} \cup Section(DetailView) \cup Section(SUBSET LinkId) \cup Section(PhotoView) \cup ItemPage
ItemOutcome == {None, "missing", "taken", "refused", "failed"}
ItemClick == [stage : {"idle", "sent", "acted", "half", "linked", "answered"}, form : ItemForm \cup {None},
              live : BOOLEAN, seen : Nat, outcome : ItemOutcome, answer : ItemAnswer]

\* The forms, and the photos, of which CalmClickIsTaken speaks.
Promised(f, i) ==
  /\ f \notin {Good("open", None), Good("return", None)} /\ f.input = "good"
  /\ f.verb \in {"upload"} \cup MoveVerb => Dense(i.photos.at)

ClickAt(k, i) ==
  /\ k \in ItemClick
  /\ k.stage # "idle" => FormSound(k.form)
  /\ k.stage = "sent" =>
       k.seen <= i.age /\ (k.seen = i.age /\ Promised(k.form, i) => InSight(i.place) /\ Takes(k.form, i))
  /\ k.stage = "half" => Target(k.form) = "detail" /\ HalfAt(k.answer, i)
  /\ k.stage = "linked" => Target(k.form) = "detail" /\ LinkedAt(k.answer, i)
  /\ k.stage = "answered" /\ k.outcome = "taken" => AnswerAt(k.form, k.answer, i)

\* Sections get older, and what was said of an older one stays true.
LEMMA PagesGetOlder ==
  ASSUME NEW i \in ItemState, NEW j, Moves(i, j), NEW g, PageAt(g, i)
  PROVE  PageAt(g, j)
<1>1. CASE j = i
  BY <1>1
<1>2. CASE j.age = i.age + 1
  <2>1. i.age \in Nat /\ g.detail.age \in Nat /\ g \in ItemPage
    BY DEF ItemState, PageAt, ItemPage, Section
  <2>2. /\ g.links.age \in Nat /\ g.photos.age \in Nat /\ g.history.age \in Nat
    BY <2>1 DEF ItemPage, Section
  <2> QED
    BY <1>2, <2>1, <2>2 DEF PageAt, DetailAt, PartAt
<1> QED
  BY <1>1, <1>2 DEF Moves

LEMMA ClicksGetOlder ==
  ASSUME NEW i \in ItemState, NEW j, Moves(i, j), NEW k, ClickAt(k, i)
  PROVE  ClickAt(k, j)
<1>1. CASE j = i
  BY <1>1
<1>2. CASE j.age = i.age + 1
  <2>1. i.age \in Nat /\ k.seen \in Nat /\ k \in ItemClick
    BY DEF ItemState, ClickAt, ItemClick
  <2>2. ASSUME k.stage = "half" PROVE HalfAt(k.answer, j)
    <3>1. HalfAt(k.answer, i) /\ k.answer.age \in Nat
      BY <2>2 DEF ClickAt, HalfAt, Section
    <3> QED
      BY <1>2, <2>1, <3>1 DEF HalfAt
  <2>5. ASSUME k.stage = "linked" PROVE LinkedAt(k.answer, j)
    <3>1. LinkedAt(k.answer, i) /\ k.answer.detail.age \in Nat /\ k.answer.links.age \in Nat
      BY <2>5 DEF ClickAt, LinkedAt, ItemPage, Section
    <3>2. HalfAt(k.answer.detail, j)
      BY <1>2, <2>1, <3>1 DEF LinkedAt, HalfAt
    <3>3. PartAt(k.answer.links, SUBSET LinkId, j.links, j)
      BY <1>2, <2>1, <3>1 DEF LinkedAt, PartAt
    <3> QED
      BY <3>1, <3>2, <3>3 DEF LinkedAt
  <2>3. ASSUME k.stage = "answered", k.outcome = "taken" PROVE AnswerAt(k.form, k.answer, j)
    <3>1. AnswerAt(k.form, k.answer, i)
      BY <2>3 DEF ClickAt
    <3>2. ASSUME NEW W, k.answer \in Section(W) PROVE k.answer.age \in Nat
      BY <3>2 DEF Section
    <3>3. Target(k.form) = "detail" => PageAt(k.answer, j)
      BY <3>1, PagesGetOlder DEF AnswerAt
    <3>4. Target(k.form) = "links" => k.answer \in Section(SUBSET LinkId) /\ PartAt(k.answer, SUBSET LinkId, j.links, j)
      BY <1>2, <2>1, <3>1, <3>2 DEF AnswerAt, PartAt
    <3>5. Target(k.form) = "photos" => k.answer \in Section(PhotoView) /\ PartAt(k.answer, PhotoView, View(j.photos), j)
      BY <1>2, <2>1, <3>1, <3>2 DEF AnswerAt, PartAt
    <3> QED
      BY <3>1, <3>3, <3>4, <3>5 DEF AnswerAt
  <2>4. k.stage = "sent" => k.seen <= j.age /\ k.seen # j.age
    BY <1>2, <2>1 DEF ClickAt
  <2> QED
    BY <2>2, <2>3, <2>4, <2>5 DEF ClickAt
<1> QED
  BY <1>1, <1>2 DEF Moves

-----------------------------------------------------------------------------
(* A member who is alone.                                                  *)

\* The page is current, but for the sections that an answer will bring.
PageNow(g, i, but) ==
  /\ "detail" \notin but /\ OnPage(g.detail) => DetailTrue(g.detail.what, i)
  /\ "links" \notin but /\ OnPage(g.links) => g.links.what = i.links
  /\ "photos" \notin but /\ OnPage(g.photos) /\ Dense(i.photos.at) => g.photos.what = View(i.photos)
  /\ "history" \notin but /\ OnPage(g.history) => g.history.what = i.place

SectionName == {"detail", "links", "photos", "history"}

\* The sections that wait for an answer to a click that has changed the item.
Awaited(k) ==
  IF k.stage = "sent" \/ k.outcome # "taken" \/ k.form.verb = "open" THEN {}
  ELSE IF Target(k.form) = "detail" THEN SectionName ELSE {Target(k.form)}

AnswerNow(f, g, i) ==
  /\ Target(f) = "detail" => PageNow(g, i, {})
  /\ Target(f) = "links" => g.what = i.links
  /\ Target(f) = "photos" => g.what = View(i.photos)

AloneWith(k, g, i) ==
  /\ k.live /\ PageNow(g, i, Awaited(k))
  /\ k.stage = "half" => k.answer.what.place = i.place
  /\ k.stage = "linked" => k.answer.detail.what.place = i.place /\ k.answer.links.what = i.links
  /\ k.stage = "answered" /\ k.outcome = "taken" => AnswerNow(k.form, k.answer, i)

Still(clicks) == \A c \in Click : clicks[c] = Idle
OnlyOne(clicks, c) == clicks[c].stage # "idle" /\ \A d \in Click : d # c => clicks[d] = Idle

AloneAt(clicks, g, i) ==
  /\ InSight(i.place)
  /\ \/ Still(clicks) /\ PageNow(g, i, {})
     \/ \E c \in Click : OnlyOne(clicks, c) /\ AloneWith(clicks[c], g, i)

\* While another page is loading, nothing else is under way.
OpensAlone(clicks) ==
  \A c \in Click :
    clicks[c].stage # "idle" /\ clicks[c].form.verb = "open" => OnlyOne(clicks, c)

ItemKept ==
  /\ Item \in ItemState /\ PageAt(page, Item)
  /\ click \in [Click -> ItemClick] /\ \A c \in Click : ClickAt(click[c], Item)
  /\ OpensAlone(click)
  /\ alone => AloneAt(click, page, Item)

LEMMA IdleClick ==
  /\ Idle \in ItemClick /\ Idle.stage = "idle" /\ Idle.live = FALSE
  /\ \A i \in ItemState : ClickAt(Idle, i)
<1>1. /\ Idle \in ItemClick /\ Idle.stage = "idle" /\ Idle.live = FALSE
  BY DEF Idle, ItemClick, ItemAnswer, ItemOutcome
<1> QED
  BY <1>1 DEF ClickAt

LEMMA BlankIsTrue ==
  ASSUME NEW i \in ItemState
  PROVE  PageAt(Blank, i)
<1>1. \A W : Absent \in Section(W)
  BY DEF Absent, Section
<1>2. /\ Blank \in ItemPage /\ Blank.detail = Absent /\ Blank.links = Absent /\ Blank.photos = Absent
      /\ Blank.history = Absent
  BY <1>1 DEF Blank, ItemPage
<1>3. ~OnPage(Absent) /\ Absent.age = 0 /\ i.age \in Nat
  BY DEF Absent, OnPage, ItemState
<1> QED
  BY <1>2, <1>3 DEF PageAt, DetailAt, PartAt

LEMMA ItemStart == LaneInit => ItemKept
<1> SUFFICES ASSUME LaneInit PROVE ItemKept
  OBVIOUS
<1>1. Init
  BY DEF LaneInit
<1>2. /\ place \in Whereabouts /\ mine \in BOOLEAN /\ links \in SUBSET LinkId /\ age = 0
  BY <1>1 DEF Init, Whereabouts
<1>3. photos \in StoredPhotos
  <2>1. PICK S \in FirstPositions : \E D \in SUBSET PhotoId : \E at \in [D -> S] :
          \E first \in PhotoId \cup {None} : photos = [at |-> at, primary |-> first, rows |-> D]
    BY <1>1 DEF Init
  <2>2. PICK D \in SUBSET PhotoId : \E at \in [D -> S] :
          \E first \in PhotoId \cup {None} : photos = [at |-> at, primary |-> first, rows |-> D]
    BY <2>1
  <2>3. PICK at \in [D -> S], first \in PhotoId \cup {None} : photos = [at |-> at, primary |-> first, rows |-> D]
    BY <2>2
  <2>4. S \subseteq Nat
    BY ItemScreenAssumption
  <2>5. at \in [D -> Nat]
    BY <2>4
  <2>6. at \in PhotoPlaces
    BY <2>5 DEF PhotoPlaces
  <2> QED
    BY <2>3, <2>6 DEF StoredPhotos
<1>4. Item \in ItemState
  BY <1>2, <1>3 DEF Item, ItemState
<1>5. page = Blank /\ click = [c \in Click |-> Idle] /\ alone = FALSE
  BY <1>1 DEF Init
<1>6. PageAt(Blank, Item)
  BY <1>4, BlankIsTrue
<1>7. OpensAlone(click)
  BY <1>5, IdleClick DEF OpensAlone
<1> QED
  BY <1>4, <1>5, <1>6, <1>7, IdleClick DEF ItemKept

-----------------------------------------------------------------------------
(* A click goes on.                                                        *)

\* One click goes a step further; the screen stays as it is.
LEMMA ClickGoesOn ==
  ASSUME ItemKept, NEW c \in Click, click[c].stage # "idle", NEW k,
         click' = [click EXCEPT ![c] = k], page' = page, alone' => alone,
         Moves(Item, Item'), ClickAt(k, Item'), k.stage # "idle", k.form = click[c].form,
         alone' /\ InSight(place) /\ AloneWith(click[c], page, Item)
           => InSight(place') /\ AloneWith(k, page, Item')
  PROVE  ItemKept'
<1>1. /\ Item \in ItemState /\ PageAt(page, Item) /\ click \in [Click -> ItemClick]
      /\ \A d \in Click : ClickAt(click[d], Item)
      /\ OpensAlone(click) /\ (alone => AloneAt(click, page, Item))
  BY DEF ItemKept
<1>2. PageAt(page', Item') /\ Item' \in ItemState
  BY <1>1, PagesGetOlder DEF Moves
<1>3. k \in ItemClick
  BY DEF ClickAt
<1>4. click' \in [Click -> ItemClick] /\ click'[c] = k /\ \A d \in Click \ {c} : click'[d] = click[d]
  BY <1>1, <1>3
<1>5. \A d \in Click : ClickAt(click'[d], Item')
  <2>1. ASSUME NEW d \in Click \ {c} PROVE ClickAt(click[d], Item')
    BY <1>1, ClicksGetOlder
  <2> QED
    BY <1>4, <2>1
<1>6. click[c] # Idle
  BY IdleClick
<1>7. OpensAlone(click')
  BY <1>1, <1>4, <1>6 DEF OpensAlone, OnlyOne
<1>8. ASSUME alone' PROVE AloneAt(click', page, Item')
  <2>1. InSight(place) /\ OnlyOne(click, c) /\ AloneWith(click[c], page, Item)
    BY <1>1, <1>6, <1>8, ItemFields DEF AloneAt, Still, OnlyOne
  <2>2. InSight(place') /\ AloneWith(k, page, Item')
    BY <1>8, <2>1
  <2>3. OnlyOne(click', c)
    BY <1>4, <2>1 DEF OnlyOne
  <2>4. Item'.place = place'
    BY DEF Item
  <2> QED
    BY <1>4, <2>2, <2>3, <2>4 DEF AloneAt
<1> QED
  BY <1>1, <1>2, <1>4, <1>5, <1>7, <1>8 DEF ItemKept

\* The handler's work, done, refused or cut off, is the last that the item
\* sees of a click.
LEMMA WorkedKept ==
  ASSUME ItemKept, NEW c \in Click, click[c].stage = "sent",
         NEW stage \in {"acted", "answered"}, NEW outcome \in ItemOutcome,
         stage = "answered" => outcome # "taken",
         click' = [click EXCEPT ![c].stage = stage, ![c].seen = 0, ![c].outcome = outcome],
         page' = page, alone' => alone, Moves(Item, Item'),
         alone' /\ InSight(place) /\ PageNow(page, Item, {}) =>
           /\ InSight(place')
           /\ PageNow(page, Item', IF outcome # "taken" \/ click[c].form.verb = "open" THEN {}
                                   ELSE IF Target(click[c].form) = "detail" THEN SectionName
                                   ELSE {Target(click[c].form)})
  PROVE  ItemKept'
<1>1. click[c] \in ItemClick /\ ClickAt(click[c], Item) /\ FormSound(click[c].form)
  BY DEF ItemKept, ClickAt
<1>2. PICK k : k = [click[c] EXCEPT !.stage = stage, !.seen = 0, !.outcome = outcome]
  OBVIOUS
<1>3. click' = [click EXCEPT ![c] = k]
  BY <1>2 DEF ItemKept
<1>4. k \in ItemClick
  BY <1>1, <1>2 DEF ItemClick
<1>5. k.stage = stage /\ k.outcome = outcome /\ k.form = click[c].form /\ k.live = click[c].live
  BY <1>1, <1>2 DEF ItemClick
<1>6. ClickAt(k, Item')
  BY <1>1, <1>4, <1>5 DEF ClickAt
<1>7. ASSUME alone', InSight(place), AloneWith(click[c], page, Item)
      PROVE  InSight(place') /\ AloneWith(k, page, Item')
  <2>1. k.live /\ PageNow(page, Item, {})
    BY <1>5, <1>7 DEF AloneWith, Awaited
  <2>2. InSight(place') /\ PageNow(page, Item', Awaited(k))
    BY <1>5, <1>7, <2>1 DEF Awaited
  <2> QED
    BY <1>5, <2>1, <2>2 DEF AloneWith
<1> QED
  BY <1>3, <1>5, <1>6, <1>7, ClickGoesOn

LEMMA ActItemKept ==
  ASSUME ItemKept, NEW c \in Click, Act(c)
  PROVE  ItemKept'
<1> DEFINE f == click[c].form
<1>1. /\ Item \in ItemState /\ click[c].stage = "sent" /\ FormSound(f) /\ f \in ItemForm
      /\ page' = page /\ (alone' => alone) /\ (Visible <=> InSight(place))
  BY DEF ItemKept, Act, ClickAt, FormSound, Visible, InSight
<1>2. Item'.place = place' /\ Item'.mine = mine' /\ Item'.links = links' /\ Item'.photos = photos'
  BY DEF Item
<1>3. PICK stage : stage = IF Visible /\ MoveStops(f) THEN "answered" ELSE "acted"
  OBVIOUS
<1>4. click' = [click EXCEPT ![c].stage = stage, ![c].seen = 0, ![c].outcome = Outcome(f)]
  BY <1>3 DEF Act
<1>5. Outcome(f) \in ItemOutcome /\ stage \in {"acted", "answered"}
  BY <1>3 DEF Outcome, ItemOutcome
<1>6. stage = "answered" => Outcome(f) # "taken"
  <2>1. MoveStops(f) => ~Accepts(f)
    BY DEF MoveStops, MoveVerb, Accepts
  <2> QED
    BY <1>3, <2>1 DEF Outcome
<1>7. CASE Visible /\ Accepts(f)
  <2>1. Works(f) /\ Outcome(f) = "taken"
    BY <1>7 DEF Act, Outcome
  <2>2. Moves(Item, Item') /\ OnlyOf(f, Item, Item')
    BY <1>1, <1>7, <2>1, OwnWork
  <2>3. Target(f) \in {"detail", "links", "photos"}
    BY DEF Target
  <2>4. ASSUME PageNow(page, Item, {})
        PROVE  /\ InSight(place')
               /\ PageNow(page, Item', IF f.verb = "open" THEN {}
                                       ELSE IF Target(f) = "detail" THEN SectionName ELSE {Target(f)})
    BY <1>2, <2>2, <2>3, <2>4 DEF PageNow, OnlyOf, DetailTrue, SectionName
  <2> QED
    BY <1>1, <1>4, <1>5, <1>6, <2>1, <2>2, <2>4, WorkedKept
<1>8. CASE Visible /\ ~Accepts(f)
  <2>1. Works(f) /\ Refuses(f) /\ Outcome(f) = "refused"
    BY <1>8 DEF Act, Outcome, Works
  <2>2. Moves(Item, Item') /\ OnlyOf(f, Item, Item')
    BY <1>1, <1>8, <2>1, OwnWork
  <2>3. \/ Item' = Item
        \/ place' = place /\ mine' = mine /\ links' = links /\ ~Dense(photos'.at)
    BY <1>1, <2>1, RefusalIsSparse
  <2>4. ASSUME PageNow(page, Item, {}) PROVE InSight(place') /\ PageNow(page, Item', {})
    BY <1>2, <2>2, <2>3, <2>4, ItemFields DEF PageNow, OnlyOf, DetailTrue
  <2> QED
    BY <1>1, <1>4, <1>5, <1>6, <2>1, <2>2, <2>4, WorkedKept
<1>9. CASE ~Visible
  <2>1. Nothing /\ Outcome(f) = "missing"
    BY <1>9 DEF Act, Outcome
  <2>2. Moves(Item, Item')
    BY <1>1, <2>1, NothingMoves
  <2> QED
    BY <1>1, <1>4, <1>5, <1>6, <1>9, <2>1, <2>2, WorkedKept
<1> QED
  BY <1>7, <1>8, <1>9

LEMMA CutOffKept ==
  ASSUME ItemKept, NEW c \in Click, CutOff(c)
  PROVE  ItemKept'
<1> DEFINE f == click[c].form
<1>1. /\ Item \in ItemState /\ click[c].stage = "sent" /\ FormSound(f)
      /\ page' = page /\ alone' = FALSE /\ (Visible <=> InSight(place))
      /\ click' = [click EXCEPT ![c].stage = "answered", ![c].seen = 0, ![c].outcome = "failed"]
  BY DEF ItemKept, CutOff, ClickAt, Visible, InSight
<1>2. Moves(Item, Item')
  <2>1. CASE Visible
    BY <1>1, <2>1, OwnWork DEF CutOff
  <2>2. CASE ~Visible
    BY <1>1, <2>2, NothingMoves DEF CutOff
  <2> QED
    BY <2>1, <2>2
<1>3. "failed" \in ItemOutcome
  BY DEF ItemOutcome
<1> QED
  BY <1>1, <1>2, <1>3, WorkedKept

\* A handler that has read what it answers.
LEMMA AnsweredKept ==
  ASSUME ItemKept, NEW c \in Click, click[c].stage \in {"acted", "half", "linked"},
         UNCHANGED <<place, mine, links, photos, age, page>>, alone' => alone,
         NEW outcome \in ItemOutcome, NEW answer \in ItemAnswer,
         Answered(c, outcome, answer),
         outcome = "taken" => AnswerAt(click[c].form, answer, Item),
         alone' /\ InSight(place) /\ AloneWith(click[c], page, Item) =>
           /\ outcome = click[c].outcome
           /\ outcome = "taken" => AnswerNow(click[c].form, answer, Item)
  PROVE  ItemKept'
<1>1. click[c] \in ItemClick /\ FormSound(click[c].form) /\ Item \in ItemState
  BY DEF ItemKept, ClickAt
<1>2. Item' = Item
  BY DEF Item
<1>3. PICK k : k = [click[c] EXCEPT !.stage = "answered", !.outcome = outcome, !.answer = answer]
  OBVIOUS
<1>4. click' = [click EXCEPT ![c] = k]
  BY <1>3 DEF Answered, ItemKept
<1>5. k \in ItemClick
  BY <1>1, <1>3 DEF ItemClick
<1>6. /\ k.stage = "answered" /\ k.outcome = outcome /\ k.answer = answer /\ k.form = click[c].form
      /\ k.live = click[c].live
  BY <1>1, <1>3 DEF ItemClick
<1>7. ClickAt(k, Item')
  BY <1>1, <1>2, <1>5, <1>6 DEF ClickAt
<1>8. ASSUME alone', InSight(place), AloneWith(click[c], page, Item)
      PROVE  AloneWith(k, page, Item')
  <2>1. outcome = click[c].outcome /\ (outcome = "taken" => AnswerNow(click[c].form, answer, Item))
    BY <1>8
  <2>2. Awaited(k) = Awaited(click[c])
    BY <1>6, <2>1 DEF Awaited
  <2> QED
    BY <1>2, <1>6, <1>8, <2>1, <2>2 DEF AloneWith
<1>9. Moves(Item, Item')
  BY <1>1, <1>2 DEF Moves
<1> QED
  BY <1>4, <1>6, <1>7, <1>8, <1>9, ClickGoesOn

LEMMA ReadSectionKept ==
  ASSUME ItemKept, NEW c \in Click, ReadSection(c)
  PROVE  ItemKept'
<1> DEFINE f == click[c].form
<1>1. /\ click[c].stage = "acted" /\ Target(f) # "detail"
      /\ UNCHANGED <<place, mine, links, photos, age, page, alone>>
  BY DEF ReadSection
<1>2. click[c] \in ItemClick /\ Item \in ItemState
  BY DEF ItemKept, ClickAt
<1>3. /\ links \in SUBSET LinkId /\ View(photos) \in PhotoView /\ age \in Nat
      /\ (Visible <=> InSight(place))
  BY <1>2, ItemFields, PhotosKept DEF ItemState, Visible, InSight
<1>4. None \in ItemAnswer /\ "missing" \in ItemOutcome
  BY DEF ItemAnswer, ItemOutcome
<1>5. CASE ~Visible
  <2>1. Answered(c, "missing", None)
    BY <1>1, <1>5 DEF ReadSection
  <2> QED
    BY <1>1, <1>3, <1>4, <1>5, <2>1, AnsweredKept
<1>6. CASE Visible
  <2>1. PICK now : now = IF Target(f) = "links" THEN links ELSE View(photos)
    OBVIOUS
  <2>2. Answered(c, click[c].outcome, Shown(age, now))
    BY <1>1, <1>6, <2>1 DEF ReadSection
  <2>3. Target(f) \in {"links", "photos"}
    BY <1>1 DEF Target
  <2>4. /\ Shown(age, now).age = age /\ Shown(age, now).what = now
        /\ Target(f) = "links" => now = links /\ Shown(age, now) \in Section(SUBSET LinkId)
        /\ Target(f) = "photos" => now = View(photos) /\ Shown(age, now) \in Section(PhotoView)
    BY <1>3, <2>1 DEF Shown, Section
  <2>5. AnswerAt(f, Shown(age, now), Item) /\ AnswerNow(f, Shown(age, now), Item)
    BY <1>1, <1>3, <1>6, <2>4, ItemFields DEF AnswerAt, AnswerNow, PartAt
  <2>6. Shown(age, now) \in ItemAnswer
    BY <2>3, <2>4 DEF ItemAnswer
  <2>7. click[c].outcome \in ItemOutcome
    BY <1>2 DEF ItemClick
  <2> QED
    BY <1>1, <2>2, <2>5, <2>6, <2>7, AnsweredKept
<1> QED
  BY <1>5, <1>6

LEMMA ReadItemKept ==
  ASSUME ItemKept, NEW c \in Click, ReadItem(c)
  PROVE  ItemKept'
<1> DEFINE f == click[c].form
<1>1. /\ click[c].stage = "acted" /\ Target(f) = "detail"
      /\ UNCHANGED <<place, mine, links, photos, age, page, alone>>
  BY DEF ReadItem
<1>2. click[c] \in ItemClick /\ Item \in ItemState /\ FormSound(f)
  BY <1>1 DEF ItemKept, ClickAt
<1>3. place \in Whereabouts /\ age \in Nat /\ (Visible <=> InSight(place))
  BY <1>2, ItemFields DEF ItemState, Visible, InSight
<1>4. None \in ItemAnswer /\ "missing" \in ItemOutcome
  BY DEF ItemAnswer, ItemOutcome
<1>5. CASE ~Visible
  <2>1. Answered(c, "missing", None)
    BY <1>1, <1>5 DEF ReadItem
  <2> QED
    BY <1>1, <1>3, <1>4, <1>5, <2>1, AnsweredKept
<1>6. CASE Visible
  <2>1. PICK half : half = Shown(age, [place |-> place, mine |-> FALSE, bins |-> {}])
    OBVIOUS
  <2>2. /\ half \in Section(DetailView) /\ OnPage(half) /\ half.age = age
        /\ half.what \in DetailView /\ half.what.place = place
    BY <1>3, <2>1 DEF Shown, Section, DetailView, OnPage
  <2>3. PICK k : k = [click[c] EXCEPT !.stage = "half", !.answer = half]
    OBVIOUS
  <2>4. click' = [click EXCEPT ![c] = k]
    BY <1>6, <2>1, <2>3 DEF ReadItem, ItemKept
  <2>5. k \in ItemClick
    BY <1>2, <2>2, <2>3 DEF ItemClick, ItemAnswer
  <2>6. /\ k.stage = "half" /\ k.outcome = click[c].outcome /\ k.answer = half /\ k.form = f
        /\ k.live = click[c].live
    BY <1>2, <2>3 DEF ItemClick
  <2>7. Item' = Item /\ Moves(Item, Item')
    BY <1>1, <1>2 DEF Item, Moves
  <2>8. HalfAt(half, Item)
    BY <1>3, <1>6, <2>2, ItemFields DEF HalfAt
  <2>9. ClickAt(k, Item')
    BY <1>1, <1>2, <2>5, <2>6, <2>7, <2>8 DEF ClickAt
  <2>10. ASSUME AloneWith(click[c], page, Item)
         PROVE  AloneWith(k, page, Item')
    <3>1. Awaited(k) = Awaited(click[c])
      BY <1>1, <2>6 DEF Awaited
    <3> QED
      BY <2>2, <2>6, <2>7, <2>10, <3>1, ItemFields DEF AloneWith
  <2> QED
    BY <1>1, <2>4, <2>6, <2>7, <2>9, <2>10, ClickGoesOn
<1> QED
  BY <1>5, <1>6

LEMMA ReadFailsKept ==
  ASSUME ItemKept, NEW c \in Click, ReadFails(c)
  PROVE  ItemKept'
<1>1. /\ click[c].stage \in {"acted", "half", "linked"} /\ Answered(c, "failed", None)
      /\ UNCHANGED <<place, mine, links, photos, age, page>> /\ alone' = FALSE
  BY DEF ReadFails
<1>2. None \in ItemAnswer /\ "failed" \in ItemOutcome
  BY DEF ItemAnswer, ItemOutcome
<1> QED
  BY <1>1, <1>2, AnsweredKept

LEMMA StubIsEmpty == /\ \A W : Stub \in Section(W)
                     /\ ~OnPage(Stub)
<1>1. Stub = [state |-> "stub", age |-> 0, what |-> None]
  BY DEF Stub, Absent
<1> QED
  BY <1>1 DEF Section, OnPage

\* The item that was read, with its links: all that a page of an item in a bin shows.
LEMMA ReadLinksKept ==
  ASSUME ItemKept, NEW c \in Click, ReadLinks(c)
  PROVE  ItemKept'
<1> DEFINE f == click[c].form
           half == click[c].answer
<1>1. click[c].stage = "half" /\ UNCHANGED <<place, mine, links, photos, age, page, alone>>
  BY DEF ReadLinks
<1>2. /\ click[c] \in ItemClick /\ Item \in ItemState /\ FormSound(f) /\ Target(f) = "detail"
      /\ HalfAt(half, Item)
  BY <1>1 DEF ItemKept, ClickAt
<1>3. links \in SUBSET LinkId /\ age \in Nat /\ (Visible <=> InSight(place))
  BY <1>2, ItemFields DEF ItemState, Visible, InSight
<1>4. None \in ItemAnswer /\ "missing" \in ItemOutcome
  BY DEF ItemAnswer, ItemOutcome
<1>5. click[c].outcome \in ItemOutcome
  BY <1>2 DEF ItemClick
<1>6. PICK shown : shown = Shown(age, links)
  OBVIOUS
<1>7. shown \in Section(SUBSET LinkId) /\ shown.age = age /\ shown.what = links /\ OnPage(shown)
  BY <1>3, <1>6 DEF Shown, Section, OnPage
<1>8. PICK read : read = Whole(half, shown)
  OBVIOUS
<1>9. half \in Section(DetailView) /\ half.what \in DetailView /\ OnPage(half) /\ half.age <= age
  BY <1>2, ItemFields DEF HalfAt
<1>10. /\ read \in ItemPage /\ read.detail = half /\ read.links = shown
       /\ read.photos = Stub /\ read.history = Stub
  BY <1>7, <1>8, <1>9, StubIsEmpty DEF Whole, ItemPage
<1>11. read \in ItemAnswer
  BY <1>10 DEF ItemAnswer
<1>12. ASSUME Visible PROVE LinkedAt(read, Item)
  BY <1>2, <1>3, <1>7, <1>9, <1>10, <1>12, ItemFields DEF LinkedAt, PartAt
<1>13. ASSUME AloneWith(click[c], page, Item)
       PROVE  read.detail.what.place = Item.place /\ read.links.what = Item.links
  BY <1>1, <1>7, <1>10, <1>13, ItemFields DEF AloneWith
<1> HIDE DEF half
<1>14. CASE ~Visible
  <2>1. Answered(c, "missing", None)
    BY <1>1, <1>14 DEF ReadLinks
  <2> QED
    BY <1>1, <1>3, <1>4, <1>14, <2>1, AnsweredKept
<1>15. CASE Visible /\ half.what.place \in Bin
  <2>1. Answered(c, click[c].outcome, read)
    BY <1>1, <1>6, <1>8, <1>15 DEF ReadLinks, half
  <2>2. DetailAt(half, Item)
    BY <1>2, <1>15, ItemFields DEF DetailAt, HalfAt, DetailTrue
  <2>3. PageAt(read, Item)
    BY <1>10, <1>12, <1>15, <2>2, StubIsEmpty DEF PageAt, PartAt, LinkedAt
  <2>4. AnswerAt(f, read, Item)
    BY <1>2, <1>9, <1>10, <1>12, <1>15, <2>3 DEF AnswerAt, LinkedAt
  <2>5. ASSUME AloneWith(click[c], page, Item) PROVE AnswerNow(f, read, Item)
    <3>1. DetailTrue(read.detail.what, Item)
      BY <1>10, <1>13, <1>15, <2>5, ItemFields DEF DetailTrue
    <3> QED
      BY <1>2, <1>10, <1>13, <2>5, <3>1, StubIsEmpty DEF AnswerNow, PageNow
  <2> QED
    BY <1>1, <1>5, <1>11, <2>1, <2>4, <2>5, AnsweredKept
<1>16. CASE Visible /\ half.what.place \notin Bin
  <2>1. PICK k : k = [click[c] EXCEPT !.stage = "linked", !.answer = read]
    OBVIOUS
  <2>2. click' = [click EXCEPT ![c] = k]
    BY <1>6, <1>8, <1>16, <2>1 DEF ReadLinks, ItemKept, half
  <2>3. k \in ItemClick
    BY <1>2, <1>11, <2>1 DEF ItemClick
  <2>4. /\ k.stage = "linked" /\ k.outcome = click[c].outcome /\ k.answer = read /\ k.form = f
        /\ k.live = click[c].live
    BY <1>2, <2>1 DEF ItemClick
  <2>5. Item' = Item /\ Moves(Item, Item')
    BY <1>1, <1>2 DEF Item, Moves
  <2>6. ClickAt(k, Item')
    BY <1>2, <1>12, <1>16, <2>3, <2>4, <2>5 DEF ClickAt
  <2>7. ASSUME AloneWith(click[c], page, Item)
        PROVE  AloneWith(k, page, Item')
    <3>1. Awaited(k) = Awaited(click[c])
      BY <1>1, <2>4 DEF Awaited
    <3> QED
      BY <1>13, <2>4, <2>5, <2>7, <3>1 DEF AloneWith
  <2> QED
    BY <1>1, <2>2, <2>4, <2>5, <2>6, <2>7, ClickGoesOn
<1> QED
  BY <1>14, <1>15, <1>16

\* What is read last of an item that was out.
LEMMA ReadRequestKept ==
  ASSUME ItemKept, NEW c \in Click, ReadRequest(c)
  PROVE  ItemKept'
<1> DEFINE f == click[c].form
           linked == click[c].answer
<1>1. click[c].stage = "linked" /\ UNCHANGED <<place, mine, links, photos, age, page, alone>>
  BY DEF ReadRequest
<1>2. /\ click[c] \in ItemClick /\ Item \in ItemState /\ FormSound(f) /\ Target(f) = "detail"
      /\ LinkedAt(linked, Item)
  BY <1>1 DEF ItemKept, ClickAt
<1>3. mine \in BOOLEAN /\ age \in Nat /\ (Visible <=> InSight(place))
  BY <1>2, ItemFields DEF ItemState, Visible, InSight
<1>4. None \in ItemAnswer /\ "missing" \in ItemOutcome
  BY DEF ItemAnswer, ItemOutcome
<1>5. CASE ~Visible
  <2>1. Answered(c, "missing", None)
    BY <1>1, <1>5 DEF ReadRequest
  <2> QED
    BY <1>1, <1>3, <1>4, <1>5, <2>1, AnsweredKept
<1>6. CASE Visible
  <2>1. /\ linked \in ItemPage /\ linked.detail \in Section(DetailView)
        /\ linked.detail.what \in DetailView /\ OnPage(linked.detail)
    BY <1>2 DEF LinkedAt, HalfAt
  <2>2. PICK full : full = [linked.detail.what EXCEPT !.mine = mine, !.bins = VisibleBins]
    OBVIOUS
  <2>3. full \in DetailView /\ full.place = linked.detail.what.place /\ full.mine = mine
    BY <1>3, <2>1, <2>2 DEF DetailView
  <2>4. PICK detail : detail = [linked.detail EXCEPT !.what = full]
    OBVIOUS
  <2>5. /\ detail \in Section(DetailView) /\ detail.state = linked.detail.state
        /\ detail.age = linked.detail.age /\ detail.what = full
    BY <2>1, <2>3, <2>4 DEF Section
  <2>6. PICK answer : answer = [linked EXCEPT !.detail = detail]
    OBVIOUS
  <2>7. /\ answer \in ItemPage /\ answer.detail = detail /\ answer.links = linked.links
        /\ answer.photos = linked.photos /\ answer.history = linked.history
    BY <2>1, <2>5, <2>6 DEF ItemPage
  <2>8. Answered(c, click[c].outcome, answer)
    <3>1. answer = [linked EXCEPT !.detail.what.mine = mine, !.detail.what.bins = VisibleBins]
      BY <2>1, <2>2, <2>4, <2>6 DEF ItemPage, Section, DetailView
    <3> QED
      BY <1>6, <3>1 DEF ReadRequest
  <2>9. DetailAt(detail, Item)
    BY <1>2, <2>3, <2>5, ItemFields DEF DetailAt, LinkedAt, HalfAt, DetailTrue
  <2>10. PageAt(answer, Item)
    BY <1>2, <2>7, <2>9, StubIsEmpty DEF PageAt, PartAt, LinkedAt
  <2>11. AnswerAt(f, answer, Item) /\ answer \in ItemAnswer
    BY <1>2, <2>1, <2>5, <2>7, <2>10 DEF AnswerAt, ItemAnswer, LinkedAt, OnPage
  <2>12. ASSUME AloneWith(click[c], page, Item) PROVE AnswerNow(f, answer, Item)
    <3>1. linked.detail.what.place = place /\ linked.links.what = links
      BY <1>1, <2>12, ItemFields DEF AloneWith
    <3>2. DetailTrue(detail.what, Item)
      BY <2>3, <2>5, <3>1, ItemFields DEF DetailTrue
    <3> QED
      BY <1>2, <2>7, <3>1, <3>2, StubIsEmpty, ItemFields DEF AnswerNow, PageNow, LinkedAt
  <2>13. click[c].outcome \in ItemOutcome
    BY <1>2 DEF ItemClick
  <2> QED
    BY <1>1, <2>8, <2>11, <2>12, <2>13, AnsweredKept
<1> QED
  BY <1>5, <1>6

-----------------------------------------------------------------------------
(* What the page offers.                                                   *)

\* A form that a section offers and that is as old as the item is accepted.
Offered(f, s) ==
  /\ FormSound(f) /\ f.verb # "open"
  /\ s.age <= age /\ (s.age = age /\ Promised(f, Item) => InSight(place) /\ Takes(f, Item))

LEMMA DetailOffers ==
  ASSUME Item \in ItemState, PageAt(page, Item), page.detail.state = "shown",
         NEW f \in DetailForms(page.detail.what)
  PROVE  Offered(f, page.detail)
<1> DEFINE d == page.detail.what
<1>1. /\ d \in DetailView /\ page.detail.age <= age
      /\ (page.detail.age = age => InSight(place) /\ d.place = place /\ (place \notin Bin => d.mine = mine))
  BY ItemFields DEF PageAt, DetailAt, OnPage, DetailTrue
<1>2. d.bins \subseteq VisibleBins /\ VisibleBins \subseteq Bin
  BY <1>1 DEF DetailView, VisibleBins
<1>3. place \in Whereabouts
  BY ItemFields DEF ItemState
<1>4. CASE d.place \in Bin
  <2>1. f = Good("check out", None)
    BY <1>4 DEF DetailForms, InBinForms, CheckOutForm
  <2>2. f \in ItemForm /\ f.verb = "check out"
    BY <2>1 DEF Good, Form, ItemForm, ItemVerb
  <2> QED
    BY <1>1, <1>4, <2>2, ItemFields DEF Offered, FormSound, Takes, MoveVerb
<1>5. ASSUME d.place \notin Bin, NEW b \in d.bins \cup {None}, f = Good("return", b)
      PROVE  Offered(f, page.detail)
  <2>1. f \in ItemForm /\ f.verb = "return" /\ f.of = b
    BY <1>2, <1>5 DEF Good, Form, ItemForm, ItemVerb
  <2>2. b = None => ~Promised(f, Item)
    BY <1>5 DEF Promised
  <2>3. page.detail.age = age => place \in {Me, Other}
    BY <1>1, <1>3, <1>5 DEF Whereabouts, InSight
  <2> QED
    BY <1>1, <1>2, <1>5, <2>1, <2>2, <2>3, ItemFields DEF Offered, FormSound, Takes, MoveVerb
<1>6. CASE d.place \notin Bin /\ d.mine /\ f = Good("cancel", None)
  <2>1. f \in ItemForm /\ f.verb = "cancel"
    BY <1>6 DEF Good, Form, ItemForm, ItemVerb
  <2> QED
    BY <1>1, <1>6, <2>1, ItemFields DEF Offered, FormSound, Takes, MoveVerb
<1>7. CASE d.place \notin Bin /\ ~d.mine /\ d.place # Me /\ f = Good("request", None)
  <2>1. f \in ItemForm /\ f.verb = "request"
    BY <1>7 DEF Good, Form, ItemForm, ItemVerb
  <2>2. page.detail.age = age => place = Other
    BY <1>1, <1>3, <1>7 DEF Whereabouts, InSight
  <2> QED
    BY <1>1, <1>7, <2>1, <2>2, ItemFields DEF Offered, FormSound, Takes, MoveVerb
<1>8. CASE d.place \notin Bin
  <2>1. f \in ReturnForms(d.bins) \/ f \in RequestForms(d)
    BY <1>8 DEF DetailForms, CheckedOutForms
  <2>2. CASE f \in ReturnForms(d.bins)
    <3>1. \E b \in d.bins \cup {None} : f = Good("return", b)
      BY <2>2 DEF ReturnForms
    <3> QED
      BY <1>5, <1>8, <3>1
  <2>3. CASE f \in RequestForms(d)
    BY <1>6, <1>7, <1>8, <2>3 DEF RequestForms, CancelForm, RequestForm
  <2> QED
    BY <2>1, <2>2, <2>3
<1> QED
  BY <1>4, <1>8

LEMMA LinksOffer ==
  ASSUME Item \in ItemState, PageAt(page, Item), page.links.state = "shown",
         NEW f \in LinkForms(page.links.what)
  PROVE  Offered(f, page.links)
<1> DEFINE rows == page.links.what
<1>1. /\ rows \in SUBSET LinkId /\ page.links.age <= age
      /\ (page.links.age = age => InSight(place) /\ rows = links)
  BY ItemFields DEF PageAt, PartAt, OnPage
<1>2. CASE f \in AddLinkForms
  <2>1. PICK input \in {"good", "bad"} : f = Form("add link", None, input)
    BY <1>2 DEF AddLinkForms
  <2>2. f \in ItemForm /\ f.verb = "add link" /\ f.input = input
    BY <2>1 DEF Form, ItemForm, ItemVerb
  <2> QED
    BY <1>1, <2>2, ItemFields DEF Offered, FormSound, Takes, Promised, MoveVerb
<1>3. CASE \E l \in rows : f \in {EditLinkForm(l), DeleteLinkForm(l)}
  <2>1. PICK l \in rows : f = Good("edit link", l) \/ f = Good("delete link", l)
    BY <1>3 DEF EditLinkForm, DeleteLinkForm
  <2>2. l \in LinkId
    BY <1>1
  <2>3. f \in ItemForm /\ f.verb \in {"edit link", "delete link"} /\ f.of = l
    <3>1. CASE f = Good("edit link", l)
      BY <2>2, <3>1 DEF Good, Form, ItemForm, ItemVerb
    <3>2. CASE f = Good("delete link", l)
      BY <2>2, <3>2 DEF Good, Form, ItemForm, ItemVerb
    <3> QED
      BY <2>1, <3>1, <3>2
  <2> QED
    BY <1>1, <2>1, <2>3, ItemFields DEF Offered, FormSound, Takes, MoveVerb
<1> QED
  BY <1>2, <1>3 DEF LinkForms

LEMMA PhotosOffer ==
  ASSUME Item \in ItemState, PageAt(page, Item), page.photos.state = "shown",
         NEW f \in PhotoForms(page.photos.what)
  PROVE  Offered(f, page.photos)
<1> DEFINE v == page.photos.what
<1>1. /\ v \in PhotoView /\ page.photos.age <= age
      /\ (page.photos.age = age => InSight(place) /\ v = View(photos))
  BY ItemFields DEF PageAt, PartAt, OnPage
<1>2. photos \in StoredPhotos /\ photos.at \in PhotoPlaces
  BY ItemFields DEF ItemState, StoredPhotos
<1>3. FormSound(f) /\ f.verb \in PhotoVerb /\ (f.verb # "upload" => f.of \in DOMAIN v.place)
  BY <1>1, PhotoFormsSound
<1>4. ASSUME page.photos.age = age, Promised(f, Item)
      PROVE  Takes(f, Item)
  <2>1. f.input = "good" /\ (f.verb \in {"upload"} \cup MoveVerb => Dense(photos.at))
    BY <1>4, ItemFields DEF Promised
  <2>2. DOMAIN v.place = DOMAIN photos.at
    BY <1>1, <1>2, <1>4, PhotosKept
  <2>3. f.verb = "upload" => Count(photos) \notin Range(photos.at)
    BY <1>2, <2>1, DenseIsFree DEF Count
  <2>4. f.verb \in MoveVerb => Free(photos.at, Moved(photos.at, f.of, f.verb = "up"))
    BY <1>2, <2>1, DenseIsFree
  <2>5. /\ f.verb \notin {"check out", "return", "request", "cancel", "add link", "edit link", "delete link"}
        /\ f.verb \in MoveVerb => f.verb # "upload"
    BY <1>3 DEF PhotoVerb, MoveVerb
  <2> QED
    BY <1>3, <2>1, <2>2, <2>3, <2>4, <2>5, ItemFields DEF Takes
<1> QED
  BY <1>1, <1>3, <1>4 DEF Offered, PhotoVerb

\* A click is sent.
LEMMA SendKept ==
  ASSUME ItemKept, NEW c \in Click, NEW f, NEW seen \in Nat, Send(c, f, seen), FormSound(f),
         seen <= age, seen = age /\ Promised(f, Item) => InSight(place) /\ Takes(f, Item),
         f.verb = "open" => Still(click),
         \A d \in Click : click[d].form # Good("open", None)
  PROVE  ItemKept'
<1>1. /\ Item \in ItemState /\ PageAt(page, Item) /\ click \in [Click -> ItemClick]
      /\ \A d \in Click : ClickAt(click[d], Item)
      /\ OpensAlone(click) /\ (alone => AloneAt(click, page, Item))
  BY DEF ItemKept
<1>2. /\ click[c] = Idle /\ UNCHANGED <<place, mine, links, photos, age, page>>
      /\ alone' = (alone /\ Still(click))
  BY DEF Send, Quiet, Still
<1>3. PICK k : k = [Idle EXCEPT !.stage = "sent", !.form = f, !.live = TRUE, !.seen = seen]
  OBVIOUS
<1>4. click' = [click EXCEPT ![c] = k]
  BY <1>3 DEF Send
<1>5. k \in ItemClick
  BY <1>3, IdleClick DEF ItemClick, FormSound
<1>6. k.stage = "sent" /\ k.form = f /\ k.live /\ k.seen = seen
  BY <1>3, IdleClick DEF ItemClick
<1>7. Item' = Item
  BY <1>2 DEF Item
<1>8. ClickAt(k, Item)
  BY <1>5, <1>6, ItemFields DEF ClickAt
<1>9. click' \in [Click -> ItemClick] /\ click'[c] = k /\ \A d \in Click \ {c} : click'[d] = click[d]
  BY <1>1, <1>4, <1>5
<1>10. \A d \in Click : ClickAt(click'[d], Item')
  BY <1>1, <1>7, <1>8, <1>9
<1>11. OpensAlone(click')
  <2>1. ASSUME NEW d \in Click \ {c}, click[d].stage # "idle" PROVE click[d].form.verb # "open"
    BY <1>1, <2>1 DEF ClickAt, FormSound
  <2>2. f.verb = "open" => OnlyOne(click', c)
    BY <1>6, <1>9 DEF Still, OnlyOne
  <2> QED
    BY <1>6, <1>9, <2>1, <2>2 DEF OpensAlone
<1>12. ASSUME alone' PROVE AloneAt(click', page', Item')
  <2>1. alone /\ Still(click)
    BY <1>2, <1>12
  <2>2. InSight(Item.place) /\ PageNow(page, Item, {})
    BY <1>1, <2>1, IdleClick DEF AloneAt, Still, OnlyOne
  <2>3. OnlyOne(click', c)
    BY <1>6, <1>9, <2>1 DEF OnlyOne, Still
  <2>4. AloneWith(k, page, Item)
    BY <1>6, <2>2 DEF AloneWith, Awaited
  <2>5. page' = page
    BY <1>2
  <2> QED
    BY <1>7, <1>9, <2>2, <2>3, <2>4, <2>5 DEF AloneAt
<1>13. PageAt(page', Item') /\ Item' \in ItemState
  BY <1>1, <1>2, <1>7
<1> QED
  BY <1>9, <1>10, <1>11, <1>12, <1>13 DEF ItemKept

LEMMA SubmitKept ==
  ASSUME ItemKept, NEW c \in Click, NEW name \in {"detail", "links", "photos"}, Submit(c, name)
  PROVE  ItemKept'
<1>1. /\ page[name].state = "shown" /\ \A d \in Click : click[d].form # Good("open", None)
      /\ Item \in ItemState /\ PageAt(page, Item) /\ page \in ItemPage
  BY DEF Submit, ItemKept, PageAt
<1>2. PICK f \in FormsOf(name, page[name].what) : Send(c, f, page[name].age)
  BY DEF Submit
<1>3. Offered(f, page[name]) /\ page[name].age \in Nat
  <2>1. CASE name = "detail"
    <3>1. page[name] = page.detail /\ page.detail \in Section(DetailView)
      BY <1>1, <2>1 DEF ItemPage
    <3>2. f \in DetailForms(page.detail.what)
      BY <1>2, <2>1, <3>1 DEF FormsOf
    <3> QED
      BY <1>1, <3>1, <3>2, DetailOffers DEF Section
  <2>2. CASE name = "links"
    <3>1. page[name] = page.links /\ page.links \in Section(SUBSET LinkId)
      BY <1>1, <2>2 DEF ItemPage
    <3>2. f \in LinkForms(page.links.what)
      BY <1>2, <2>2, <3>1 DEF FormsOf
    <3> QED
      BY <1>1, <3>1, <3>2, LinksOffer DEF Section
  <2>3. CASE name = "photos"
    <3>1. page[name] = page.photos /\ page.photos \in Section(PhotoView)
      BY <1>1, <2>3 DEF ItemPage
    <3>2. f \in PhotoForms(page.photos.what)
      BY <1>2, <2>3, <3>1 DEF FormsOf
    <3> QED
      BY <1>1, <3>1, <3>2, PhotosOffer DEF Section
  <2> QED
    BY <2>1, <2>2, <2>3
<1> QED
  BY <1>1, <1>2, <1>3, SendKept DEF Offered

LEMMA OpenKept ==
  ASSUME ItemKept, NEW c \in Click, Open(c)
  PROVE  ItemKept'
<1>1. Still(click) /\ Send(c, Good("open", None), age)
  BY DEF Open, Quiet, Still
<1>2. FormSound(Good("open", None)) /\ ~Promised(Good("open", None), Item)
  <2>1. PICK f : f = Good("open", None)
    OBVIOUS
  <2>2. f \in ItemForm /\ f.verb = "open"
    BY <2>1 DEF Good, Form, ItemForm, ItemVerb
  <2> QED
    BY <2>1, <2>2 DEF FormSound, Promised
<1>3. age \in Nat
  BY ItemFields DEF ItemKept, ItemState
<1>4. \A d \in Click : click[d].form # Good("open", None)
  BY <1>1 DEF Send
<1> QED
  BY <1>1, <1>2, <1>3, <1>4, SendKept

-----------------------------------------------------------------------------
(* Answers come onto the page.                                             *)

\* A click ends: its answer is put in place, or dropped.
LEMMA ClickEnds ==
  ASSUME ItemKept, NEW c \in Click, click[c].stage # "idle",
         UNCHANGED <<place, mine, links, photos, age>>,
         click' \in [Click -> ItemClick], click'[c] = Idle,
         \A d \in Click \ {c} :
           /\ ClickAt(click'[d], Item)
           /\ click'[d].stage = click[d].stage /\ click'[d].form = click[d].form
           /\ click[d] = Idle => click'[d] = Idle,
         PageAt(page', Item),
         alone' => InSight(place) /\ OnlyOne(click, c) /\ PageNow(page', Item, {})
  PROVE  ItemKept'
<1>1. Item \in ItemState /\ OpensAlone(click)
  BY DEF ItemKept
<1>2. Item' = Item
  BY DEF Item
<1>3. \A d \in Click : ClickAt(click'[d], Item')
  BY <1>1, <1>2, IdleClick
<1>4. OpensAlone(click')
  <2>1. ASSUME NEW d \in Click \ {c} PROVE ~(click'[d].stage # "idle" /\ click'[d].form.verb = "open")
    BY <1>1, <2>1, IdleClick DEF OpensAlone, OnlyOne
  <2> QED
    BY <2>1, IdleClick DEF OpensAlone
<1>5. ASSUME alone' PROVE AloneAt(click', page', Item')
  <2>1. Still(click')
    BY <1>5 DEF OnlyOne, Still
  <2> QED
    BY <1>2, <1>5, <2>1, ItemFields DEF AloneAt
<1> QED
  BY <1>1, <1>2, <1>3, <1>4, <1>5 DEF ItemKept

\* A click of which nothing comes onto the page.
LEMMA ClickDropped ==
  ASSUME ItemKept, NEW c \in Click, click[c].stage # "idle",
         UNCHANGED <<place, mine, links, photos, age>>, click' = [click EXCEPT ![c] = Idle],
         PageAt(page', Item),
         alone' => InSight(place) /\ OnlyOne(click, c) /\ PageNow(page', Item, {})
  PROVE  ItemKept'
<1>1. click \in [Click -> ItemClick] /\ \A d \in Click : ClickAt(click[d], Item)
  BY DEF ItemKept
<1>2. click' \in [Click -> ItemClick] /\ click'[c] = Idle /\ \A d \in Click \ {c} : click'[d] = click[d]
  BY <1>1, IdleClick
<1> QED
  BY <1>1, <1>2, ClickEnds

LEMMA AloneClick ==
  ASSUME ItemKept, alone, NEW c \in Click, click[c].stage # "idle"
  PROVE  InSight(place) /\ OnlyOne(click, c) /\ AloneWith(click[c], page, Item)
<1>1. click[c] # Idle
  BY IdleClick
<1> QED
  BY <1>1, ItemFields DEF ItemKept, AloneAt, Still, OnlyOne

LEMMA SwapKept ==
  ASSUME ItemKept, NEW c \in Click, Swap(c)
  PROVE  ItemKept'
<1> DEFINE f == click[c].form
           name == Target(f)
           answer == click[c].answer
<1>1. /\ click[c].stage = "answered" /\ f.verb # "open"
      /\ UNCHANGED <<place, mine, links, photos, age, alone>>
  BY DEF Swap
<1>2. /\ Item \in ItemState /\ PageAt(page, Item) /\ page \in ItemPage /\ click \in [Click -> ItemClick]
      /\ \A d \in Click : ClickAt(click[d], Item)
      /\ click[c].outcome = "taken" => AnswerAt(f, answer, Item)
  BY <1>1 DEF ItemKept, ClickAt, PageAt
<1>3. CASE ~(click[c].outcome = "taken" /\ click[c].live)
  <2>1. click' = [click EXCEPT ![c] = Idle] /\ page' = page
    BY <1>3 DEF Swap
  <2>2. ASSUME alone PROVE InSight(place) /\ OnlyOne(click, c) /\ PageNow(page, Item, {})
    <3>1. InSight(place) /\ OnlyOne(click, c) /\ AloneWith(click[c], page, Item)
      BY <1>1, <2>2, AloneClick
    <3>2. click[c].outcome # "taken"
      BY <1>3, <3>1 DEF AloneWith
    <3> QED
      BY <3>1, <3>2 DEF AloneWith, Awaited
  <2> QED
    BY <1>1, <1>2, <2>1, <2>2, ClickDropped
<1>4. CASE click[c].outcome = "taken" /\ click[c].live
  <2>1. /\ Replacing(c, name)
        /\ page' = IF name = "detail" THEN answer ELSE [page EXCEPT ![name] = answer]
    BY <1>4 DEF Swap
  <2>2. name \in {"detail", "links", "photos"} /\ AnswerAt(f, answer, Item)
    BY <1>2, <1>4 DEF Target
  <2>3. ASSUME NEW d \in Click \ {c}
        PROVE  /\ click'[d] \in ItemClick /\ ClickAt(click'[d], Item)
               /\ click'[d].stage = click[d].stage /\ click'[d].form = click[d].form
               /\ click[d] = Idle => click'[d] = Idle
    <3>1. click'[d] = [click[d] EXCEPT !.live = @ /\ name # "detail" /\ Target(click[d].form) # name]
      BY <2>1, <2>3 DEF Replacing
    <3>2. click[d] \in ItemClick /\ ClickAt(click[d], Item)
      BY <1>2
    <3>3. CASE click[d].live /\ name # "detail" /\ Target(click[d].form) # name
      <4>1. click'[d] = [click[d] EXCEPT !.live = TRUE]
        <5>1. (click[d].live /\ name # "detail" /\ Target(click[d].form) # name) = TRUE
          BY <3>3
        <5> QED
          BY <3>1, <5>1
      <4>2. click'[d] = click[d]
        BY <3>2, <3>3, <4>1 DEF ItemClick
      <4> QED
        BY <3>2, <4>2
    <3>4. CASE ~(click[d].live /\ name # "detail" /\ Target(click[d].form) # name)
      <4>1. click'[d] = [click[d] EXCEPT !.live = FALSE]
        <5>1. (click[d].live /\ name # "detail" /\ Target(click[d].form) # name) = FALSE
          BY <3>4
        <5> QED
          BY <3>1, <5>1
      <4>2. /\ click'[d] \in ItemClick /\ click'[d].stage = click[d].stage /\ click'[d].form = click[d].form
            /\ click'[d].seen = click[d].seen
            /\ click'[d].outcome = click[d].outcome /\ click'[d].answer = click[d].answer
        BY <3>2, <4>1 DEF ItemClick
      <4>3. ClickAt(click'[d], Item)
        BY <3>2, <4>2 DEF ClickAt
      <4>4. click[d] = Idle => click'[d] = Idle
        <5>1. [Idle EXCEPT !.live = FALSE] = Idle
          BY IdleClick DEF ItemClick
        <5> QED
          BY <4>1, <5>1
      <4> QED
        BY <4>2, <4>3, <4>4
    <3> QED
      BY <3>3, <3>4
  <2>4. click'[c] = Idle /\ click' \in [Click -> ItemClick]
    <3>1. click'[c] = Idle
      BY <2>1 DEF Replacing
    <3>2. click' = [d \in Click |-> click'[d]]
      BY <2>1 DEF Replacing
    <3>3. \A d \in Click : click'[d] \in ItemClick
      BY <2>3, <3>1, IdleClick
    <3> QED
      BY <3>1, <3>2, <3>3
  <2>5. CASE name = "detail"
    <3>1. page' = answer /\ PageAt(answer, Item)
      BY <2>1, <2>2, <2>5 DEF AnswerAt
    <3>2. ASSUME alone PROVE InSight(place) /\ OnlyOne(click, c) /\ PageNow(answer, Item, {})
      BY <1>1, <1>4, <2>5, <3>2, AloneClick DEF AloneWith, AnswerNow
    <3> QED
      BY <1>1, <2>3, <2>4, <3>1, <3>2, ClickEnds
  <2>6. CASE name = "links"
    <3>1. page' = [page EXCEPT !.links = answer] /\ answer \in Section(SUBSET LinkId)
          /\ PartAt(answer, SUBSET LinkId, links, Item)
      BY <1>2, <2>1, <2>2, <2>6, ItemFields DEF AnswerAt, ItemPage
    <3>2. /\ page' \in ItemPage /\ page'.links = answer /\ page'.detail = page.detail
          /\ page'.photos = page.photos /\ page'.history = page.history
      BY <1>2, <3>1 DEF ItemPage
    <3>3. PageAt(page', Item)
      BY <1>2, <3>1, <3>2, ItemFields DEF PageAt
    <3>4. ASSUME alone PROVE InSight(place) /\ OnlyOne(click, c) /\ PageNow(page', Item, {})
      <4>1. InSight(place) /\ OnlyOne(click, c) /\ AloneWith(click[c], page, Item)
        BY <1>1, <3>4, AloneClick
      <4>2. Awaited(click[c]) = {"links"} /\ answer.what = Item.links
        BY <1>1, <1>4, <2>6, <4>1 DEF AloneWith, Awaited, AnswerNow
      <4> QED
        BY <3>2, <4>1, <4>2 DEF AloneWith, PageNow
    <3> QED
      BY <1>1, <2>3, <2>4, <3>3, <3>4, ClickEnds
  <2>7. CASE name = "photos"
    <3>1. page' = [page EXCEPT !.photos = answer] /\ answer \in Section(PhotoView)
          /\ PartAt(answer, PhotoView, View(photos), Item)
      BY <1>2, <2>1, <2>2, <2>7, ItemFields DEF AnswerAt, ItemPage
    <3>2. /\ page' \in ItemPage /\ page'.photos = answer /\ page'.detail = page.detail
          /\ page'.links = page.links /\ page'.history = page.history
      BY <1>2, <3>1 DEF ItemPage
    <3>3. PageAt(page', Item)
      BY <1>2, <3>1, <3>2, ItemFields DEF PageAt
    <3>4. ASSUME alone PROVE InSight(place) /\ OnlyOne(click, c) /\ PageNow(page', Item, {})
      <4>1. InSight(place) /\ OnlyOne(click, c) /\ AloneWith(click[c], page, Item)
        BY <1>1, <3>4, AloneClick
      <4>2. Awaited(click[c]) = {"photos"} /\ answer.what = View(Item.photos)
        BY <1>1, <1>4, <2>7, <4>1 DEF AloneWith, Awaited, AnswerNow
      <4> QED
        BY <3>2, <4>1, <4>2 DEF AloneWith, PageNow
    <3> QED
      BY <1>1, <2>3, <2>4, <3>3, <3>4, ClickEnds
  <2> QED
    BY <2>2, <2>5, <2>6, <2>7
<1> QED
  BY <1>3, <1>4

\* A page that was read while nothing changed is current, in all its sections.
LEMMA NavigateKept ==
  ASSUME ItemKept, NEW c \in Click, Navigate(c)
  PROVE  ItemKept'
<1> DEFINE answer == click[c].answer
<1>1. /\ click[c].stage = "answered" /\ click[c].form.verb = "open"
      /\ click' = [click EXCEPT ![c] = Idle]
      /\ page' = (IF click[c].outcome = "taken" THEN answer ELSE Blank)
      /\ alone' = (click[c].outcome = "taken" /\ answer.detail.age = age)
      /\ UNCHANGED <<place, mine, links, photos, age>>
  BY DEF Navigate
<1>2. Item \in ItemState /\ OnlyOne(click, c) /\ ClickAt(click[c], Item)
  BY <1>1 DEF ItemKept, OpensAlone
<1>3. CASE click[c].outcome = "taken"
  <2>1. Target(click[c].form) = "detail"
    BY <1>1 DEF Target
  <2>2. /\ PageAt(answer, Item) /\ answer.photos = Stub /\ answer.history = Stub
        /\ OnPage(answer.detail) /\ answer.links.age >= answer.detail.age
    BY <1>1, <1>2, <1>3, <2>1 DEF ClickAt, AnswerAt
  <2>3. ASSUME answer.detail.age = age
        PROVE  InSight(place) /\ PageNow(answer, Item, {})
    <3>1. InSight(place) /\ DetailTrue(answer.detail.what, Item)
      BY <2>2, <2>3, ItemFields DEF PageAt, DetailAt
    <3>2. ~OnPage(Stub)
      BY DEF OnPage, Stub, Absent
    <3>3. answer.links.age \in Nat /\ age \in Nat
      BY <1>2, <2>2, ItemFields DEF PageAt, ItemPage, Section, ItemState
    <3>4. OnPage(answer.links) => answer.links.what = links
      BY <2>2, <2>3, <3>3, ItemFields DEF PageAt, PartAt
    <3> QED
      BY <2>2, <3>1, <3>2, <3>4, ItemFields DEF PageNow
  <2> QED
    BY <1>1, <1>2, <1>3, <2>2, <2>3, ClickDropped
<1>4. CASE click[c].outcome # "taken"
  <2>1. page' = Blank /\ ~alone'
    BY <1>1, <1>4
  <2>2. PageAt(Blank, Item)
    BY <1>2, BlankIsTrue
  <2> QED
    BY <1>1, <2>1, <2>2, ClickDropped
<1> QED
  BY <1>3, <1>4

-----------------------------------------------------------------------------
(* Sections that load themselves, and what others do.                      *)

\* Only the screen changes, and says nothing false.
LEMMA SectionsKept ==
  ASSUME ItemKept, UNCHANGED <<place, mine, links, photos, age, click, alone>>,
         PageAt(page', Item),
         \A but : PageNow(page, Item, but) => PageNow(page', Item, but)
  PROVE  ItemKept'
<1>1. /\ Item \in ItemState /\ click \in [Click -> ItemClick] /\ \A c \in Click : ClickAt(click[c], Item)
      /\ OpensAlone(click) /\ (alone => AloneAt(click, page, Item))
  BY DEF ItemKept
<1>2. Item' = Item
  BY DEF Item
<1>3. ASSUME NEW k, AloneWith(k, page, Item) PROVE AloneWith(k, page', Item)
  BY <1>3 DEF AloneWith
<1>4. AloneAt(click, page, Item) => AloneAt(click, page', Item)
  BY <1>3 DEF AloneAt
<1> QED
  BY <1>1, <1>2, <1>4 DEF ItemKept

LEMMA LoadKept ==
  ASSUME ItemKept, NEW name \in {"photos", "history"}, Load(name)
  PROVE  ItemKept'
<1> DEFINE what == IF name = "photos" THEN View(photos) ELSE place
           Loading == [Shown(age, what) EXCEPT !.state = "answered"]
<1>1. Item \in ItemState /\ PageAt(page, Item) /\ page \in ItemPage
  BY DEF ItemKept, PageAt
<1>2. age \in Nat /\ View(photos) \in PhotoView /\ place \in Whereabouts
  BY <1>1, ItemFields, PhotosKept DEF ItemState
<1>3. UNCHANGED <<place, mine, links, photos, age, click, alone>>
  BY DEF Load
<1>4. PICK s : s = IF ~Visible THEN Absent ELSE Loading
  OBVIOUS
<1>5. page' = [page EXCEPT ![name] = s]
  BY <1>4 DEF Load
<1>6. /\ s.state \in {"absent", "answered"} /\ s.age \in Nat
      /\ OnPage(s) => InSight(place) /\ s.age = age /\ s.what = what
  BY <1>2, <1>4 DEF Absent, Shown, OnPage, Visible, InSight
<1>7. name = "photos" => s \in Section(PhotoView)
  BY <1>2, <1>4 DEF Absent, Shown, Section
<1>8. name = "history" => s \in Section(Whereabouts)
  BY <1>2, <1>4 DEF Absent, Shown, Section
<1>9. page.detail.age \in Nat /\ page.detail.age <= age
  BY <1>1, ItemFields DEF PageAt, DetailAt, ItemPage, Section
<1> HIDE DEF what, Loading
<1>10. CASE name = "photos"
  <2>1. page' = [page EXCEPT !.photos = s] /\ s \in Section(PhotoView) /\ (OnPage(s) => s.what = View(photos))
    BY <1>5, <1>6, <1>7, <1>10 DEF what
  <2>2. /\ page' \in ItemPage /\ page'.photos = s /\ page'.detail = page.detail
        /\ page'.links = page.links /\ page'.history = page.history
    BY <1>1, <2>1 DEF ItemPage
  <2>3. PageAt(page', Item)
    BY <1>1, <1>2, <1>6, <2>1, <2>2, ItemFields DEF PageAt, PartAt
  <2>4. \A but : PageNow(page, Item, but) => PageNow(page', Item, but)
    BY <2>1, <2>2, ItemFields DEF PageNow
  <2> QED
    BY <1>3, <2>3, <2>4, SectionsKept
<1>11. CASE name = "history"
  <2>1. page' = [page EXCEPT !.history = s] /\ s \in Section(Whereabouts) /\ (OnPage(s) => s.what = place)
    BY <1>5, <1>6, <1>8, <1>11 DEF what
  <2>2. /\ page' \in ItemPage /\ page'.history = s /\ page'.detail = page.detail
        /\ page'.links = page.links /\ page'.photos = page.photos
    BY <1>1, <2>1 DEF ItemPage
  <2>3. PageAt(page', Item)
    BY <1>1, <1>2, <1>6, <1>9, <2>1, <2>2, ItemFields DEF PageAt, PartAt
  <2>4. \A but : PageNow(page, Item, but) => PageNow(page', Item, but)
    BY <2>1, <2>2, ItemFields DEF PageNow
  <2> QED
    BY <1>3, <2>3, <2>4, SectionsKept
<1> QED
  BY <1>10, <1>11

LEMMA LoadFailsKept ==
  ASSUME ItemKept, NEW name \in {"photos", "history"}, LoadFails(name)
  PROVE  ItemKept'
<1>1. Item \in ItemState /\ PageAt(page, Item) /\ page \in ItemPage
  BY DEF ItemKept, PageAt
<1>2. UNCHANGED <<place, mine, links, photos, age, click, alone>> /\ page' = [page EXCEPT ![name] = Absent]
  BY DEF LoadFails
<1>3. \A W : Absent \in Section(W)
  BY DEF Absent, Section
<1>4. ~OnPage(Absent)
  BY DEF Absent, OnPage
<1>5. CASE name = "photos"
  <2>1. /\ page' \in ItemPage /\ page'.photos = Absent /\ page'.detail = page.detail
        /\ page'.links = page.links /\ page'.history = page.history
    BY <1>1, <1>2, <1>3, <1>5 DEF ItemPage
  <2>2. PageAt(page', Item) /\ \A but : PageNow(page, Item, but) => PageNow(page', Item, but)
    BY <1>1, <1>4, <2>1 DEF PageAt, PartAt, PageNow
  <2> QED
    BY <1>2, <2>2, SectionsKept
<1>6. CASE name = "history"
  <2>1. /\ page' \in ItemPage /\ page'.history = Absent /\ page'.detail = page.detail
        /\ page'.links = page.links /\ page'.photos = page.photos
    BY <1>1, <1>2, <1>3, <1>6 DEF ItemPage
  <2>2. PageAt(page', Item) /\ \A but : PageNow(page, Item, but) => PageNow(page', Item, but)
    BY <1>1, <1>4, <2>1 DEF PageAt, PartAt, PageNow
  <2> QED
    BY <1>2, <2>2, SectionsKept
<1> QED
  BY <1>5, <1>6

LEMMA ShowLoadedKept ==
  ASSUME ItemKept, NEW name \in {"photos", "history"}, ShowLoaded(name)
  PROVE  ItemKept'
<1>1. Item \in ItemState /\ PageAt(page, Item) /\ page \in ItemPage
  BY DEF ItemKept, PageAt
<1>2. UNCHANGED <<place, mine, links, photos, age, click, alone>> /\ page[name].state = "answered"
  BY DEF ShowLoaded
<1>3. CASE name = "photos"
  <2>1. PICK s : s = [page.photos EXCEPT !.state = "shown"]
    OBVIOUS
  <2>2. page' = [page EXCEPT !.photos = s]
    BY <1>3, <2>1 DEF ShowLoaded
  <2>3. /\ s \in Section(PhotoView) /\ s.age = page.photos.age /\ s.what = page.photos.what
        /\ OnPage(page.photos)
    BY <1>1, <1>2, <1>3, <2>1 DEF ItemPage, Section, OnPage
  <2>4. /\ page' \in ItemPage /\ page'.photos = s /\ page'.detail = page.detail
        /\ page'.links = page.links /\ page'.history = page.history
    BY <1>1, <2>2, <2>3 DEF ItemPage
  <2>5. PageAt(page', Item)
    BY <1>1, <2>3, <2>4 DEF PageAt, PartAt
  <2>6. \A but : PageNow(page, Item, but) => PageNow(page', Item, but)
    BY <2>3, <2>4 DEF PageNow
  <2> QED
    BY <1>2, <2>5, <2>6, SectionsKept
<1>4. CASE name = "history"
  <2>1. PICK s : s = [page.history EXCEPT !.state = "shown"]
    OBVIOUS
  <2>2. page' = [page EXCEPT !.history = s]
    BY <1>4, <2>1 DEF ShowLoaded
  <2>3. /\ s \in Section(Whereabouts) /\ s.age = page.history.age /\ s.what = page.history.what
        /\ OnPage(page.history)
    BY <1>1, <1>2, <1>4, <2>1 DEF ItemPage, Section, OnPage
  <2>4. /\ page' \in ItemPage /\ page'.history = s /\ page'.detail = page.detail
        /\ page'.links = page.links /\ page'.photos = page.photos
    BY <1>1, <2>2, <2>3 DEF ItemPage
  <2>5. PageAt(page', Item)
    BY <1>1, <2>3, <2>4 DEF PageAt, PartAt
  <2>6. \A but : PageNow(page, Item, but) => PageNow(page', Item, but)
    BY <2>3, <2>4 DEF PageNow
  <2> QED
    BY <1>2, <2>5, <2>6, SectionsKept
<1> QED
  BY <1>3, <1>4

LEMMA ElsewhereItemKept ==
  ASSUME ItemKept, Elsewhere
  PROVE  ItemKept'
<1>1. /\ Item \in ItemState /\ PageAt(page, Item) /\ click \in [Click -> ItemClick]
      /\ \A c \in Click : ClickAt(click[c], Item)
      /\ OpensAlone(click)
  BY DEF ItemKept
<1>2. Item' \in ItemState /\ Moves(Item, Item')
  BY <1>1, OthersWork DEF Moves
<1>3. UNCHANGED <<page, click>> /\ alone' = FALSE
  BY DEF Elsewhere
<1>4. PageAt(page, Item')
  BY <1>1, <1>2, PagesGetOlder
<1>5. \A c \in Click : ClickAt(click[c], Item')
  BY <1>1, <1>2, ClicksGetOlder
<1> QED
  BY <1>1, <1>2, <1>3, <1>4, <1>5 DEF ItemKept

LEMMA ItemStays == ItemKept /\ [LaneNext]_laneVars => ItemKept'
<1> SUFFICES ASSUME ItemKept, [LaneNext]_laneVars PROVE ItemKept'
  OBVIOUS
<1>1. CASE UNCHANGED vars
  <2>1. UNCHANGED <<place, mine, links, photos, age, click, alone, page>>
    BY <1>1 DEF vars
  <2>2. PageAt(page', Item)
    BY <2>1 DEF ItemKept
  <2> QED
    BY <2>1, <2>2, SectionsKept
<1>2. CASE Next
  <2>1. CASE \E c \in Click : \E name \in {"detail", "links", "photos"} : Submit(c, name)
    BY <2>1, SubmitKept
  <2>2. CASE \E c \in Click :
               \/ Open(c) \/ Act(c) \/ CutOff(c) \/ ReadFails(c) \/ Swap(c) \/ Navigate(c)
               \/ ReadSection(c) \/ ReadItem(c) \/ ReadLinks(c) \/ ReadRequest(c)
    BY <2>2, OpenKept, ActItemKept, CutOffKept, ReadFailsKept, SwapKept, NavigateKept,
       ReadSectionKept, ReadItemKept, ReadLinksKept, ReadRequestKept
  <2>3. CASE \E name \in {"photos", "history"} : Load(name) \/ LoadFails(name) \/ ShowLoaded(name)
    BY <2>3, LoadKept, LoadFailsKept, ShowLoadedKept
  <2> QED
    BY <1>2, <2>1, <2>2, <2>3, ElsewhereItemKept DEF Next
<1> QED
  BY <1>1, <1>2 DEF LaneNext, laneVars

\* The inductive invariant of the item's page: each section carries the age of
\* the item it was read of, and where the item is no older it tells the truth;
\* a form that was sent from such a section is one that the services take, if
\* it does not need photos without gaps; and to a member who is alone the page
\* says what is so, but for the sections that an answer is to bring, and for
\* photos that have gaps.
THEOREM ItemPagesKeep == LaneSpec => []ItemKept
<1>1. LaneInit => ItemKept
  BY ItemStart
<1>2. ItemKept /\ [LaneNext]_laneVars => ItemKept'
  BY ItemStays
<1> QED
  BY <1>1, <1>2, PTL DEF LaneSpec, laneVars

\* A click that is sent stays so until its handler works, or is cut off.
LEMMA SentClicks ==
  ASSUME ItemKept, Next, NEW c \in Click, click[c].stage = "sent", click'[c].stage # "sent"
  PROVE  Act(c) \/ CutOff(c)
<1>1. click \in [Click -> ItemClick] /\ click[c] # Idle
  BY IdleClick DEF ItemKept
<1>2. click' # click
  OBVIOUS
<1>3. PICK d \in Click :
        \/ Open(d) \/ Act(d) \/ CutOff(d) \/ ReadFails(d) \/ Swap(d) \/ Navigate(d)
        \/ ReadSection(d) \/ ReadItem(d) \/ ReadLinks(d) \/ ReadRequest(d)
        \/ \E name \in {"detail", "links", "photos"} : Submit(d, name)
  BY <1>2 DEF Next, Elsewhere, Load, LoadFails, ShowLoaded
<1>4. CASE \E f, seen : Send(d, f, seen)
  BY <1>1, <1>4 DEF Send
<1>5. CASE \/ ReadFails(d) \/ Navigate(d) \/ ReadSection(d) \/ ReadItem(d) \/ ReadLinks(d) \/ ReadRequest(d)
  <2>1. d # c
    BY <1>5 DEF ReadFails, Navigate, ReadSection, ReadItem, ReadLinks, ReadRequest
  <2>2. click'[c] = click[c]
    BY <1>1, <1>5, <2>1 DEF ReadFails, Navigate, ReadSection, ReadItem, ReadLinks, ReadRequest, Answered
  <2> QED
    BY <2>2
<1>6. CASE Swap(d)
  <2>1. d # c
    BY <1>6 DEF Swap
  <2>2. click'[c].stage = click[c].stage
    <3>1. CASE Replacing(d, Target(click[d].form))
      <4>1. click'[c] = [click[c] EXCEPT !.live = @ /\ Target(click[d].form) # "detail"
                                                    /\ Target(click[c].form) # Target(click[d].form)]
        BY <2>1, <3>1 DEF Replacing
      <4> QED
        BY <1>1, <4>1 DEF ItemClick
    <3>2. CASE click' = [click EXCEPT ![d] = Idle]
      BY <1>1, <2>1, <3>2
    <3> QED
      BY <1>6, <3>1, <3>2 DEF Swap
  <2> QED
    BY <2>2
<1>7. CASE Act(d) \/ CutOff(d)
  <2>1. d = c \/ click'[c] = click[c]
    BY <1>1, <1>7 DEF Act, CutOff
  <2> QED
    BY <1>7, <2>1
<1> QED
  BY <1>3, <1>4, <1>5, <1>6, <1>7 DEF Open, Submit

\* The templates offer what the services take: a click on a form of a section
\* that is still true is never refused, unless its photos have gaps between
\* them (ItemDetail, ItemLinksSection, PhotoGallerySection, the services behind
\* them, and the unique positions of item_photos).
THEOREM CalmClicksAreTaken == LaneSpec => CalmClickIsTaken
<1> DEFINE Obeyed ==
      \A c \in Click : Calm(c) /\ click'[c].stage # "sent" => click'[c].outcome \in {"taken", "failed"}
<1>1. ASSUME ItemKept, [LaneNext]_laneVars, NEW c \in Click, Calm(c), click'[c].stage # "sent"
      PROVE  click'[c].outcome \in {"taken", "failed"}
  <2>1. click[c].stage = "sent" /\ click[c].seen = age
    BY <1>1 DEF Calm
  <2>2. Next
    <3>1. ~UNCHANGED vars
      BY <1>1, <2>1 DEF vars
    <3> QED
      BY <1>1, <3>1 DEF LaneNext, laneVars
  <2>3. click \in [Click -> ItemClick] /\ ClickAt(click[c], Item) /\ click[c].form \in ItemForm
    BY <1>1, <2>1 DEF ItemKept, ClickAt, FormSound
  <2>4. CASE Act(c)
    <3>1. Promised(click[c].form, Item)
      BY <1>1, ItemFields DEF Calm, Promised
    <3>2. InSight(place) /\ Takes(click[c].form, Item)
      BY <2>1, <2>3, <3>1, ItemFields DEF ClickAt
    <3>3. Outcome(click[c].form) = "taken"
      BY <2>3, <3>2, AcceptsIsTakes DEF Outcome, Visible, InSight
    <3> QED
      BY <2>3, <2>4, <3>3 DEF Act, ItemClick
  <2>5. CASE CutOff(c)
    BY <2>3, <2>5 DEF CutOff, ItemClick
  <2> QED
    BY <1>1, <2>1, <2>2, <2>4, <2>5, SentClicks
<1>2. ItemKept /\ [LaneNext]_laneVars => [Obeyed]_vars
  BY <1>1
<1>3. LaneSpec => [][Obeyed]_vars
  BY <1>2, ItemPagesKeep, PTL DEF LaneSpec, laneVars
<1> QED
  BY <1>3, PTL DEF CalmClickIsTaken

\* The history that a member reads is not older than the placement above it
\* (ItemHistoryStub comes again with every detail).
THEOREM HistoriesAreNotBehind == LaneSpec => []HistoryNotBehind
<1>1. ItemKept => HistoryNotBehind
  BY DEF ItemKept, HistoryNotBehind, PageAt, OnPage
<1> QED
  BY <1>1, ItemPagesKeep, PTL

\* One who is alone with an item, and does one thing at a time, sees it as it
\* is: no fragment that an answer leaves standing is out of date.  Of photos
\* that have gaps between them nothing of the kind holds: a move can stop half-way.
THEOREM OwnItemPagesAreCurrent == LaneSpec => []OwnPageIsCurrent
<1>1. ASSUME ItemKept, alone, Quiet, Loaded
      PROVE  /\ page.detail.what.place = place
             /\ place \notin Bin => page.detail.what.mine = mine
             /\ page.links.what = links /\ (Dense(photos.at) => page.photos.what = View(photos))
             /\ page.history.what = place
  <2>1. AloneAt(click, page, Item) /\ page \in ItemPage
    BY <1>1 DEF ItemKept, PageAt
  <2>2. PageNow(page, Item, {})
    <3>1. \A c \in Click : ~OnlyOne(click, c)
      BY <1>1, IdleClick DEF Quiet, OnlyOne
    <3> QED
      BY <2>1, <3>1 DEF AloneAt
  <2>3. DOMAIN page = SectionName
    BY <2>1 DEF ItemPage, SectionName
  <2>4. \A name \in SectionName : page[name].state = "shown"
    BY <1>1, <2>3 DEF Loaded
  <2>5. OnPage(page.detail) /\ OnPage(page.links) /\ OnPage(page.photos) /\ OnPage(page.history)
    BY <2>4 DEF OnPage, SectionName
  <2> QED
    BY <2>2, <2>5, ItemFields DEF PageNow, DetailTrue
<1>2. ItemKept => OwnPageIsCurrent
  BY <1>1 DEF OwnPageIsCurrent
<1> QED
  BY <1>2, ItemPagesKeep, PTL

-----------------------------------------------------------------------------
(* The notifications: types, and what a page of them shows.                *)

NoticeRow == [channel : {"in_app", "email"}, read : BOOLEAN]
NoticeForm ==
  [page : {"inbox"}, of : 1..MaxRows, on : {TRUE}] \cup [page : {"settings"}, of : Kind, on : BOOLEAN]
NoticeTask == [stage : {"idle", "sent", "acted", "answered"}, form : NoticeForm \cup {None},
               live : BOOLEAN, answer : NoticeView \cup {None}]
BellView == [state : {"stub", "asked", "answered", "shown"}, count : Nat]

RowsStored == row \in Seq(NoticeRow) /\ Len(row) <= MaxRows /\ email \in [Kind -> BOOLEAN]

NoticesSound ==
  /\ RowsStored
  /\ inbox \in NoticeView /\ bell \in BellView /\ calm \in BOOLEAN
  /\ request \in [Click -> NoticeTask]
  /\ \A c \in Click : request[c].stage # "idle" => request[c].form \in NoticeForm

\* What a form asks for is what is stored.
IsStored(f) ==
  /\ f.page = "inbox" => row[f.of].read = f.on
  /\ f.page = "settings" => email[f.of] = f.on

\* The one request that is under way, of a member who does one thing at a time.
UnderWay(c) ==
  /\ request[c].live /\ request[c].stage # "idle"
  /\ request[c].form.page = "inbox" => request[c].form.of \in Notices!Listed
  /\ request[c].stage \in {"acted", "answered"} => IsStored(request[c].form)
  /\ request[c].answer =
       IF request[c].stage = "answered" THEN Notices!View(request[c].form.page) ELSE None
  /\ \A d \in Click : d # c => request[d] = Notices!Idle

BellNotLow ==
  bell.state \in {"answered", "shown"} =>
    Notices!UnreadCount <= bell.count /\ bell.count <= Len(row)

PageCurrent == Notices!Quiet /\ inbox = Notices!View(inbox.name)

CalmIsTrue ==
  /\ inbox.name \in {"inbox", "settings"}
  /\ inbox.name = "inbox" => DOMAIN inbox.shown = Notices!Listed
  /\ BellNotLow
  /\ PageCurrent \/ \E c \in Click : UnderWay(c)

NoticesKept == NoticesSound /\ (calm => CalmIsTrue)

\* The Cardinality that Inbox takes from FiniteSets.
LEMMA SameCardinality == \A S : Notices!Cardinality(S) = Cardinality(S)
BY DEF Notices!Cardinality, Cardinality

LEMMA ListSound ==
  ASSUME RowsStored
  PROVE  /\ DOMAIN row = 1..Len(row) /\ Len(row) \in Nat
         /\ Notices!Listed \subseteq 1..Len(row)
         /\ IsFiniteSet(1..Len(row)) /\ Cardinality(1..Len(row)) = Len(row)
         /\ Notices!UnreadCount \in Nat /\ Notices!UnreadCount <= Len(row)
<1>1. DOMAIN row = 1..Len(row) /\ Len(row) \in Nat
  BY DEF RowsStored
<1>2. Notices!Listed \subseteq 1..Len(row)
  BY <1>1 DEF Notices!Listed
<1>3. IsFiniteSet(1..Len(row)) /\ Cardinality(1..Len(row)) = Len(row)
  <2>1. /\ IsFiniteSet(1..Len(row))
        /\ Cardinality(1..Len(row)) = IF 1 > Len(row) THEN 0 ELSE Len(row) - 1 + 1
    <3>1. 1 \in Int /\ Len(row) \in Int
      BY <1>1
    <3> QED
      BY <3>1, FS_Interval, Zenon
  <2> QED
    BY <1>1, <2>1
<1>4. {i \in DOMAIN row : ~row[i].read} \in SUBSET (1..Len(row))
  BY <1>1
<1>5. Notices!UnreadCount \in Nat /\ Notices!UnreadCount <= Len(row)
  <2> DEFINE unread == {i \in DOMAIN row : ~row[i].read}
  <2>1. IsFiniteSet(unread) /\ Cardinality(unread) <= Cardinality(1..Len(row))
    BY <1>3, <1>4, FS_Subset
  <2>2. Cardinality(unread) \in Nat
    BY <2>1, FS_CardinalityType
  <2>3. Notices!UnreadCount = Cardinality(unread)
    BY SameCardinality DEF Notices!UnreadCount
  <2> HIDE DEF unread
  <2> QED
    BY <1>3, <2>1, <2>2, <2>3
<1> QED
  BY <1>1, <1>2, <1>3, <1>5

LEMMA ViewSound ==
  ASSUME RowsStored, NEW name \in {"inbox", "settings"}
  PROVE  /\ Notices!View(name) \in NoticeView /\ Notices!View(name) # None
         /\ Notices!View(name).name = name
         /\ name = "inbox" =>
              /\ DOMAIN Notices!View(name).shown = Notices!Listed
              /\ \A i \in Notices!Listed : Notices!View(name).shown[i] = row[i].read
         /\ name = "settings" => Notices!View(name).shown = email
<1>1. DOMAIN row = 1..Len(row) /\ Len(row) \in Nat /\ Notices!Listed \subseteq 1..Len(row)
  BY ListSound
<1>2. MaxRows \in Nat /\ Len(row) <= MaxRows /\ Notices!Listed \in SUBSET (1..MaxRows)
  BY <1>1, ScreensAssumption DEF RowsStored
<1>3. \A i \in Notices!Listed : row[i].read \in BOOLEAN
  <2>1. \A i \in 1..Len(row) : row[i] \in NoticeRow
    BY <1>1 DEF RowsStored
  <2> QED
    BY <1>1, <2>1 DEF NoticeRow
<1>4. Notices!InboxView \in [Notices!Listed -> BOOLEAN]
  BY <1>3 DEF Notices!InboxView
<1>5. Notices!InboxView \in InboxShown
  BY <1>2, <1>4 DEF InboxShown
<1>6. Notices!View(name) = [name |-> name, shown |-> IF name = "inbox" THEN Notices!InboxView ELSE email]
  BY DEF Notices!View
<1>7. Notices!View(name) \in NoticeView
  BY <1>5, <1>6 DEF NoticeView, RowsStored
<1> QED
  BY <1>4, <1>6, <1>7, ScreensAssumption DEF Notices!InboxView

LEMMA IdleNotice ==
  /\ Notices!Idle \in NoticeTask /\ Notices!Idle.stage = "idle" /\ Notices!Idle.live = FALSE
  /\ Notices!Idle.answer = None
BY DEF Notices!Idle, NoticeTask

LEMMA NoticesStart == LaneInit => NoticesKept
<1> SUFFICES ASSUME LaneInit PROVE NoticesKept
  OBVIOUS
<1>1. /\ row = <<>> /\ email = [k \in Kind |-> FALSE] /\ inbox = Notices!Nowhere
      /\ bell = Notices!Stub("stub") /\ request = [c \in Click |-> Notices!Idle] /\ calm = FALSE
  BY DEF LaneInit, Notices!Init
<1>2. RowsStored
  BY <1>1, ScreensAssumption DEF RowsStored
<1>3. inbox \in NoticeView /\ bell \in BellView
  BY <1>1 DEF Notices!Nowhere, Notices!Stub, NoticeView, BellView
<1> QED
  BY <1>1, <1>2, <1>3, IdleNotice DEF NoticesKept, NoticesSound

-----------------------------------------------------------------------------
(* What arrives, and what is opened.                                       *)

\* While the rows stay, so does what a page would show.
LEMMA SameRows ==
  ASSUME UNCHANGED <<row, email>>
  PROVE  /\ Notices!Listed' = Notices!Listed /\ Notices!UnreadCount' = Notices!UnreadCount
         /\ \A name : Notices!View(name)' = Notices!View(name)
         /\ RowsStored' = RowsStored
         /\ \A f : IsStored(f)' = IsStored(f)
BY DEF Notices!Listed, Notices!UnreadCount, Notices!View, Notices!InboxView, RowsStored, IsStored

LEMMA EnqueueKept ==
  ASSUME NoticesKept, NEW channel \in {"in_app", "email"}, Notices!Enqueue(channel)
  PROVE  NoticesKept'
<1>1. /\ Len(row) < MaxRows /\ row' = Append(row, [channel |-> channel, read |-> FALSE])
      /\ calm' = FALSE /\ UNCHANGED <<email, inbox, bell, request>>
  BY DEF Notices!Enqueue
<1>2. [channel |-> channel, read |-> FALSE] \in NoticeRow
  BY DEF NoticeRow
<1>3. row \in Seq(NoticeRow) /\ MaxRows \in Nat
  BY ScreensAssumption DEF NoticesKept, NoticesSound, RowsStored
<1>4. row' \in Seq(NoticeRow) /\ Len(row') = Len(row) + 1 /\ Len(row) \in Nat
  BY <1>1, <1>2, <1>3
<1>5. RowsStored'
  BY <1>1, <1>3, <1>4 DEF NoticesKept, NoticesSound, RowsStored
<1> QED
  BY <1>1, <1>5 DEF NoticesKept, NoticesSound

LEMMA OpenNoticesKept ==
  ASSUME NoticesKept, NEW name \in {"inbox", "settings"}, Notices!Open(name)
  PROVE  NoticesKept'
<1>1. /\ Notices!Quiet /\ inbox' = Notices!View(name) /\ bell' = Notices!Stub("asked")
      /\ calm' = TRUE /\ UNCHANGED <<row, email, request>>
  BY DEF Notices!Open
<1>2. NoticesSound /\ RowsStored
  BY DEF NoticesKept, NoticesSound
<1>3. bell' \in BellView /\ bell'.state = "asked"
  BY <1>1 DEF Notices!Stub, BellView
<1>4. /\ inbox' \in NoticeView /\ inbox'.name = name
      /\ name = "inbox" => DOMAIN inbox'.shown = Notices!Listed
  BY <1>1, <1>2, ViewSound
<1>5. NoticesSound'
  BY <1>1, <1>2, <1>3, <1>4, SameRows DEF NoticesSound
<1>6. PageCurrent'
  <2>1. Notices!Quiet'
    BY <1>1 DEF Notices!Quiet
  <2>2. inbox' = Notices!View(inbox.name)'
    <3>1. Notices!View(name)' = Notices!View(name)
      BY <1>1 DEF Notices!View, Notices!InboxView, Notices!Listed
    <3> QED
      BY <1>1, <1>4, <3>1
  <2> QED
    BY <2>1, <2>2 DEF PageCurrent
<1>7. Notices!Listed' = Notices!Listed
  BY <1>1, SameRows
<1>8. CalmIsTrue'
  BY <1>3, <1>4, <1>6, <1>7 DEF CalmIsTrue, BellNotLow
<1> QED
  BY <1>5, <1>8 DEF NoticesKept

\* Only the bell changes.
LEMMA BellKept ==
  ASSUME NoticesKept, UNCHANGED <<row, email, inbox, request, calm>>, bell' \in BellView,
         calm => BellNotLow'
  PROVE  NoticesKept'
<1>1. NoticesSound'
  BY SameRows DEF NoticesKept, NoticesSound
<1>2. UNCHANGED <<Notices!Listed, PageCurrent>>
  BY DEF Notices!Listed, PageCurrent, Notices!Quiet, Notices!View, Notices!InboxView
<1>3. \A c \in Click : UnderWay(c)' = UnderWay(c)
  BY DEF UnderWay, Notices!Listed, IsStored, Notices!View, Notices!InboxView
<1> QED
  BY <1>1, <1>2, <1>3 DEF NoticesKept, CalmIsTrue

LEMMA BadgeKept ==
  ASSUME NoticesKept, Notices!Badge \/ Notices!ShowBadge
  PROVE  NoticesKept'
<1>1. UNCHANGED <<row, email, inbox, request, calm>>
  BY DEF Notices!Badge, Notices!ShowBadge
<1>2. RowsStored /\ bell \in BellView /\ (calm => BellNotLow)
  BY DEF NoticesKept, NoticesSound, CalmIsTrue
<1>3. Notices!UnreadCount' = Notices!UnreadCount
  BY <1>1, SameRows
<1>4. CASE Notices!Badge
  <2>1. CASE bell' = Notices!Count("answered")
    <3>1. bell' = [state |-> "answered", count |-> Notices!UnreadCount]
      BY <2>1 DEF Notices!Count
    <3>2. Notices!UnreadCount \in Nat /\ Notices!UnreadCount <= Len(row)
      BY <1>2, ListSound
    <3>3. bell' \in BellView /\ BellNotLow'
      BY <1>1, <1>3, <3>1, <3>2 DEF BellView, BellNotLow
    <3> QED
      BY <1>1, <3>3, BellKept
  <2>2. CASE bell' = Notices!Stub("stub")
    <3>1. bell' \in BellView /\ bell'.state = "stub"
      BY <2>2 DEF Notices!Stub, BellView
    <3>2. BellNotLow'
      BY <3>1 DEF BellNotLow
    <3> QED
      BY <1>1, <3>1, <3>2, BellKept
  <2> QED
    BY <1>4, <2>1, <2>2 DEF Notices!Badge
<1>5. CASE Notices!ShowBadge
  <2>1. bell.state = "answered" /\ bell' = [bell EXCEPT !.state = "shown"]
    BY <1>5 DEF Notices!ShowBadge
  <2>2. bell' \in BellView /\ bell'.count = bell.count
    BY <1>2, <2>1 DEF BellView
  <2>3. calm => BellNotLow'
    BY <1>1, <1>2, <1>3, <2>1, <2>2 DEF BellNotLow
  <2> QED
    BY <1>1, <2>2, <2>3, BellKept
<1> QED
  BY <1>4, <1>5

-----------------------------------------------------------------------------
(* A click on a notification or a switch.                                  *)

\* In a calm there is one request.
LEMMA OneUnderWay ==
  ASSUME NoticesKept, calm, NEW c \in Click, request[c].stage # "idle"
  PROVE  CalmIsTrue /\ UnderWay(c)
BY IdleNotice DEF NoticesKept, CalmIsTrue, PageCurrent, Notices!Quiet, UnderWay

LEMMA SendNoticeKept ==
  ASSUME NoticesKept, NEW c \in Click, NEW f \in NoticeForm, Notices!Send(c, f),
         inbox' \in NoticeView, inbox'.name = inbox.name, f.page = inbox.name,
         inbox.name = "inbox" =>
           DOMAIN inbox'.shown = DOMAIN inbox.shown /\ f.of \in DOMAIN inbox.shown
  PROVE  NoticesKept'
<1>1. PICK k : k = [Notices!Idle EXCEPT !.stage = "sent", !.form = f, !.live = TRUE]
  OBVIOUS
<1>2. /\ request' = [request EXCEPT ![c] = k] /\ calm' = (calm /\ Notices!Quiet)
      /\ UNCHANGED <<row, email, bell>>
  BY <1>1 DEF Notices!Send
<1>3. k \in NoticeTask /\ k.stage = "sent" /\ k.form = f /\ k.live /\ k.answer = None
  BY <1>1 DEF Notices!Idle, NoticeTask
<1>4. /\ request' \in [Click -> NoticeTask] /\ request'[c] = k
      /\ \A d \in Click \ {c} : request'[d] = request[d]
  BY <1>2, <1>3 DEF NoticesKept, NoticesSound
<1>5. calm' \in BOOLEAN
  BY <1>2
<1>6. NoticesSound'
  BY <1>2, <1>3, <1>4, <1>5, SameRows DEF NoticesKept, NoticesSound
<1>7. ASSUME calm' PROVE CalmIsTrue'
  <2>1. CalmIsTrue /\ Notices!Quiet
    BY <1>2, <1>7 DEF NoticesKept
  <2>2. Notices!Listed' = Notices!Listed /\ Notices!UnreadCount' = Notices!UnreadCount
    BY <1>2, SameRows
  <2>3. BellNotLow'
    BY <1>2, <2>1, <2>2 DEF CalmIsTrue, BellNotLow
  <2>4. UnderWay(c)'
    BY <1>3, <1>4, <2>1, <2>2 DEF UnderWay, CalmIsTrue, Notices!Quiet
  <2> QED
    BY <2>1, <2>2, <2>3, <2>4 DEF CalmIsTrue
<1> QED
  BY <1>6, <1>7 DEF NoticesKept

LEMMA ClickMarkReadKept ==
  ASSUME NoticesKept, NEW c \in Click, Notices!ClickMarkRead(c)
  PROVE  NoticesKept'
<1>1. PICK i \in DOMAIN inbox.shown :
        inbox.name = "inbox" /\ UNCHANGED inbox /\ Notices!Send(c, Notices!MarkReadForm(i))
  BY DEF Notices!ClickMarkRead
<1>2. inbox \in NoticeView /\ inbox.shown \in InboxShown
  BY <1>1 DEF NoticesKept, NoticesSound, NoticeView
<1>3. i \in 1..MaxRows
  BY <1>2 DEF InboxShown
<1>4. PICK f : f = Notices!MarkReadForm(i)
  OBVIOUS
<1>5. f \in NoticeForm /\ f.page = "inbox" /\ f.of = i
  BY <1>3, <1>4 DEF Notices!MarkReadForm, NoticeForm
<1> QED
  BY <1>1, <1>2, <1>4, <1>5, SendNoticeKept

LEMMA ClickSwitchKept ==
  ASSUME NoticesKept, NEW c \in Click, Notices!ClickSwitch(c)
  PROVE  NoticesKept'
<1>1. PICK k \in Kind :
        /\ inbox.name = "settings" /\ Notices!Send(c, Notices!SwitchForm(k))
        /\ inbox' = [inbox EXCEPT !.shown[k] = ~@]
  BY DEF Notices!ClickSwitch
<1>2. inbox \in [name : {"settings"}, shown : [Kind -> BOOLEAN]]
  BY <1>1 DEF NoticesKept, NoticesSound, NoticeView
<1>3. PICK on \in BOOLEAN : on = ~inbox.shown[k]
  OBVIOUS
<1>4. Notices!SwitchForm(k) = [page |-> "settings", of |-> k, on |-> on]
  BY <1>3 DEF Notices!SwitchForm
<1>5. PICK f : f = Notices!SwitchForm(k)
  OBVIOUS
<1>6. f \in NoticeForm /\ f.page = "settings"
  BY <1>4, <1>5 DEF NoticeForm
<1>7. inbox' = [inbox EXCEPT !.shown = [inbox.shown EXCEPT ![k] = on]]
  BY <1>1, <1>2, <1>3
<1>8. [inbox.shown EXCEPT ![k] = on] \in [Kind -> BOOLEAN]
  BY <1>2
<1>9. inbox' \in [name : {"settings"}, shown : [Kind -> BOOLEAN]]
  BY <1>2, <1>7, <1>8
<1>10. inbox' \in NoticeView /\ inbox'.name = "settings"
  BY <1>9 DEF NoticeView
<1> QED
  BY <1>1, <1>5, <1>6, <1>10, SendNoticeKept

\* One request goes a step further.
LEMMA BecomesKept ==
  ASSUME NoticesKept, NEW c \in Click, request[c].stage # "idle",
         NEW stage \in {"acted", "answered"}, NEW answer \in NoticeView \cup {None},
         Notices!Becomes(c, stage, answer)
  PROVE  /\ request' \in [Click -> NoticeTask]
         /\ \A d \in Click : request'[d].stage # "idle" => request'[d].form \in NoticeForm
         /\ request'[c].stage = stage /\ request'[c].answer = answer
         /\ request'[c].form = request[c].form /\ request'[c].live = request[c].live
         /\ \A d \in Click \ {c} : request'[d] = request[d]
<1>1. request \in [Click -> NoticeTask] /\ \A d \in Click : request[d].stage # "idle" => request[d].form \in NoticeForm
  BY DEF NoticesKept, NoticesSound
<1>2. PICK k : k = [request[c] EXCEPT !.stage = stage, !.answer = answer]
  OBVIOUS
<1>3. request' = [request EXCEPT ![c] = k]
  BY <1>1, <1>2 DEF Notices!Becomes
<1>4. /\ k \in NoticeTask /\ k.stage = stage /\ k.answer = answer /\ k.form = request[c].form
      /\ k.live = request[c].live
  BY <1>1, <1>2 DEF NoticeTask
<1> QED
  BY <1>1, <1>3, <1>4

LEMMA FailsKept ==
  ASSUME NoticesKept, NEW c \in Click, Notices!Fails(c)
  PROVE  NoticesKept'
<1>1. /\ request[c].stage # "idle" /\ Notices!Becomes(c, "answered", None)
      /\ calm' = FALSE /\ UNCHANGED <<row, email, inbox, bell>>
  BY DEF Notices!Fails
<1>2. /\ request' \in [Click -> NoticeTask]
      /\ \A d \in Click : request'[d].stage # "idle" => request'[d].form \in NoticeForm
  BY <1>1, BecomesKept
<1> QED
  BY <1>1, <1>2, SameRows DEF NoticesKept, NoticesSound

\* A row that is marked counts no more, and stays listed.
LEMMA Marked ==
  ASSUME RowsStored, NEW i \in 1..MaxRows, Notices!MarkRead(i), UNCHANGED email
  PROVE  /\ RowsStored' /\ Len(row') = Len(row) /\ DOMAIN row' = DOMAIN row
         /\ Notices!Listed' = Notices!Listed
         /\ Notices!UnreadCount' \in Nat /\ Notices!UnreadCount' <= Notices!UnreadCount
         /\ i \in DOMAIN row => row'[i].read = TRUE
<1>1. row' = [row EXCEPT ![i] = [row[i] EXCEPT !.read = TRUE]]
  BY DEF Notices!MarkRead
<1>2. row \in [1..Len(row) -> NoticeRow] /\ Len(row) \in Nat /\ DOMAIN row = 1..Len(row)
  BY DEF RowsStored
<1>3. i \in DOMAIN row => [row[i] EXCEPT !.read = TRUE] \in NoticeRow
  BY <1>2 DEF NoticeRow
<1>4. row' \in [1..Len(row) -> NoticeRow]
  BY <1>1, <1>2, <1>3
<1>5. row' \in Seq(NoticeRow) /\ Len(row') = Len(row) /\ DOMAIN row' = DOMAIN row
  BY <1>2, <1>4
<1>6. RowsStored' /\ Notices!Listed' = Notices!Listed
  BY <1>5 DEF RowsStored, Notices!Listed
<1>7. i \in DOMAIN row => row'[i].read = TRUE
  BY <1>1, <1>2 DEF NoticeRow
<1>8. \A j \in DOMAIN row : ~row'[j].read => ~row[j].read
  <2> SUFFICES ASSUME NEW j \in DOMAIN row, ~row'[j].read PROVE ~row[j].read
    OBVIOUS
  <2>1. j # i
    BY <1>7
  <2> QED
    BY <1>1, <1>2, <2>1
<1>9. Notices!UnreadCount' \in Nat /\ Notices!UnreadCount' <= Notices!UnreadCount
  <2> DEFINE before == {j \in DOMAIN row : ~row[j].read}
             after == {j \in DOMAIN row' : ~row'[j].read}
  <2>1. after \in SUBSET before /\ before \in SUBSET (1..Len(row))
    BY <1>2, <1>5, <1>8
  <2>2. IsFiniteSet(before)
    BY <2>1, ListSound, FS_Subset
  <2>3. Cardinality(after) \in Nat /\ Cardinality(after) <= Cardinality(before)
    BY <2>1, <2>2, FS_Subset, FS_CardinalityType
  <2>4. Notices!UnreadCount = Cardinality(before)
    BY SameCardinality DEF Notices!UnreadCount
  <2>5. Notices!UnreadCount' = Cardinality(after)
    BY SameCardinality DEF Notices!UnreadCount
  <2> QED
    BY <2>3, <2>4, <2>5
<1> QED
  BY <1>5, <1>6, <1>7, <1>9

LEMMA ActNoticeKept ==
  ASSUME NoticesKept, NEW c \in Click, Notices!Act(c)
  PROVE  NoticesKept'
<1> DEFINE f == request[c].form
<1>1. /\ request[c].stage = "sent" /\ Notices!Becomes(c, "acted", None)
      /\ UNCHANGED <<inbox, bell, calm>>
      /\ \/ f.page = "inbox" /\ Notices!MarkRead(f.of) /\ UNCHANGED email
         \/ f.page = "settings" /\ Notices!SetEmailEnabled(f.of, f.on) /\ UNCHANGED row
  BY DEF Notices!Act
<1>2. RowsStored /\ f \in NoticeForm
  BY <1>1 DEF NoticesKept, NoticesSound
<1>3. /\ request' \in [Click -> NoticeTask]
      /\ \A d \in Click : request'[d].stage # "idle" => request'[d].form \in NoticeForm
      /\ request'[c].stage = "acted" /\ request'[c].answer = None
      /\ request'[c].form = f /\ request'[c].live = request[c].live
      /\ \A d \in Click \ {c} : request'[d] = request[d]
  BY <1>1, BecomesKept
<1>4. /\ RowsStored' /\ Len(row') = Len(row) /\ Notices!Listed' = Notices!Listed
      /\ Notices!UnreadCount' \in Nat /\ Notices!UnreadCount' <= Notices!UnreadCount
      /\ (f.page = "inbox" => f.of \in Notices!Listed) => IsStored(request[c].form)'
  <2>1. CASE f.page = "inbox" /\ Notices!MarkRead(f.of) /\ UNCHANGED email
    <3>1. f.of \in 1..MaxRows /\ f.on = TRUE
      BY <1>2, <2>1 DEF NoticeForm
    <3>2. /\ RowsStored' /\ Len(row') = Len(row) /\ DOMAIN row' = DOMAIN row
          /\ Notices!Listed' = Notices!Listed
          /\ Notices!UnreadCount' \in Nat /\ Notices!UnreadCount' <= Notices!UnreadCount
          /\ f.of \in DOMAIN row => row'[f.of].read = TRUE
      BY <1>2, <2>1, <3>1, Marked
    <3>3. f.of \in Notices!Listed => f.of \in DOMAIN row
      BY DEF Notices!Listed
    <3> QED
      BY <1>3, <2>1, <3>1, <3>2, <3>3 DEF IsStored
  <2>2. CASE f.page = "settings" /\ Notices!SetEmailEnabled(f.of, f.on) /\ UNCHANGED row
    <3>1. f.of \in Kind /\ f.on \in BOOLEAN
      BY <1>2, <2>2 DEF NoticeForm
    <3>2. email' = [email EXCEPT ![f.of] = f.on]
      BY <2>2 DEF Notices!SetEmailEnabled
    <3>3. email' \in [Kind -> BOOLEAN] /\ email'[f.of] = f.on
      BY <1>2, <3>1, <3>2 DEF RowsStored
    <3>4. RowsStored' /\ Notices!Listed' = Notices!Listed /\ Notices!UnreadCount' = Notices!UnreadCount
      BY <1>2, <2>2, <3>3 DEF RowsStored, Notices!Listed, Notices!UnreadCount
    <3>5. Notices!UnreadCount \in Nat
      BY <1>2, ListSound
    <3> QED
      BY <1>3, <2>2, <3>3, <3>4, <3>5 DEF IsStored
  <2> QED
    BY <1>1, <2>1, <2>2
<1>5. NoticesSound'
  BY <1>1, <1>3, <1>4 DEF NoticesKept, NoticesSound
<1>6. ASSUME calm PROVE CalmIsTrue'
  <2>1. CalmIsTrue /\ UnderWay(c)
    BY <1>1, <1>6, OneUnderWay
  <2>2. BellNotLow'
    <3>1. bell.count \in Nat /\ Notices!UnreadCount \in Nat /\ Len(row) \in Nat
      BY <1>2, ListSound DEF NoticesKept, NoticesSound, BellView
    <3> QED
      BY <1>1, <1>4, <2>1, <3>1 DEF CalmIsTrue, BellNotLow
  <2>3. UnderWay(c)'
    BY <1>3, <1>4, <2>1 DEF UnderWay
  <2> QED
    BY <1>1, <1>4, <2>1, <2>2, <2>3 DEF CalmIsTrue
<1> QED
  BY <1>1, <1>5, <1>6 DEF NoticesKept

LEMMA ReadAnswerKept ==
  ASSUME NoticesKept, NEW c \in Click, Notices!ReadAnswer(c)
  PROVE  NoticesKept'
<1> DEFINE k == request[c]
<1>1. PICK answer : answer = IF k.live THEN Notices!View(k.form.page) ELSE None
  OBVIOUS
<1>2. /\ k.stage = "acted" /\ Notices!Becomes(c, "answered", answer)
      /\ UNCHANGED <<row, email, inbox, bell, calm>>
  BY <1>1 DEF Notices!ReadAnswer
<1>3. RowsStored /\ k.form.page \in {"inbox", "settings"}
  BY <1>2 DEF NoticesKept, NoticesSound, NoticeForm
<1>4. answer \in NoticeView \cup {None}
  BY <1>1, <1>3, ViewSound
<1>5. /\ request' \in [Click -> NoticeTask]
      /\ \A d \in Click : request'[d].stage # "idle" => request'[d].form \in NoticeForm
      /\ request'[c].stage = "answered" /\ request'[c].answer = answer
      /\ request'[c].form = k.form /\ request'[c].live = k.live
      /\ \A d \in Click \ {c} : request'[d] = request[d]
  BY <1>2, <1>4, BecomesKept
<1>6. NoticesSound'
  BY <1>2, <1>5, SameRows DEF NoticesKept, NoticesSound
<1>7. ASSUME calm PROVE CalmIsTrue'
  <2>1. CalmIsTrue /\ UnderWay(c)
    BY <1>2, <1>7, OneUnderWay
  <2>2. Notices!Listed' = Notices!Listed /\ Notices!UnreadCount' = Notices!UnreadCount
    BY <1>2, SameRows
  <2>3. IsStored(request[c].form)'
    BY <1>2, <1>5, <2>1 DEF UnderWay, IsStored
  <2>4. (request[c].answer = Notices!View(request[c].form.page))'
    BY <1>1, <1>2, <1>5, <2>1 DEF UnderWay, Notices!View, Notices!InboxView, Notices!Listed
  <2>5. UnderWay(c)'
    BY <1>5, <2>1, <2>2, <2>3, <2>4 DEF UnderWay
  <2>6. BellNotLow'
    BY <1>2, <2>1, <2>2 DEF CalmIsTrue, BellNotLow
  <2> QED
    BY <1>2, <2>1, <2>2, <2>5, <2>6 DEF CalmIsTrue
<1> QED
  BY <1>2, <1>6, <1>7 DEF NoticesKept

LEMMA SwapNoticeKept ==
  ASSUME NoticesKept, NEW c \in Click, Notices!Swap(c)
  PROVE  NoticesKept'
<1> DEFINE k == request[c]
<1>1. /\ k.stage = "answered" /\ UNCHANGED <<row, email, calm>>
  BY DEF Notices!Swap
<1>2. /\ RowsStored /\ inbox \in NoticeView /\ bell \in BellView
      /\ request \in [Click -> NoticeTask]
      /\ \A d \in Click : request[d].stage # "idle" => request[d].form \in NoticeForm
  BY DEF NoticesKept, NoticesSound
<1>3. CASE k.live /\ k.answer # None
  <2>1. /\ inbox' = k.answer /\ bell' = Notices!Triggered(c)
        /\ request' = [d \in Click |-> IF d = c THEN Notices!Idle
                                       ELSE [request[d] EXCEPT !.live = FALSE, !.answer = None]]
    BY <1>3 DEF Notices!Swap
  <2>2. inbox' \in NoticeView
    BY <1>2, <1>3, <2>1 DEF NoticeTask
  <2>3. bell' \in BellView /\ (bell' = bell \/ bell'.state = "asked")
    BY <1>2, <2>1 DEF Notices!Triggered, Notices!Stub, BellView
  <2>4. ASSUME NEW d \in Click
        PROVE  request'[d] \in NoticeTask /\ (request'[d].stage # "idle" => request'[d].form \in NoticeForm)
    <3>1. CASE d = c
      BY <2>1, <3>1, IdleNotice
    <3>2. CASE d # c
      <4>1. request'[d] = [request[d] EXCEPT !.live = FALSE, !.answer = None] /\ request[d] \in NoticeTask
        BY <1>2, <2>1, <3>2
      <4>2. /\ request'[d] \in NoticeTask /\ request'[d].stage = request[d].stage
            /\ request'[d].form = request[d].form
        BY <4>1 DEF NoticeTask
      <4> QED
        BY <1>2, <4>2
    <3> QED
      BY <3>1, <3>2
  <2>5. request' \in [Click -> NoticeTask]
    BY <2>1, <2>4
  <2>6. NoticesSound'
    BY <1>1, <1>2, <2>2, <2>3, <2>4, <2>5, SameRows DEF NoticesKept, NoticesSound
  <2>7. ASSUME calm PROVE CalmIsTrue'
    <3>1. CalmIsTrue /\ UnderWay(c)
      BY <1>1, <2>7, OneUnderWay
    <3>2. k.form.page \in {"inbox", "settings"} /\ inbox' = Notices!View(k.form.page)
      BY <1>1, <1>2, <2>1, <3>1 DEF UnderWay, NoticeForm
    <3>3. /\ inbox'.name = k.form.page
          /\ inbox'.name = "inbox" => DOMAIN inbox'.shown = Notices!Listed
      BY <1>2, <3>2, ViewSound
    <3>4. Notices!Quiet'
      <4>1. [Notices!Idle EXCEPT !.live = FALSE, !.answer = None] = Notices!Idle
        BY IdleNotice DEF NoticeTask
      <4> QED
        BY <2>1, <3>1, <4>1 DEF Notices!Quiet, UnderWay
    <3>5. /\ Notices!Listed' = Notices!Listed /\ Notices!UnreadCount' = Notices!UnreadCount
      BY <1>1, SameRows
    <3>6. inbox' = Notices!View(inbox.name)'
      BY <1>1, <3>2, <3>3 DEF Notices!View, Notices!InboxView, Notices!Listed
    <3>7. BellNotLow'
      BY <1>1, <2>3, <3>1, <3>5 DEF CalmIsTrue, BellNotLow
    <3> QED
      BY <3>2, <3>3, <3>4, <3>5, <3>6, <3>7 DEF CalmIsTrue, PageCurrent
  <2> QED
    BY <1>1, <2>6, <2>7 DEF NoticesKept
<1>4. CASE ~(k.live /\ k.answer # None)
  <2>1. request' = [request EXCEPT ![c] = Notices!Idle] /\ UNCHANGED <<inbox, bell>>
    BY <1>4 DEF Notices!Swap
  <2>2. NoticesSound'
    BY <1>1, <1>2, <2>1, IdleNotice, SameRows DEF NoticesKept, NoticesSound
  <2>3. ~calm
    <3>1. ASSUME calm PROVE FALSE
      <4>1. UnderWay(c)
        BY <1>1, <3>1, OneUnderWay
      <4>2. k.form.page \in {"inbox", "settings"} /\ k.answer = Notices!View(k.form.page)
        BY <1>1, <1>2, <4>1 DEF UnderWay, NoticeForm
      <4> QED
        BY <1>2, <1>4, <4>1, <4>2, ViewSound DEF UnderWay
    <3> QED
      BY <3>1
  <2> QED
    BY <1>1, <2>2, <2>3 DEF NoticesKept
<1> QED
  BY <1>3, <1>4

LEMMA NoticesStay == NoticesKept /\ [LaneNext]_laneVars => NoticesKept'
<1> SUFFICES ASSUME NoticesKept, [LaneNext]_laneVars PROVE NoticesKept'
  OBVIOUS
<1>1. CASE UNCHANGED notices
  <2>1. UNCHANGED <<row, email, inbox, bell, request, calm>>
    BY <1>1 DEF notices
  <2>2. bell' \in BellView /\ (calm => BellNotLow')
    BY <2>1, SameRows DEF NoticesKept, NoticesSound, CalmIsTrue, BellNotLow
  <2> QED
    BY <2>1, <2>2, BellKept
<1>2. CASE Notices!Next
  BY <1>2, EnqueueKept, OpenNoticesKept, BadgeKept, ClickMarkReadKept, ClickSwitchKept, FailsKept,
     ActNoticeKept, ReadAnswerKept, SwapNoticeKept DEF Notices!Next
<1> QED
  BY <1>1, <1>2 DEF LaneNext, laneVars

\* The inductive invariant of the notifications: to a member who does one thing
\* at a time while nothing arrives, the page tells the truth, or one request is
\* under way, whose answer will, and the bell counts no fewer than are unread.
THEOREM NoticesKeep == LaneSpec => []NoticesKept
<1>1. LaneInit => NoticesKept
  BY NoticesStart
<1>2. NoticesKept /\ [LaneNext]_laneVars => NoticesKept'
  BY NoticesStay
<1> QED
  BY <1>1, <1>2, PTL DEF LaneSpec, laneVars

\* A list that is not full leaves no row out (inboxListLimit).
LEMMA ShortListIsWhole ==
  ASSUME RowsStored, Notices!Cardinality(Notices!Listed) < InboxLimit
  PROVE  Notices!Cardinality(Notices!Listed) = Len(row)
<1>1. /\ DOMAIN row = 1..Len(row) /\ Len(row) \in Nat /\ InboxLimit \in Nat
      /\ Cardinality(1..Len(row)) = Len(row)
  BY ListSound, ScreensAssumption
<1>2. CASE Len(row) < InboxLimit
  <2>1. Notices!Listed = 1..Len(row)
    BY <1>1, <1>2 DEF Notices!Listed
  <2> QED
    BY <1>1, <2>1, SameCardinality
<1>3. CASE InboxLimit <= Len(row)
  <2> DEFINE first == Len(row) - InboxLimit + 1
  <2>1. Notices!Listed = first..Len(row)
    BY <1>1, <1>3 DEF Notices!Listed
  <2>2. first \in Int /\ Len(row) \in Int /\ first <= Len(row) + 1 /\ Len(row) - first + 1 = InboxLimit
    BY <1>1, <1>3
  <2> HIDE DEF first
  <2>3. Cardinality(first..Len(row)) = IF first > Len(row) THEN 0 ELSE Len(row) - first + 1
    BY <2>2, FS_Interval, Zenon
  <2>4. Cardinality(first..Len(row)) = InboxLimit
    BY <1>1, <2>2, <2>3
  <2> QED
    BY <1>1, <2>1, <2>4, SameCardinality
<1> QED
  BY <1>1, <1>2, <1>3

\* To a member who does one thing at a time while nothing arrives: the page is
\* current when nothing is under way, the bell counts no fewer than are unread
\* (it may count rows he has read since it was loaded), and a click is obeyed
\* (inbox_web.go, preferences_web.go and their fragments).
THEOREM InboxAlwaysTrue == LaneSpec => []InboxIsTrue
<1>1. ASSUME NoticesKept PROVE Notices!OwnNoticesAreCurrent
  BY <1>1, IdleNotice DEF NoticesKept, CalmIsTrue, PageCurrent, UnderWay, Notices!Quiet, Notices!OwnNoticesAreCurrent
<1>2. ASSUME NoticesKept, calm, inbox.name = "inbox", bell.state = "shown"
      PROVE  /\ bell.count >= Notices!UnreadCount
             /\ Notices!Cardinality(Notices!Listed) < InboxLimit =>
                  bell.count <= Notices!Cardinality(DOMAIN inbox.shown)
  <2>1. CalmIsTrue /\ RowsStored /\ bell.count \in Nat
    BY <1>2 DEF NoticesKept, NoticesSound, BellView
  <2>2. Notices!UnreadCount \in Nat
    BY <2>1, ListSound
  <2> QED
    BY <1>2, <2>1, <2>2, ShortListIsWhole DEF CalmIsTrue, BellNotLow
<1>3. ASSUME NoticesKept, calm, NEW c \in Click, request[c].answer # None
      PROVE  request[c].answer.shown[request[c].form.of] = request[c].form.on
  <2>1. request[c].stage # "idle"
    <3>1. CASE request[c] = Notices!Idle
      BY <1>3, <3>1, IdleNotice
    <3>2. CASE request[c] # Notices!Idle
      BY <1>3, <3>2 DEF NoticesKept, CalmIsTrue, PageCurrent, Notices!Quiet, UnderWay
    <3> QED
      BY <3>1, <3>2
  <2>2. UnderWay(c) /\ RowsStored /\ request[c].form \in NoticeForm
    BY <1>3, <2>1, OneUnderWay DEF NoticesKept, NoticesSound
  <2>3. request[c].answer = Notices!View(request[c].form.page) /\ IsStored(request[c].form)
    BY <1>3, <2>2 DEF UnderWay
  <2>4. CASE request[c].form.page = "inbox"
    BY <2>2, <2>3, <2>4, ViewSound DEF UnderWay, IsStored
  <2>5. CASE request[c].form.page = "settings"
    BY <2>2, <2>3, <2>5, ViewSound DEF IsStored
  <2> QED
    BY <2>2, <2>4, <2>5 DEF NoticeForm
<1>4. NoticesKept => InboxIsTrue
  BY <1>1, <1>2, <1>3 DEF InboxIsTrue, Notices!BellNeverTooLow, Notices!ClickIsObeyed
<1> QED
  BY <1>4, NoticesKeep, PTL
=============================================================================
