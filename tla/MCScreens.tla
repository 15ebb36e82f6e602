----------------------------- MODULE MCScreens ------------------------------
(* ItemScreen for TLC, and in lanes of their own the pages of bins and     *)
(* locations and those of the notifications, which share no state with it  *)
(* or with each other.  A behaviour runs in one lane; the item's page has  *)
(* one where clicks cross and one where they do not.                       *)
EXTENDS ItemScreen, Sequences, TLC

CONSTANTS BinId, Room, Code, MaxDeeds, Kind, InboxLimit, MaxRows

\* What the pages of bins and locations are made of: rows, pages and requests.
Address == Code \cup Room \cup {None}
BinRow == [code : Address, place : Room, by : {Me, Other}, private : BOOLEAN,
           full : BOOLEAN, shared : BOOLEAN]
PageName == {"missing", "bins", "bin", "new bin", "edit", "locations", "location", "rename"}
TaskVerb == {"go", "show", "create", "edit", "move", "delete", "add room", "rename room", "delete room"}
PageLink == [page : PageName, of : Address]
BinCard == [bin : BinId, code : Address, place : Room, named : BOOLEAN]
BinPage == [link : PageLink, at : Nat, cards : SUBSET BinCard, rooms : SUBSET Room,
            bin : BinId \cup {None}, private : BOOLEAN, feed : BinId \cup {None, Gone}]
BinTask == [verb : TaskVerb, link : PageLink, bin : BinId \cup {None}, room : Address,
            code : Address, private : BOOLEAN, stage : {"sent", "half", "ready"}, at : Nat,
            got : BinPage \cup {None}]

\* What the pages of the notifications show: which of the rows listed are read,
\* or which of the switches are on.
InboxShown == UNION {[listed -> BOOLEAN] : listed \in SUBSET (1..MaxRows)}
NoticeView ==
  [name : {"nowhere"}, shown : {<<>>}] \cup [name : {"inbox"}, shown : InboxShown] \cup
  [name : {"settings"}, shown : [Kind -> BOOLEAN]]

\* The member is not the others; None and Gone are neither rows nor requests nor pages.
ASSUME ScreensAssumption ==
  /\ Me # Other /\ None # Gone
  /\ \A absent \in {None, Gone} : absent \notin BinId \cup BinRow \cup {"there"}
  /\ None \notin BinTask \cup NoticeView
  /\ InboxLimit \in Nat /\ MaxRows \in Nat

VARIABLES lane, bin, room, screen, task, deeds, row, email, inbox, bell, request, calm

Bins == INSTANCE BinScreens WITH Member <- Me, Admin <- Other

Notices == INSTANCE Inbox WITH Request <- Click, page <- inbox

bins == <<bin, room, screen, task, deeds>>
notices == <<row, email, inbox, bell, request, calm>>

\* Of ids that could be exchanged the same one is used first.
First(ids) == CHOOSE id \in ids : TRUE

\* Two clicks that cross, of which no call fails; one photo, no link.
InClicks ==
  /\ links' = {} /\ photos'.rows \subseteq {First(PhotoId)}
  /\ \A c \in Click : /\ click'[c].outcome # "failed"
                      /\ click'[c].form # None => click'[c].form.of \notin PhotoId \ {First(PhotoId)}

\* One click at a time; the item is not hidden.
InItem ==
  /\ place' \notin Hidden
  /\ Cardinality({c \in Click : click'[c] # Idle}) <= 1

\* Photos with gaps between them, and one change.
InGaps == InItem /\ age' <= 1

InBins ==
  /\ (\E b \in BinId : bin'[b] # None) => bin'[First(BinId)] # None
  /\ (\E r \in Room : room'[r] # None) => room'[First(Room)] # None

\* The variables of a lane that is not run keep their first values.
LaneInit ==
  /\ lane \in {"item", "gaps", "clicks", "bins", "notices"}
  /\ Init
  /\ Cardinality(photos.rows) = IF lane \in {"item", "gaps"} THEN 2 ELSE 1
  /\ lane = "gaps" <=> ~Dense(photos.at)
  /\ First(PhotoId) \in photos.rows /\ \A p \in photos.rows : photos.at[First(PhotoId)] <= photos.at[p]
  /\ place = Other
  /\ Bins!Init /\ Notices!Init

LaneNext ==
  /\ UNCHANGED lane
  /\ \/ lane = "item" /\ Next /\ InItem /\ UNCHANGED <<bins, notices>>
     \/ lane = "gaps" /\ Next /\ InGaps /\ UNCHANGED <<bins, notices>>
     \/ lane = "clicks" /\ Next /\ InClicks /\ UNCHANGED <<bins, notices>>
     \/ lane = "bins" /\ Bins!Next /\ InBins /\ UNCHANGED <<vars, notices>>
     \/ lane = "notices" /\ Notices!Next /\ UNCHANGED <<vars, bins>>

LaneSpec == LaneInit /\ [][LaneNext]_<<vars, bins, notices, lane>>

-----------------------------------------------------------------------------
PrivateStaysUnseen == Bins!PrivateStaysUnseen
NoNameMeansMoved == Bins!NoNameMeansMoved
MovesWhatItShows == Bins!MovesWhatItShows
OwnScreenIsCurrent == Bins!OwnScreenIsCurrent

\* Inbox: the page is current, the bell is not too low, and an undisturbed click
\* is obeyed.
InboxIsTrue == Notices!OwnNoticesAreCurrent /\ Notices!BellNeverTooLow /\ Notices!ClickIsObeyed

Symmetry == Permutations(Click)
=============================================================================
