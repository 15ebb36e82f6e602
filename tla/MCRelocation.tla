---------------------------- MODULE MCRelocation ----------------------------
(* Relocation for TLC, and in lanes of their own the readers: the history  *)
(* timeline, the lists of the api, and the label sheets, which share no    *)
(* state with it or with each other.  A behaviour runs in one lane.        *)
EXTENDS Relocation, TLC

CONSTANTS EventId, Clock, Limit, Row, Name, Gone, Labelled, MaxLabels

\* Ids and names are ordered as numbers are, a table has finitely many rows, a
\* page at least one, and None and Gone are nothing that a reader can be given.
ASSUME ReadersAssumption ==
  /\ EventId \subseteq Nat /\ Row \subseteq Nat /\ Name \subseteq Nat /\ Labelled \subseteq Nat \ {0}
  /\ IsFiniteSet(Row) /\ IsFiniteSet(Labelled)
  /\ Limit \in Nat \ {0} /\ Clock \in Nat
  /\ None \notin Name /\ Gone \notin Name
  /\ None \notin [at : 0..Clock, committed : BOOLEAN] \cup ((0..Clock) \X EventId) \cup (Name \X Row)

VARIABLES lane, event, reader, there, clock, row, shelf, steady,
          bins, pref, picture, radio, flight, doc

History == INSTANCE Timeline WITH Event <- EventId, MaxClock <- Clock
Lists   == INSTANCE Listing WITH Id <- Row, reader <- shelf
Sheets  == INSTANCE LabelSheets WITH Bin <- Labelled

history == <<event, reader, there, clock>>
lists   == <<row, shelf, steady>>
sheets  == <<bins, pref, picture, radio, flight, doc>>

\* A variable of a lane that is not run is None.
LaneInit ==
  /\ lane \in {"moves", "history", "lists", "sheets"}
  /\ Init
  /\ IF lane = "history" THEN History!Init
     ELSE event = None /\ reader = History!Unread /\ there = {} /\ clock = None
  /\ IF lane = "lists" THEN Lists!Init
     ELSE row = None /\ shelf = Lists!Unread /\ steady = {}
  /\ IF lane = "sheets" THEN Sheets!Init
     ELSE bins = None /\ pref = None /\ picture = None /\ radio = None /\ flight = None /\ doc = None

LaneNext ==
  /\ UNCHANGED lane
  /\ \/ lane = "moves" /\ Next /\ UNCHANGED <<history, lists, sheets>>
     \/ lane = "history" /\ History!Next /\ UNCHANGED <<vars, lists, sheets>>
     \/ lane = "lists" /\ Lists!Next /\ UNCHANGED <<vars, history, sheets>>
     \/ lane = "sheets" /\ Sheets!Next /\ UNCHANGED <<vars, history, lists>>

LaneSpec == LaneInit /\ [][LaneNext]_<<vars, history, lists, sheets, lane>>

-----------------------------------------------------------------------------
\* Timeline: the pages are in order and hold all that was there at the start.
HistoryIsWhole == History!ShownNewestFirst /\ History!ShownWhole

\* Listing: no row is answered twice, none that stood still is missed.
ListIsWhole == Lists!NoRowTwice /\ Lists!WholeUnlessLost

\* LabelSheets: each label is printed once, on the cell of its place in the
\* batch, apart from the others and within its sheet.
LabelsAreRight == Sheets!LabelsFillTheSheets /\ Sheets!LabelsLieApart

Symmetry == Permutations(Session) \cup Permutations(Location)
=============================================================================
