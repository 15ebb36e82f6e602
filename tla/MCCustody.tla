----------------------------- MODULE MCCustody -----------------------------
(* Custody for TLC, in two lanes: a behaviour runs in one of them, and each *)
(* keeps to the part of the constants that its questions need.              *)
EXTENDS Custody, TLC

CONSTANTS Lane, ann, nook

\* Every bin is ann's.
AnnCreates == [b \in Bin |-> ann]

VARIABLE lane

\* Items without requests: ann sees all of her bins, public or not.  Every item
\* operation but the return, three events of an item.
InItems ==
  /\ \A s \in Session : /\ op'[s].actor \in {ann, None}
                        /\ op'[s].verb \notin {"return", "request", "cancel"}
  /\ \A b \in Bin : visibility'[b] # "private"
  /\ \A i \in Item : Len(log'[i]) <= 3

\* Lending and return requests: everybody, one bin, every event at one time.  The
\* api key puts items into bins, the others return, delete, ask and cancel.
InRequests ==
  /\ \A s \in Session : /\ op'[s].verb # "edit"
                        /\ op'[s].verb = "add" => op'[s].actor = Integration
                        /\ op'[s].verb \in {"return", "delete", "cancel"} => op'[s].actor # Integration
  /\ visibility'[nook] = "unborn" /\ clock' = 0

LaneInit == lane \in Lane /\ Init

LaneNext ==
  /\ UNCHANGED lane
  /\ Next
  /\ lane = "items" => InItems
  /\ lane = "requests" => InRequests

LaneSpec == LaneInit /\ [][LaneNext]_<<vars, lane>>

\* Sessions and request ids are interchangeable; people, bins and items are not
\* permuted.
Symmetry == Permutations(Session) \cup Permutations(RequestId)
=============================================================================
