---------------------------- MODULE LendingDesk ----------------------------
(***************************************************************************)
(* What internal/storage promises a household: every item is in one place  *)
(* at a time, only an item in a bin can be taken and only a held one put   *)
(* back, putting it back answers everyone who asked for it, nobody is      *)
(* asked for twice, and a destroyed item never returns.                    *)
(***************************************************************************)
CONSTANTS Person, Item, Bin,
          Unborn, Gone   \* where an item is before it exists and after

VARIABLES at,      \* the bin the item is in or the person who holds it
          wanted   \* the people who wait for the item
vars == <<at, wanted>>

Init ==
  /\ at = [i \in Item |-> Unborn]
  /\ wanted = [i \in Item |-> {}]

Introduce(i, b) ==
  /\ at[i] = Unborn
  /\ at' = [at EXCEPT ![i] = b]
  /\ UNCHANGED wanted

Take(i, p) ==
  /\ at[i] \in Bin
  /\ at' = [at EXCEPT ![i] = p]
  /\ UNCHANGED wanted

PutBack(i, b) ==
  /\ at[i] \in Person
  /\ at' = [at EXCEPT ![i] = b]
  /\ wanted' = [wanted EXCEPT ![i] = {}]

Ask(i, p) ==
  /\ at[i] \in Bin \cup Person
  /\ p \notin wanted[i]
  /\ wanted' = [wanted EXCEPT ![i] = @ \cup {p}]
  /\ UNCHANGED at

Withdraw(i, p) ==
  /\ p \in wanted[i]
  /\ wanted' = [wanted EXCEPT ![i] = @ \ {p}]
  /\ UNCHANGED at

Destroy(i) ==
  /\ at[i] \in Bin \cup Person
  /\ at' = [at EXCEPT ![i] = Gone]
  /\ wanted' = [wanted EXCEPT ![i] = {}]

Next ==
  \E i \in Item :
    \/ Destroy(i)
    \/ \E b \in Bin : Introduce(i, b) \/ PutBack(i, b)
    \/ \E p \in Person : Take(i, p) \/ Ask(i, p) \/ Withdraw(i, p)

Spec == Init /\ [][Next]_vars
=============================================================================
