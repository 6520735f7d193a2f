------------------------------- MODULE OrderMap -------------------------------
(***************************************************************************)
(* What an order store promises: a map from references to orders.  An      *)
(* order is in the map from the message that adds it to the message that   *)
(* takes it off the book, whatever the store does in between.              *)
(***************************************************************************)
CONSTANTS
  Refs,      \* the references orders may rest under
  NilRef,    \* the reserved reference, which messages may name all the same
  Orders,    \* what a live order may say
  Dead       \* no order

VARIABLE map

AllRefs == Refs \cup {NilRef}

Init == map = [r \in AllRefs |-> Dead]

Only(refs) == \A r \in AllRefs \ refs : map'[r] = map[r]

\* An order, new or in the place of whatever rested under the reference.
Put(ref) == map'[ref] \in Orders /\ Only({ref})

Drop(ref) == map[ref] # Dead /\ map'[ref] = Dead /\ Only({ref})

\* A live order gives its place to another.
Move(old, new) ==
  /\ map[old] # Dead /\ map'[new] \in Orders
  /\ old # new => map'[old] = Dead
  /\ Only({old, new})

\* Or, when the other is refused, to none; what rested under new is gone either way.
Refuse(old, new) ==
  /\ map[old] # Dead /\ map'[old] = Dead /\ map'[new] = Dead
  /\ Only({old, new})

Next ==
  \/ \E ref \in Refs : Put(ref) \/ Drop(ref)
  \/ \E old, new \in Refs : Move(old, new)
  \/ \E old \in Refs, new \in AllRefs : Refuse(old, new)

Spec == Init /\ [][Next]_map
=============================================================================
