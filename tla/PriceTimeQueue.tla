--------------------------- MODULE PriceTimeQueue ---------------------------
(***************************************************************************)
(* What the book promises about one order after another, with no levels,   *)
(* no handles and no links: orders rest until they are filled or leave;    *)
(* while they rest they keep their book, side, price and place in the line *)
(* and only ever shrink; whoever arrives, a replaced order included, goes  *)
(* behind everybody who stays.                                             *)
(***************************************************************************)
EXTENDS Integers

CONSTANTS
  Refs,      \* the references orders may be held under
  Locates,   \* the books
  Prices,    \* the prices an order may rest at
  Sizes,     \* the sizes it may arrive with
  Absent     \* no order

VARIABLES
  orders,    \* the order resting under every reference, Absent if none
  ahead      \* the orders that arrived before each resting order

vars == <<orders, ahead>>

Resting == {r \in Refs : orders[r] # Absent}

Orders == [locate : Locates, buy : BOOLEAN, price : Prices, qty : Sizes]

Init ==
  /\ orders = [r \in Refs |-> Absent]
  /\ ahead  = [r \in Refs |-> {}]

\* The orders of gone leave, wherever they stand in the line.
Leave(gone) ==
  /\ gone # {} /\ gone \subseteq Resting
  /\ orders' = [r \in Refs |-> IF r \in gone THEN Absent ELSE orders[r]]
  /\ ahead'  = [r \in Refs |-> IF r \in gone THEN {} ELSE ahead[r] \ gone]

\* Some order arrives under ref while the orders of gone leave.
Arrive(ref, gone) ==
  /\ ref \notin Resting \ gone
  /\ orders'[ref] \in Orders
  /\ orders' = [r \in Refs |-> IF r = ref THEN orders'[ref]
                               ELSE IF r \in gone THEN Absent ELSE orders[r]]
  /\ ahead'  = [r \in Refs |-> IF r = ref THEN Resting \ gone
                               ELSE IF r \in gone THEN {} ELSE ahead[r] \ gone]

\* A new order; the order it finds under its reference, if any, is replaced.
Enter(ref) == Arrive(ref, {ref} \cap Resting)

\* An order is replaced by one on the same side of the same book.
Requeue(old, ref) ==
  /\ old \in Resting
  /\ Arrive(ref, {old, ref} \cap Resting)
  /\ orders'[ref].locate = orders[old].locate /\ orders'[ref].buy = orders[old].buy

\* An order is filled or cancelled in part and keeps its place.
Shrink(ref) ==
  /\ ref \in Resting
  /\ \E left \in 1 .. orders[ref].qty : orders' = [orders EXCEPT ![ref].qty = left]
  /\ UNCHANGED ahead

Next ==
  \/ \E ref \in Refs : Enter(ref) \/ Shrink(ref)
  \/ \E old, ref \in Refs : Requeue(old, ref) \/ Leave({old, ref})

Spec == Init /\ [][Next]_vars
=============================================================================
