--------------------------- MODULE BookRefinement ---------------------------
(***************************************************************************)
(* The manager's books implement PriceTimeQueue: the order under a live    *)
(* reference is what its Order record and the key of its level say.        *)
(***************************************************************************)
EXTENDS BookManager

CONSTANT Absent   \* no order, in PriceTimeQueue

ASSUME AbsentAssumption ==
  Absent \notin [locate : Nat, buy : BOOLEAN, qty : Nat, price : Int]

\* What a live reference stands for; the price is that of its level.
OrderAt(s, ref) ==
  LET o == s.os[ref]
  IN IF o.level = Nil THEN Absent
     ELSE [locate |-> o.locate, buy |-> o.buy, qty |-> o.qty,
           price  |-> Key(o.buy, s.books[o.locate].levels[o.level].key)]

RestingOrders == [r \in Refs |-> OrderAt(Now, r)]

Line == INSTANCE PriceTimeQueue
  WITH orders <- RestingOrders, ahead <- [r \in Refs |-> ahead[r]],
       Prices <- Prices \ {0}, Sizes <- Sizes \ {0}

\* Whatever the feed does, the books hold a price-time queue: no resting order
\* changes side, book or price, grows, or overtakes another, and an order that
\* replaces another keeps its side and book and goes to the back.
ImplementsPriceTimeQueue == Line!Spec
=============================================================================
