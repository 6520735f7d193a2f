------------------------------ MODULE Reference ------------------------------
(***************************************************************************)
(* The naive book the repository tests the fast one against:               *)
(* test/reference.hpp, class Reference.  A map of orders and, per book and *)
(* side, a map from price to the level's totals; no handles, no links.     *)
(* One operator per handler; the messages come from the module that        *)
(* composes it with the manager.                                           *)
(***************************************************************************)
EXTENDS Integers

CONSTANTS AllRefs, NilRef, FarRef, Locates, Prices

VARIABLES
  orders,   \* orders_: the order under every reference, NoEntry if none
  levels    \* books_: levels[l][buy][price], NoLevel where the map has no entry

NoEntry == [locate |-> 0, buy |-> FALSE, price |-> 0, qty |-> 0]
NoLevel == [shares |-> 0, orders |-> 0]

Init ==
  /\ orders = [r \in AllRefs |-> NoEntry]
  /\ levels = [l \in Locates |-> [buy \in BOOLEAN |-> [p \in Prices |-> NoLevel]]]

-----------------------------------------------------------------------------
(* Steps on a value s = [orders, levels].                                  *)

Now == [orders |-> orders, levels |-> levels]
Has(s, ref) == s.orders[ref] # NoEntry

Insert(s, ref, o) ==
  [orders |-> [s.orders EXCEPT ![ref] = o],
   levels |-> [s.levels EXCEPT ![o.locate][o.buy][o.price] =
                 [shares |-> @.shares + o.qty, orders |-> @.orders + 1]]]

RemoveOrder(s, ref) ==
  LET o == s.orders[ref]
  IN [orders |-> [s.orders EXCEPT ![ref] = NoEntry],
      levels |-> [s.levels EXCEPT ![o.locate][o.buy][o.price] =
                    IF @.orders = 1 THEN NoLevel
                    ELSE [shares |-> @.shares - o.qty, orders |-> @.orders - 1]]]

\* The order removed if it is there: what an insert does to a reused reference.
Without(s, ref) == IF Has(s, ref) THEN RemoveOrder(s, ref) ELSE s

Become(s) == orders' = s.orders /\ levels' = s.levels

Takes(ref, price, shares) ==
  shares # 0 /\ price > 0 /\ ref # NilRef /\ ref # FarRef

-----------------------------------------------------------------------------
(* The handlers.                                                           *)

OnAdd(ref, l, buy, price, shares) ==
  IF Takes(ref, price, shares)
    THEN Become(Insert(Without(Now, ref), ref,
                       [locate |-> l, buy |-> buy, price |-> price, qty |-> shares]))
    ELSE UNCHANGED <<orders, levels>>

\* reduce(): on_execute, on_execute_price and on_cancel.
OnReduce(ref, shares) ==
  LET o    == orders[ref]
      take == IF shares < o.qty THEN shares ELSE o.qty
  IN CASE ~Has(Now, ref) -> UNCHANGED <<orders, levels>>
       [] Has(Now, ref) /\ take = o.qty -> Become(RemoveOrder(Now, ref))
       [] OTHER -> Become(
            [orders |-> [orders EXCEPT ![ref].qty = @ - take],
             levels |-> [levels EXCEPT ![o.locate][o.buy][o.price].shares = @ - take]])

OnDelete(ref) == Become(Without(Now, ref))

\* The old order leaves first; a refused replace returns before it looks at
\* whether the new reference is in use.
OnReplace(old, new, price, shares) ==
  LET o    == orders[old]
      gone == RemoveOrder(Now, old)
  IN CASE ~Has(Now, old) -> UNCHANGED <<orders, levels>>
       [] Has(Now, old) /\ ~Takes(new, price, shares) -> Become(gone)
       [] OTHER -> Become(Insert(Without(gone, new), new,
                                 [locate |-> o.locate, buy |-> o.buy,
                                  price |-> price, qty |-> shares]))
=============================================================================
