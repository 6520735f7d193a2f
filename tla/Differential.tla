---------------------------- MODULE Differential ----------------------------
(***************************************************************************)
(* The differential test (test/differential_test.cpp) over every feed: the *)
(* manager and the naive reference book take the same messages, and their  *)
(* full book states are compared after each.                               *)
(***************************************************************************)
EXTENDS BookManager

CONSTANT
  AnyFeed    \* FALSE: a refused replace never names a live new reference, as in
             \* the feeds test/synthetic.hpp generates

VARIABLES
  refOrders, \* the orders of the reference book
  refLevels  \* its levels

Ref == INSTANCE Reference WITH orders <- refOrders, levels <- refLevels

refVars == <<refOrders, refLevels>>

DInit == Init /\ Ref!Init

InFeed(old, new, price, shares) ==
  AnyFeed \/ Accepts(new, price, shares) \/ old = new \/ ~Live(os, new)

DNext ==
  \/ \E ref \in AllRefs, l \in Locates, buy \in BOOLEAN, price \in Prices, shares \in Sizes :
       OnAdd(ref, l, buy, price, shares) /\ Ref!OnAdd(ref, l, buy, price, shares)
  \/ \E ref \in AllRefs, shares \in Sizes :
       OnExecute(ref, shares) /\ Ref!OnReduce(ref, shares)
  \/ \E ref \in AllRefs, shares \in Sizes :
       OnExecutePrice(ref, shares, 0, TRUE) /\ Ref!OnReduce(ref, shares)
  \/ \E ref \in AllRefs, shares \in Sizes :
       OnCancel(ref, shares) /\ Ref!OnReduce(ref, shares)
  \/ \E ref \in AllRefs : OnDelete(ref) /\ Ref!OnDelete(ref)
  \/ \E old, new \in AllRefs, price \in Prices, shares \in Sizes :
       /\ InFeed(old, new, price, shares)
       /\ OnReplace(old, new, price, shares) /\ Ref!OnReplace(old, new, price, shares)

DSpec == DInit /\ [][DNext]_<<vars, refVars>>

-----------------------------------------------------------------------------

\* The price levels of a side with their totals, as the reference keeps them.
LevelAt(b, buy, price) ==
  {b.levels[b.side[buy][i].level] :
     i \in {j \in DOMAIN b.side[buy] : b.side[buy][j].key = Key(buy, price)}}

SideMatches(l, buy) ==
  \A p \in Prices :
    LET fast == LevelAt(books[l], buy, p)
        slow == refLevels[l][buy][p]
    IN IF slow = Ref!NoLevel
         THEN fast = {}
         ELSE {[shares |-> lv.shares, orders |-> lv.orders] : lv \in fast} = {slow}

\* books_match(): the same number of live orders, and on every side of every book
\* the same levels with the same shares and order counts.
BooksMatch ==
  /\ Cardinality(LiveRefs) = Cardinality({r \in AllRefs : Ref!Has(Ref!Now, r)})
  /\ \A l \in Locates, buy \in BOOLEAN : SideMatches(l, buy)

\* README ("mirrored exactly by the reference implementation"): the same over
\* every feed, the messages the fault handling is there for included.
MirroredExactly == BooksMatch
=============================================================================
