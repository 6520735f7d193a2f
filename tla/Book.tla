-------------------------------- MODULE Book --------------------------------
(***************************************************************************)
(* One price-time book: include/itch/book.hpp, class Book, over the order  *)
(* store contract of include/itch/order_store.hpp.                         *)
(*                                                                         *)
(* A book is a value [levels, free, side]:                                 *)
(*   levels  the pool of Level records, indexed by handle (from 1 here)    *)
(*   free    the LIFO freelist of level handles                            *)
(*   side    side[TRUE] is bids_, side[FALSE] is asks_: entries            *)
(*           [key, level] ascending by key, so the best level is the last  *)
(* and an order store is a function from references to Order records in    *)
(* which level = Nil says that no order is live under the reference.  What *)
(* the stores do behind find() and touch() is left to their own modules;   *)
(* the stale fields of a dead order are canonical here (NoOrder), because  *)
(* add() and its callers assign every field before anything reads it.      *)
(*                                                                         *)
(* Operators that change both take and return st = [os, book].             *)
(***************************************************************************)
EXTENDS Integers, Sequences, FiniteSets

CONSTANT NilRef   \* kNilRef: the reference that ends a queue

Sq == INSTANCE SequencesExt

-----------------------------------------------------------------------------
(* Orders and levels.                                                      *)

Nil == 0          \* kNil: the handle that is no level

NoOrder == [prev |-> NilRef, next |-> NilRef, qty |-> 0,
            level |-> Nil, locate |-> 0, buy |-> FALSE]

Live(os, ref) == os[ref].level # Nil

EmptyLevel(key) ==
  [key |-> key, shares |-> 0, head |-> NilRef, tail |-> NilRef, orders |-> 0]

\* A reference to a level is written through: nothing else of the book moves.
WithLevel(b, h, lv) == [b EXCEPT !.levels = [@ EXCEPT ![h] = lv]]

EmptyBook == [levels |-> <<>>, free |-> <<>>, side |-> [buy \in BOOLEAN |-> <<>>]]

\* Ask prices are stored negated: both sides ascend towards their best level.
Key(buy, price) == IF buy THEN price ELSE -price

-----------------------------------------------------------------------------
(* Levels come from the freelist, last freed first, before the pool grows. *)

\* The scan from the back, past every key above the wanted one; the mutant scans
\* past an equal key as well.
ScanFromBackPastEqual(s, key) == Sq!SelectLastInSeq(s, LAMBDA e : e.key < key)
ScanFromBack(s, key) == Sq!SelectLastInSeq(s, LAMBDA e : e.key <= key)

TakeHandle(b) == IF b.free = <<>> THEN Len(b.levels) + 1 ELSE Sq!Last(b.free)

OpenLevel(b, buy, key, at) ==
  LET h == TakeHandle(b)
  IN [levels |-> IF b.free = <<>>
                   THEN Append(b.levels, EmptyLevel(key))
                   ELSE [b.levels EXCEPT ![h] = EmptyLevel(key)],
      free   |-> IF b.free = <<>> THEN b.free ELSE Sq!Front(b.free),
      side   |-> [b.side EXCEPT ![buy] =
                    Sq!InsertAt(@, at, [key |-> key, level |-> h])]]

FindOrCreate(b, buy, key) ==
  LET s == b.side[buy]
      i == ScanFromBack(s, key)
  IN IF i > 0 /\ s[i].key = key
       THEN [book |-> b, level |-> s[i].level]
       ELSE [book |-> OpenLevel(b, buy, key, i + 1), level |-> TakeHandle(b)]

\* Mutant of EraseLevel: the handle is not pushed on the freelist.
EraseLevelLeaking(b, h) ==
  LET buy == b.levels[h].key > 0
      i   == Sq!SelectLastInSeq(b.side[buy], LAMBDA e : e.level = h)
  IN [b EXCEPT !.side[buy] = Sq!RemoveAt(@, i)]

\* The side is read off the sign of the level's key, not passed in.
EraseLevel(b, h) ==
  LET buy == b.levels[h].key > 0
      i   == Sq!SelectLastInSeq(b.side[buy], LAMBDA e : e.level = h)
  IN [b EXCEPT !.side[buy] = Sq!RemoveAt(@, i),
               !.free      = Append(@, h)]

-----------------------------------------------------------------------------
(* The operations on orders.                                               *)

\* qty, locate and buy of os[ref] are set by the caller before the call.
Add(st, ref, price) ==
  LET o    == st.os[ref]
      at   == FindOrCreate(st.book, o.buy, Key(o.buy, price))
      h    == at.level
      lv   == at.book.levels[h]
      last == lv.tail
      placed == [o EXCEPT !.level = h, !.prev = last, !.next = NilRef]
  IN [os   |-> [r \in DOMAIN st.os |->
                  IF r = ref THEN placed
                  ELSE IF r = last /\ last # NilRef
                         THEN [st.os[r] EXCEPT !.next = ref]
                  ELSE st.os[r]],
      book |-> WithLevel(at.book, h,
                 [lv EXCEPT !.shares = @ + o.qty,
                            !.orders = @ + 1,
                            !.head   = IF last = NilRef THEN ref ELSE @,
                            !.tail   = ref])]

\* Mutant of Unlinked: the next order keeps its link to the one that left.
UnlinkedForward(os, ref) ==
  LET o == os[ref]
  IN [r \in DOMAIN os |->
        IF r = ref THEN NoOrder
        ELSE IF r = o.prev /\ r # NilRef THEN [os[r] EXCEPT !.next = o.next]
        ELSE os[r]]

\* Unlink: the neighbours of o are tied to each other, a missing neighbour
\* moves the head or the tail, and the last order takes its level with it.
Unlinked(os, ref) ==
  LET o == os[ref]
  IN [r \in DOMAIN os |->
        IF r = ref THEN NoOrder
        ELSE [os[r] EXCEPT
                !.next = IF r = o.prev /\ r # NilRef THEN o.next ELSE @,
                !.prev = IF r = o.next /\ r # NilRef THEN o.prev ELSE @]]

\* Mutant of Remove: a level is erased with one order still at it.
RemoveEager(st, ref) ==
  LET o  == st.os[ref]
      lv == st.book.levels[o.level]
      left == [lv EXCEPT !.shares = @ - o.qty,
                         !.orders = @ - 1,
                         !.head   = IF o.prev = NilRef THEN o.next ELSE @,
                         !.tail   = IF o.next = NilRef THEN o.prev ELSE @]
      b == WithLevel(st.book, o.level, left)
  IN [os   |-> Unlinked(st.os, ref),
      book |-> IF left.orders <= 1 THEN EraseLevel(b, o.level) ELSE b]

Remove(st, ref) ==
  LET o  == st.os[ref]
      h  == o.level
      lv == st.book.levels[h]
      left == [lv EXCEPT !.shares = @ - o.qty,
                         !.orders = @ - 1,
                         !.head   = IF o.prev = NilRef THEN o.next ELSE @,
                         !.tail   = IF o.next = NilRef THEN o.prev ELSE @]
      b == WithLevel(st.book, h, left)
  IN [os   |-> Unlinked(st.os, ref),
      book |-> IF left.orders = 0 THEN EraseLevel(b, h) ELSE b]

\* What is taken is never more than rests; the mutant takes what is asked for.
TakenUnclamped(os, ref, shares) == shares
Taken(os, ref, shares) ==
  IF shares < os[ref].qty THEN shares ELSE os[ref].qty

\* Mutant of Reduce: the level keeps the shares its order lost.
ReduceOrderOnly(st, ref, shares) ==
  LET o    == st.os[ref]
      take == Taken(st.os, ref, shares)
  IN IF take = o.qty
       THEN Remove(st, ref)
       ELSE [st EXCEPT !.os[ref].qty = @ - take]

Reduce(st, ref, shares) ==
  LET o    == st.os[ref]
      lv   == st.book.levels[o.level]
      take == Taken(st.os, ref, shares)
  IN IF take = o.qty
       THEN Remove(st, ref)
       ELSE [os   |-> [st.os EXCEPT ![ref] = [o EXCEPT !.qty = o.qty - take]],
             book |-> WithLevel(st.book, o.level, [lv EXCEPT !.shares = lv.shares - take])]

\* Mutant of Replace: the side of the old order is not carried over.
ReplaceSideless(st, old, new, shares, price) ==
  LET gone == Remove(st, old)
      seat == [gone.os EXCEPT ![new].qty = shares]
  IN IF Live(gone.os, new)
       THEN [st |-> gone, added |-> FALSE]
       ELSE [st |-> Add([os |-> seat, book |-> gone.book], new, price), added |-> TRUE]

\* added is FALSE where the code returns nullptr: new was still live.
Replace(st, old, new, shares, price) ==
  LET gone == Remove(st, old)
      seat == [gone.os EXCEPT ![new] =
                 [@ EXCEPT !.qty = shares, !.buy = st.os[old].buy]]
  IN IF Live(gone.os, new)
       THEN [st |-> gone, added |-> FALSE]
       ELSE [st |-> Add([os |-> seat, book |-> gone.book], new, price), added |-> TRUE]

-----------------------------------------------------------------------------
(* What a book shows.                                                      *)

NoTop == [price |-> 0, shares |-> 0]

Top(b, buy) ==
  IF b.side[buy] = <<>> THEN NoTop
  ELSE LET lv == b.levels[Sq!Last(b.side[buy]).level]
       IN [price |-> Key(buy, lv.key), shares |-> lv.shares]

\* The top of both sides; the order count, which same() never compares, is left out.
Bbo(b) == [buy \in BOOLEAN |-> Top(b, buy)]

-----------------------------------------------------------------------------
(* What keeps a book in order: predicates on values, stated as invariants  *)
(* of the state by the modules that use a book.                            *)

Level(refs) == [key : Int, shares : Int, head : refs, tail : refs, orders : Int]
Entry == [key : Int, level : Nat]
Order(refs, locates) == [prev : refs, next : refs, qty : Nat, level : Nat,
                         locate : locates, buy : BOOLEAN]
BookType(refs) == [levels : Seq(Level(refs)), free : Seq(Nat),
                   side : [BOOLEAN -> Seq(Entry)]]

Handles(b) == 1 .. Len(b.levels)

\* The handles of the levels a side lists, and of the levels of the book.
Listed(b, buy) == {b.side[buy][i].level : i \in DOMAIN b.side[buy]}
OpenLevels(b)  == Listed(b, TRUE) \cup Listed(b, FALSE)

\* Both sides ascend strictly, hold keys of their own sign, and agree with the
\* keys of the levels they list.
Laddered(b) ==
  \A buy \in BOOLEAN : \A i \in DOMAIN b.side[buy] :
    LET e == b.side[buy][i]
    IN /\ \A j \in DOMAIN b.side[buy] : j < i => b.side[buy][j].key < e.key
       /\ e.level \in Handles(b)
       /\ b.levels[e.level].key = e.key
       /\ (e.key > 0) = buy /\ e.key # 0

\* Every handle of the pool is free or listed, never both and never twice.
HandlesOwned(b) ==
  /\ \A i, j \in DOMAIN b.free : b.free[i] = b.free[j] => i = j
  /\ \A i \in DOMAIN b.free : b.free[i] \in Handles(b) \ OpenLevels(b)
  /\ \A buy \in BOOLEAN : \A i, j \in DOMAIN b.side[buy] :
       b.side[buy][i].level = b.side[buy][j].level => i = j
  /\ \A h \in Handles(b) : h \in OpenLevels(b) \/ \E i \in DOMAIN b.free : b.free[i] = h

\* The orders of book l that sit at level h.
Queue(os, l, h) == {r \in DOMAIN os : os[r].level = h /\ os[r].locate = l}

\* x is the member of q that stands Before every other, NilRef if q has none.
IsEnd(x, q, Before(_, _)) ==
  IF q = {} THEN x = NilRef
  ELSE x \in q /\ \A y \in q : y = x \/ Before(x, y)

\* The links of a level's queue spell out the order of arrival: head and tail
\* are its first and last, prev and next are the neighbours in it.
InArrivalOrder(os, ahead, l, b) ==
  /\ \A h \in OpenLevels(b) :
       LET q == Queue(os, l, h)
       IN /\ IsEnd(b.levels[h].head, q, LAMBDA x, y : x \in ahead[y])
          /\ IsEnd(b.levels[h].tail, q, LAMBDA x, y : y \in ahead[x])
  /\ \A r \in DOMAIN os : os[r].level # Nil /\ os[r].locate = l =>
       LET q == Queue(os, l, os[r].level)
       IN /\ IsEnd(os[r].prev, q \cap ahead[r], LAMBDA x, y : y \in ahead[x])
          /\ IsEnd(os[r].next, {y \in q : r \in ahead[y]}, LAMBDA x, y : x \in ahead[y])

\* Every live order of book l sits at a level its own side lists.
OrdersListed(os, l, b) ==
  \A r \in DOMAIN os : os[r].level # Nil /\ os[r].locate = l =>
    os[r].level \in Listed(b, os[r].buy)

\* A level counts the orders of its queue, and is listed only while it has some.
OrdersCounted(os, l, b) ==
  \A h \in OpenLevels(b) :
    /\ b.levels[h].orders = Cardinality(Queue(os, l, h))
    /\ Queue(os, l, h) # {}

\* A level's shares are the sum of what rests in its queue.
SharesSummed(os, l, b) ==
  \A h \in OpenLevels(b) :
    b.levels[h].shares = Sq!MapThenSumSet(LAMBDA r : os[r].qty, Queue(os, l, h))
=============================================================================
