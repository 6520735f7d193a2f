----------------------------- MODULE BookManager -----------------------------
(***************************************************************************)
(* The full-day book: include/itch/book_manager.hpp, class BookManager,    *)
(* driven by the messages a feed may carry.  Nothing is assumed about the  *)
(* feed beyond the ranges below: references may be unknown, reused,        *)
(* reserved or out of range, sizes and prices may be zero, a message may   *)
(* name any locate.  One action per handler, each the whole handler.       *)
(***************************************************************************)
EXTENDS Book, FiniteSets

CONSTANTS
  Refs,        \* the references the manager accepts: 1 .. kMaxRef - 1
  FarRef,      \* a reference at or beyond kMaxRef
  MaxLocate,   \* stock locates are 0 .. MaxLocate
  MaxPrice,    \* message prices are 0 .. MaxPrice
  MaxShares,   \* message sizes are 0 .. MaxShares
  Symbols,     \* the symbols a stock directory message may carry
  States,      \* the trading states a trading action message may carry
  Blank,       \* the symbol and the trading state of a locate not heard of
  Toggles,     \* the arguments track_bbo() is called with
  kTrades,     \* whether the manager was given a trade sink
  NoPrint      \* no trade was printed

ASSUME RefsAssumption ==
  /\ IsFiniteSet(Refs)
  /\ NilRef \notin Refs /\ FarRef \notin Refs /\ NilRef # FarRef
ASSUME BoundsAssumption == MaxLocate \in Nat /\ MaxPrice \in Nat /\ MaxShares \in Nat
ASSUME FlagsAssumption == Toggles \subseteq BOOLEAN /\ kTrades \in BOOLEAN

AllRefs == Refs \cup {NilRef, FarRef}
Locates == 0 .. MaxLocate
Prices  == 0 .. MaxPrice
Sizes   == 0 .. MaxShares

\* The price of an execution message reaches nothing but the trade sink.
SinkPrices == IF kTrades THEN Prices ELSE {0}

VARIABLES
  os,        \* os_: the order store
  books,     \* books_: the book of every locate, empty beyond book_count
  count,     \* books_.size(): the locates ensure() has made room for
  symbols,   \* symbols_
  state,     \* state_: the last trading state of every locate
  last,      \* last_: the top of book last reported for every locate
  track,     \* track_bbo_
  evicted,   \* evicted_: the book that last lost an order to a reused reference
  counted,   \* the Stats counters the last message bumped
  print,     \* the TradePrint the last message emitted, NoPrint if none
  ahead      \* history: the live orders that arrived before each live order

vars == <<os, books, count, symbols, state, last, track, evicted, counted, print, ahead>>

-----------------------------------------------------------------------------
(* Helpers of the handlers.                                                *)

LiveRefs == {r \in AllRefs : Live(os, r)}

\* The guard of on_add, and of on_replace for the new order; the mutant lets
\* orders of no size in.
AcceptsNoShares(ref, price, shares) == price > 0 /\ ref # NilRef /\ ref # FarRef
Accepts(ref, price, shares) ==
  /\ shares # 0 /\ price > 0
  /\ ref # NilRef /\ ref # FarRef

Larger(m, n) == IF m < n THEN n ELSE m

\* ensure(): room for locates 0 .. l, never less than before.
Ensure(l) == count' = Larger(count, l + 1)

\* check_top(): what is remembered (and, when it differs, reported) for book l.
CheckTop(bks, told, l) ==
  IF track THEN [told EXCEPT ![l] = Bbo(bks[l])] ELSE told

\* An order book state, and that state with the order under ref removed.
Now == [os |-> os, books |-> books]

Dropped(s, ref) ==
  LET l == s.os[ref].locate
      r == Remove([os |-> s.os, book |-> s.books[l]], ref)
  IN [os |-> r.os, books |-> [s.books EXCEPT ![l] = r.book]]

\* check_top() of the book a duplicate was evicted from, when it is another; the
\* mutant leaves it out.
EvictionUntold(s, dup, was, l) == last
EvictionTold(s, dup, was, l) ==
  IF dup /\ was # l THEN CheckTop(s.books, last, was) ELSE last

\* History: orders that left are ahead of nobody; an arriving order is behind
\* everybody who stays.
Departed(gone) ==
  [r \in AllRefs |-> IF r \in gone THEN {} ELSE ahead[r] \ gone]

Arrived(gone, ref) ==
  [Departed(gone) EXCEPT ![ref] = LiveRefs \ gone]

Printed(source, l, price, shares, ref) ==
  [source |-> source, locate |-> l, price |-> price, shares |-> shares, order |-> ref]

Untold == UNCHANGED <<symbols, state, track>>

\* The end of every handler that meets a reference nobody holds.
MissingRef ==
  /\ counted' = {"missing_ref"}
  /\ UNCHANGED <<os, books, count, last, evicted, ahead>>

-----------------------------------------------------------------------------
(* The handlers.                                                           *)

OnAdd(ref, l, buy, price, shares) ==
  /\ print' = NoPrint
  /\ Untold
  /\ \/ /\ ~Accepts(ref, price, shares)
        /\ counted' = {"rejected"}
        /\ UNCHANGED <<os, books, count, last, evicted, ahead>>
     \/ /\ Accepts(ref, price, shares)
        /\ Ensure(l)
        /\ LET dup  == Live(os, ref)
               was  == os[ref].locate
               s    == IF dup THEN Dropped(Now, ref) ELSE Now
               told == EvictionTold(s, dup, was, l)
               seat == [s.os EXCEPT ![ref] =
                          [@ EXCEPT !.qty = shares, !.locate = l, !.buy = buy]]
               done == Add([os |-> seat, book |-> s.books[l]], ref, price)
           IN /\ os'      = done.os
              /\ books'   = [s.books EXCEPT ![l] = done.book]
              /\ last'    = CheckTop(books', told, l)
              /\ evicted' = IF dup THEN was ELSE evicted
              /\ counted' = IF dup THEN {"adds", "dup_ref"} ELSE {"adds"}
              /\ ahead'   = Arrived({ref}, ref)

\* reduce(): what on_execute, on_execute_price and on_cancel share.
ReduceOrder(ref, shares, counter) ==
  \/ ~Live(os, ref) /\ MissingRef
  \/ /\ Live(os, ref)
     /\ LET l    == os[ref].locate
            take == Taken(os, ref, shares)
            done == Reduce([os |-> os, book |-> books[l]], ref, shares)
        IN /\ os'      = done.os
           /\ books'   = [books EXCEPT ![l] = done.book]
           /\ last'    = CheckTop(books', last, l)
           /\ counted' = IF take # shares THEN {counter, "clamped"} ELSE {counter}
           /\ ahead'   = IF take = os[ref].qty THEN Departed({ref}) ELSE ahead
     /\ UNCHANGED <<count, evicted>>

\* Mutant of OnExecute: the key is printed for the price.
OnExecuteAtKey(ref, shares) ==
  /\ LET o == os[ref]
     IN print' = IF kTrades /\ Live(os, ref)
                   THEN Printed("E", o.locate, books[o.locate].levels[o.level].key, shares, ref)
                   ELSE NoPrint
  /\ ReduceOrder(ref, shares, "executes")
  /\ Untold

\* The print carries the resting price, so it is made before the order shrinks.
OnExecute(ref, shares) ==
  /\ LET o  == os[ref]
         lv == books[o.locate].levels[o.level]
     IN print' = IF kTrades /\ Live(os, ref)
                   THEN Printed("E", o.locate, Key(o.buy, lv.key), shares, ref)
                   ELSE NoPrint
  /\ ReduceOrder(ref, shares, "executes")
  /\ Untold

OnExecutePrice(ref, shares, price, printable) ==
  /\ print' = IF kTrades /\ printable /\ Live(os, ref)
                THEN Printed("C", os[ref].locate, price, shares, ref)
                ELSE NoPrint
  /\ ReduceOrder(ref, shares, "executes")
  /\ Untold

OnCancel(ref, shares) ==
  /\ print' = NoPrint
  /\ ReduceOrder(ref, shares, "cancels")
  /\ Untold

OnDelete(ref) ==
  /\ print' = NoPrint
  /\ Untold
  /\ \/ ~Live(os, ref) /\ MissingRef
     \/ /\ Live(os, ref)
        /\ LET s == Dropped(Now, ref)
           IN /\ os'    = s.os
              /\ books' = s.books
              /\ last'  = CheckTop(s.books, last, os[ref].locate)
        /\ counted' = {"deletes"}
        /\ ahead'   = Departed({ref})
        /\ UNCHANGED <<count, evicted>>

\* A reused new reference is evicted first, whatever becomes of the replace.
OnReplace(old, new, price, shares) ==
  /\ print' = NoPrint
  /\ Untold
  /\ \/ ~Live(os, old) /\ MissingRef
     \/ /\ Live(os, old)
        /\ LET l    == os[old].locate
               dup  == new # old /\ Live(os, new)
               was  == os[new].locate
               s    == IF dup THEN Dropped(Now, new) ELSE Now
               told == EvictionTold(s, dup, was, l)
               gone == Dropped(s, old)
               done == Replace([os |-> s.os, book |-> s.books[l]], old, new, shares, price)
               left == IF dup THEN {old, new} ELSE {old}
           IN /\ \/ /\ ~Accepts(new, price, shares)
                    /\ os'      = gone.os
                    /\ books'   = gone.books
                    /\ counted' = {"rejected"} \cup (IF dup THEN {"dup_ref"} ELSE {})
                    /\ ahead'   = Departed(left)
                 \/ /\ Accepts(new, price, shares)
                    /\ os'      = IF done.added THEN [done.st.os EXCEPT ![new] = [@ EXCEPT !.locate = l]]
                                                ELSE done.st.os
                    /\ books'   = [s.books EXCEPT ![l] = done.st.book]
                    /\ counted' = {"replaces"} \cup
                                  (IF dup \/ ~done.added THEN {"dup_ref"} ELSE {})
                    /\ ahead'   = IF done.added THEN Arrived(left, new) ELSE Departed(left)
              /\ last'    = CheckTop(books', told, l)
              /\ evicted' = IF dup THEN was ELSE evicted
        /\ UNCHANGED count

\* on_trade, on_cross, on_broken: prints that touch no book; a broken trade
\* carries neither price nor size.
OnPrint(source, l, price, shares) ==
  /\ kTrades
  /\ print' = IF source = "B" THEN Printed("B", l, 0, 0, NilRef)
                              ELSE Printed(source, l, price, shares, NilRef)
  /\ counted' = {}
  /\ UNCHANGED <<os, books, count, symbols, state, last, track, evicted, ahead>>

OnStockDirectory(l, symbol) ==
  /\ Ensure(l)
  /\ symbols' = [symbols EXCEPT ![l] = symbol]
  /\ counted' = {}
  /\ print'   = NoPrint
  /\ UNCHANGED <<os, books, state, last, track, evicted, ahead>>

OnTradingAction(l, now) ==
  /\ Ensure(l)
  /\ state'   = [state EXCEPT ![l] = now]
  /\ counted' = {}
  /\ print'   = NoPrint
  /\ UNCHANGED <<os, books, symbols, last, track, evicted, ahead>>

\* reserve(): pre-sizing, of which only the room for locates is visible.
Reserve(l) ==
  /\ Ensure(l)
  /\ UNCHANGED <<os, books, symbols, state, last, track, evicted, counted, print, ahead>>

\* Mutant of TrackBbo: the remembered tops are not reset.
TrackBboKeeping(on) ==
  /\ track' = on
  /\ UNCHANGED <<os, books, count, symbols, state, last, evicted, counted, print, ahead>>

TrackBbo(on) ==
  /\ track' = on
  /\ last'  = IF on /\ ~track THEN [l \in Locates |-> Bbo(EmptyBook)] ELSE last
  /\ UNCHANGED <<os, books, count, symbols, state, evicted, counted, print, ahead>>

-----------------------------------------------------------------------------
(* The specification.                                                      *)

Init ==
  /\ os      = [r \in AllRefs |-> NoOrder]
  /\ books   = [l \in Locates |-> EmptyBook]
  /\ count   = 0
  /\ symbols = [l \in Locates |-> Blank]
  /\ state   = [l \in Locates |-> Blank]
  /\ last    = [l \in Locates |-> Bbo(EmptyBook)]
  /\ track   = TRUE
  /\ evicted = 0
  /\ counted = {}
  /\ print   = NoPrint
  /\ ahead   = [r \in AllRefs |-> {}]

Next ==
  \/ \E ref \in AllRefs, l \in Locates, buy \in BOOLEAN, price \in Prices, shares \in Sizes :
       OnAdd(ref, l, buy, price, shares)
  \/ \E ref \in AllRefs, shares \in Sizes : OnExecute(ref, shares)
  \/ \E ref \in AllRefs, shares \in Sizes, price \in SinkPrices, printable \in BOOLEAN :
       OnExecutePrice(ref, shares, price, printable)
  \/ \E ref \in AllRefs, shares \in Sizes : OnCancel(ref, shares)
  \/ \E ref \in AllRefs : OnDelete(ref)
  \/ \E old, new \in AllRefs, price \in Prices, shares \in Sizes :
       OnReplace(old, new, price, shares)
  \/ \E source \in {"P", "Q", "B"}, l \in Locates, price \in Prices, shares \in Sizes :
       OnPrint(source, l, price, shares)
  \/ \E l \in Locates, symbol \in Symbols : OnStockDirectory(l, symbol)
  \/ \E l \in Locates, now \in States : OnTradingAction(l, now)
  \/ \E l \in Locates : Reserve(l)
  \/ \E on \in Toggles : TrackBbo(on)

Spec == Init /\ [][Next]_vars

-----------------------------------------------------------------------------
(* Correctness.                                                            *)

Counters == {"adds", "executes", "cancels", "deletes", "replaces",
             "missing_ref", "dup_ref", "rejected", "clamped"}
TopType == [BOOLEAN -> [price : Int, shares : Int]]

\* Every variable keeps its shape.
TypeOK ==
  /\ os \in [AllRefs -> Order(AllRefs, Locates)]
  /\ books \in [Locates -> BookType(AllRefs)]
  /\ count \in 0 .. MaxLocate + 1
  /\ symbols \in [Locates -> Symbols \cup {Blank}]
  /\ state \in [Locates -> States \cup {Blank}]
  /\ last \in [Locates -> TopType]
  /\ track \in BOOLEAN
  /\ evicted \in Locates
  /\ counted \subseteq Counters
  /\ ahead \in [AllRefs -> SUBSET AllRefs]

\* Every live order is held under an acceptable reference, has shares left, and
\* names a book that exists and a level that its side of that book lists: every
\* handler indexes books_[o->locate] and levels_[o->level] without a check.
OrdersPlaced ==
  /\ LiveRefs \subseteq Refs
  /\ \A r \in LiveRefs : os[r].qty > 0 /\ os[r].locate < count
  /\ \A l \in Locates : OrdersListed(os, l, books[l])

\* Every side of every book is sorted and agrees with its levels, over any
\* sequence of inserts in the middle and erases (Book::validate, first half).
Ladders == \A l \in Locates : Laddered(books[l])

\* No level handle leaks and none is owned twice: the LIFO freelist and the two
\* sides of a book partition its pool.
HandlesPartitioned == \A l \in Locates : HandlesOwned(books[l])

\* Every queue links exactly the live orders of its level, first come first
\* (README, "queue position is reconstructible"), through evictions, partial
\* fills, replaces onto the same reference and removals anywhere in the queue.
TimePriority == \A l \in Locates : InArrivalOrder(os, ahead, l, books[l])

\* Level aggregates are those of the queue, and no empty level is ever listed
\* (Book::validate, second half).
LevelTotals ==
  \A l \in Locates : OrdersCounted(os, l, books[l]) /\ SharesSummed(os, l, books[l])

\* What was last reported for a book is what the book shows, or nothing at all
\* since tracking was turned on again.
ToldTop ==
  track => \A l \in Locates : last[l] = Bbo(books[l]) \/ last[l] = Bbo(EmptyBook)

\* A book whose last report is right never changes its top without another: the
\* book of a message, and the book another order is evicted from.
TopsReported ==
  [][\A l \in Locates : track /\ track' /\ last[l] = Bbo(books[l])
                          => last'[l] = Bbo(books'[l])]_vars

\* A print at the resting price names the order that was live before the message,
\* at the price, book and locate it rested at, and that order then shrinks by the
\* printed size or leaves.
PrintedAtRest ==
  [][print' # print /\ print' # NoPrint /\ print'.source \in {"E", "C"} =>
       LET r == print'.order
           l == os[r].locate
       IN /\ Live(os, r) /\ print'.locate = l
          /\ print'.source = "E" =>
               \E i \in DOMAIN books[l].side[os[r].buy] :
                 LET e == books[l].side[os[r].buy][i]
                 IN e.level = os[r].level /\ print'.price = Key(os[r].buy, e.key)
          /\ IF print'.shares < os[r].qty THEN os'[r].qty = os[r].qty - print'.shares
                                          ELSE ~Live(os', r)]_vars
=============================================================================
