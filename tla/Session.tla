------------------------------- MODULE Session -------------------------------
(***************************************************************************)
(* The session behind a Python feed (python/src/module.cpp, class          *)
(* Session): every message goes to the manager and leaves rows in the      *)
(* tables.  Its handlers look orders up before the manager takes them off  *)
(* the books, and ask the manager afterwards what became of the message.   *)
(*                                                                         *)
(* Of the tables, bbo is the remembered top of BookManager; messages,      *)
(* trades, halts and depth are here, the first three as the rows the last  *)
(* message left.  copy is a reader of the messages table, as replay() in   *)
(* python/tests/test_tables.py reads it.  An add's side byte goes into its *)
(* row unchecked, and where it is N the row tells him that nothing changed *)
(* although the order rests: unread records those orders, for the          *)
(* properties to name; no action reads it.                                 *)
(***************************************************************************)
EXTENDS BookManager

CONSTANTS
  Depth,           \* depth_: how many levels of a side the depth table shows
  Selections,      \* what a feed may be opened with: sets of symbols, none for all
  SideBytes        \* the side bytes of adds; nothing checks that they are B or S

ASSUME DepthAssumption == Depth \in Nat \ {0} /\ Selections \subseteq SUBSET Symbols

VARIABLES
  wanted,    \* wanted_: the symbols selected
  selected,  \* selected_: their locates, as far as directory messages told
  shown,     \* last_depth_: the levels last written for every locate
  rows,      \* messages_, trades_ and halts_: the rows the last message left
  copy,      \* the orders a reader of messages knows of
  unread     \* the orders at rest whose add bore the side N (history)

sessionVars == <<wanted, selected, shown, rows, copy, unread>>

-----------------------------------------------------------------------------
(* Rows.                                                                   *)

Selected(l) == wanted = {} \/ l \in selected

SideOf(buy) == IF buy THEN "B" ELSE "S"

\* resting(): what the book holds under a reference before the message.
Resting(ref, l) ==
  LET o == os[ref]
  IN IF Live(os, ref)
       THEN [locate |-> o.locate, side |-> SideOf(o.buy), qty |-> o.qty, found |-> TRUE,
             price |-> Key(o.buy, books[o.locate].levels[o.level].key)]
       ELSE [locate |-> l, side |-> "N", qty |-> 0, found |-> FALSE, price |-> 0]

Left(r, taken) == IF r.qty > taken THEN r.qty - taken ELSE 0

\* The levels of a side from the best.
Shows(b) ==
  [buy \in BOOLEAN |->
     LET best == Sq!Reverse(b.side[buy])
     IN [i \in (1 .. Depth) \cap DOMAIN best |->
           LET lv == b.levels[best[i].level]
           IN [price |-> Key(buy, lv.key), shares |-> lv.shares, orders |-> lv.orders]]]

\* emit_depth(), of each of these books; one without a change leaves no row.
EmitDepth(ls) ==
  shown' = [l \in Locates |->
              IF l \in ls /\ Selected(l) /\ l < count' THEN Shows(books'[l]) ELSE shown[l]]

\* The book an order was evicted from; the mutant forgets it.
AlsoHitNone == {}
AlsoHit == IF "dup_ref" \in counted' THEN {evicted'} ELSE {}

-----------------------------------------------------------------------------
(* The reader of the messages table.                                       *)

Gone == [locate |-> 0, side |-> "N", price |-> 0, qty |-> 0]

\* A row of side N changed nothing, an A or U with nothing remaining was refused.
\* As the books do, he takes any other side but B for a sell; what is taken from an
\* order he does not know leaves him as he is.
Replayed(c, w) ==
  LET order == [locate |-> w.locate, side |-> SideOf(w.side = "B"), price |-> w.price,
                qty |-> w.remaining]
  IN CASE w.side = "N" -> c
       [] w.side # "N" /\ w.type = "A" ->
            IF w.remaining = 0 THEN c ELSE [c EXCEPT ![w.ref] = order]
       [] w.side # "N" /\ w.type = "U" ->
            [c EXCEPT ![w.old] = Gone, ![w.ref] = IF w.remaining = 0 THEN Gone ELSE order]
       [] OTHER ->
            [c EXCEPT ![w.ref] = IF w.remaining = 0 \/ @ = Gone THEN Gone
                                 ELSE [@ EXCEPT !.qty = w.remaining]]

\* A row of a selected book is kept, any other is not.
Kept(row) == IF Selected(row.locate) THEN <<row>> ELSE <<>>

NoRows == [messages |-> <<>>, trades |-> <<>>, halts |-> <<>>]

\* emit_trade(): the sink of the manager's prints.
TradeRows == IF print' = NoPrint THEN <<>> ELSE Kept(print')

\* An order rests unread from an add of side N until a replace or another add rests
\* its reference anew, or it is gone.
Unread(w) ==
  LET rests == w.type \in {"A", "U"} /\ w.remaining # 0
      now   == CASE rests /\ w.side = "N" -> unread \cup {w.ref}
                 [] rests /\ w.side # "N" -> unread \ {w.ref}
                 [] OTHER -> unread
  IN {r \in now : Live(os', r)}

\* emit_message() beside the prints, and what the reader makes of the row.
EmitMessage(w) ==
  /\ rows' = [NoRows EXCEPT !.messages = Kept(w), !.trades = TradeRows]
  /\ copy' = IF Selected(w.locate) THEN Replayed(copy, w) ELSE copy
  /\ unread' = Unread(w)

\* emit_halt(): kind is the type of the message, H or h.
EmitHalt(kind, l, now) ==
  rows' = [NoRows EXCEPT !.halts = Kept([kind |-> kind, locate |-> l, state |-> now])]

-----------------------------------------------------------------------------
(* The handlers.                                                           *)

\* The book rests anything but B as a sell; the row has the byte as it came.
AddMessage(ref, l, side, price, shares) ==
  /\ OnAdd(ref, l, side = "B", price, shares)
  /\ EmitMessage([type |-> "A", locate |-> l, side |-> side, price |-> price, size |-> shares,
                  ref |-> ref, old |-> NilRef,
                  remaining |-> IF "rejected" \in counted' THEN 0 ELSE shares])
  /\ EmitDepth(AlsoHit \cup {l})
  /\ UNCHANGED <<wanted, selected>>

\* A row of the order at rest, with what is left of it after the message.
RestingRow(type, r, price, size, remaining, ref) ==
  [type |-> type, locate |-> r.locate, side |-> r.side, price |-> price, size |-> size,
   ref |-> ref, old |-> NilRef, remaining |-> remaining]

ExecuteMessage(ref, l, shares) ==
  LET r == Resting(ref, l)
  IN /\ OnExecute(ref, shares)
     /\ EmitMessage(RestingRow("E", r, r.price, shares, Left(r, shares), ref))
     /\ EmitDepth({r.locate})
     /\ UNCHANGED <<wanted, selected>>

ExecutePriceMessage(ref, l, shares, price, printable) ==
  LET r == Resting(ref, l)
  IN /\ OnExecutePrice(ref, shares, price, printable)
     /\ EmitMessage(RestingRow("C", r, price, shares, Left(r, shares), ref))
     /\ EmitDepth({r.locate})
     /\ UNCHANGED <<wanted, selected>>

CancelMessage(ref, l, shares) ==
  LET r == Resting(ref, l)
  IN /\ OnCancel(ref, shares)
     /\ EmitMessage(RestingRow("X", r, r.price, shares, Left(r, shares), ref))
     /\ EmitDepth({r.locate})
     /\ UNCHANGED <<wanted, selected>>

DeleteMessage(ref, l) ==
  LET r == Resting(ref, l)
  IN /\ OnDelete(ref)
     /\ EmitMessage(RestingRow("D", r, r.price, r.qty, 0, ref))
     /\ EmitDepth({r.locate})
     /\ UNCHANGED <<wanted, selected>>

\* Mutant of ReplaceRow: the row of a refused replace says that all of it rests.
ReplaceRowUnasked(r, old, new, price, shares) ==
  [type |-> "U", locate |-> r.locate, side |-> r.side, price |-> price, size |-> shares,
   ref |-> new, old |-> old, remaining |-> IF r.found THEN shares ELSE 0]

ReplaceRow(r, old, new, price, shares) ==
  [type |-> "U", locate |-> r.locate, side |-> r.side, price |-> price, size |-> shares,
   ref |-> new, old |-> old,
   remaining |-> IF r.found /\ "rejected" \notin counted' THEN shares ELSE 0]

ReplaceMessage(old, new, l, price, shares) ==
  LET r == Resting(old, l)
  IN /\ OnReplace(old, new, price, shares)
     /\ EmitMessage(ReplaceRow(r, old, new, price, shares))
     /\ EmitDepth(AlsoHit \cup {r.locate})
     /\ UNCHANGED <<wanted, selected>>

\* Bound: with a selection, directory messages come while no order rests.
DirectoryInTime == wanted # {} => LiveRefs = {}

\* select_locate(), after the manager has made room for the locate.
DirectoryMessage(l, symbol) ==
  /\ DirectoryInTime
  /\ OnStockDirectory(l, symbol)
  /\ selected' = IF symbol \in wanted THEN selected \cup {l} ELSE selected
  /\ rows' = NoRows
  /\ UNCHANGED <<wanted, shown, copy, unread>>

ActionMessage(l, now) ==
  /\ OnTradingAction(l, now)
  /\ EmitHalt("H", l, now)
  /\ UNCHANGED <<wanted, selected, shown, copy, unread>>

\* on_operational_halt(): the manager is not told.
OperationalHaltMessage(l, now) ==
  /\ EmitHalt("h", l, now)
  /\ counted' = {} /\ print' = NoPrint
  /\ UNCHANGED <<os, books, count, symbols, state, last, track, evicted, ahead>>
  /\ UNCHANGED <<wanted, selected, shown, copy, unread>>

\* on_trade, on_cross and on_broken leave rows in trades only.
TradeMessage(source, l, price, shares) ==
  /\ OnPrint(source, l, price, shares)
  /\ rows' = [NoRows EXCEPT !.trades = TradeRows]
  /\ UNCHANGED <<wanted, selected, shown, copy, unread>>

\* The locate a message names is read when it names no order at rest.
Named(ref) == IF Live(os, ref) THEN {os[ref].locate} ELSE Locates

SInit ==
  /\ Init
  /\ wanted \in Selections
  /\ selected = {}
  /\ shown    = [l \in Locates |-> Shows(EmptyBook)]
  /\ rows     = NoRows
  /\ copy     = [r \in AllRefs |-> Gone]
  /\ unread   = {}

SNext ==
  \/ \E ref \in AllRefs, l \in Locates, side \in SideBytes, price \in Prices, shares \in Sizes :
       AddMessage(ref, l, side, price, shares)
  \/ \E ref \in AllRefs, shares \in Sizes : \E l \in Named(ref) :
       \/ ExecuteMessage(ref, l, shares)
       \/ CancelMessage(ref, l, shares)
       \/ \E price \in SinkPrices, printable \in {TRUE, ~kTrades} :
            ExecutePriceMessage(ref, l, shares, price, printable)
  \/ \E ref \in AllRefs : \E l \in Named(ref) : DeleteMessage(ref, l)
  \/ \E old, new \in AllRefs, price \in Prices, shares \in Sizes : \E l \in Named(old) :
       ReplaceMessage(old, new, l, price, shares)
  \/ \E l \in Locates, symbol \in Symbols : DirectoryMessage(l, symbol)
  \/ \E l \in Locates, now \in States : ActionMessage(l, now) \/ OperationalHaltMessage(l, now)
  \/ \E source \in {"P", "Q", "B"}, l \in Locates, price \in Prices, shares \in Sizes :
       TradeMessage(source, l, price, shares)

SSpec == SInit /\ [][SNext]_<<vars, sessionVars>>

-----------------------------------------------------------------------------
(* Correctness.                                                            *)

\* README, "keeps every book and emits rows only for the selected locates": of a
\* selected book the last depth row is what the book shows, whichever message of
\* whichever book changed it.
DepthCurrent ==
  \A l \in Locates : Selected(l) => shown[l] = Shows(books[l])

\* README, "Rows the book did not apply say so": who reads messages by its rules
\* knows the book, side, price and size of every order that rests on a selected
\* book, after any feed and whatever messages of other books did to it, but of one
\* whose add bore the side N: its row says that nothing changed.  That byte misleads
\* him of no other order, and of this one only until it is gone or a replace rests it
\* anew.  With every symbol selected he knows no order that does not rest; under a
\* filter he may keep one that an add or a replace of another book evicted.
CopyExact ==
  \A r \in AllRefs :
    IF Live(os, r)
      THEN LET o == os[r]
           IN Selected(o.locate) /\ r \notin unread =>
                copy[r] = [locate |-> o.locate, side |-> SideOf(o.buy), qty |-> o.qty,
                           price |-> Key(o.buy, books[o.locate].levels[o.level].key)]
      ELSE wanted = {} => copy[r] = Gone
=============================================================================
