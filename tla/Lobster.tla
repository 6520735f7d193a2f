------------------------------- MODULE Lobster -------------------------------
(***************************************************************************)
(* The LOBSTER export (python/itch_book/lobster.py): a second reader of    *)
(* the tables of a session.  It turns the rows of messages, trades and     *)
(* halts into the lines of one message file per locate, with a replace as  *)
(* a deletion and a submission, and keeps the orders of every locate to    *)
(* know what a replace deletes.                                            *)
(*                                                                         *)
(* export() reads the tables when the day is over, each from the first row *)
(* to the last, and sorts the lines by seq; here a line is made when its   *)
(* message comes, which is the same order.                                 *)
(***************************************************************************)
EXTENDS Session

VARIABLES
  ours,     \* orders of _messages(), for every locate
  lines     \* the lines of the last message

lobsterVars == <<ours, lines>>

NotOurs == [size |-> 0, price |-> 0, dir |-> 0]

-----------------------------------------------------------------------------
(* _messages(): what one row of a table makes.                             *)

FileLine(file, type, id, size, price, dir) ==
  [file |-> file, type |-> type, id |-> id, size |-> size, price |-> price, dir |-> dir]

Direction(w) == IF w.side = "B" THEN 1 ELSE -1

\* The order a row of type A or U adds.
Submitted(w) == [size |-> w.size, price |-> w.price, dir |-> Direction(w)]

\* The type of the line a row makes that takes from an order.
Code == [E |-> 4, C |-> 4, X |-> 2, D |-> 3]

\* Mutant of KeptOrder: what is left of an order is not written back.
KeptWhole(w, o) == IF w.remaining # 0 /\ o # NotOurs THEN o ELSE NotOurs

\* What is kept of an order a row has taken from.
KeptOrder(w, o) ==
  IF w.remaining # 0 /\ o # NotOurs THEN [o EXCEPT !.size = w.remaining] ELSE NotOurs

\* The orders of the row's locate after the row.
Booked(orders, w) ==
  LET rest == IF w.type = "U" THEN [orders EXCEPT ![w.old] = NotOurs] ELSE orders
  IN CASE w.side = "N" -> orders
       [] w.side # "N" /\ w.type \in {"A", "U"} ->
            IF w.remaining # 0 THEN [rest EXCEPT ![w.ref] = Submitted(w)] ELSE rest
       [] OTHER -> [orders EXCEPT ![w.ref] = KeptOrder(w, @)]

\* A deletion of the order replaced, if it is known; the submission, if not refused.
MessageLines(orders, w) ==
  LET old == orders[w.old]
      own == orders[w.ref]
      deletion   == IF w.type = "U" /\ old # NotOurs
                      THEN <<FileLine(w.locate, 3, w.old, old.size, old.price, old.dir)>> ELSE <<>>
      submission == IF w.remaining # 0
                      THEN <<FileLine(w.locate, 1, w.ref, w.size, w.price, Direction(w))>> ELSE <<>>
      price      == IF w.type = "C" \/ own = NotOurs THEN w.price ELSE own.price
  IN CASE w.side = "N" -> <<>>
       [] w.side # "N" /\ w.type \in {"A", "U"} -> deletion \o submission
       [] OTHER -> <<FileLine(w.locate, Code[w.type], w.ref, w.size, price, Direction(w))>>

\* Executions of hidden orders and crosses; those of resting orders are in messages.
TradeLines(t) ==
  CASE t.source = "P" -> <<FileLine(t.locate, 5, NilRef, t.shares, t.price, 1)>>
    [] t.source = "Q" -> <<FileLine(t.locate, 6, NilRef, t.shares, t.price, -1)>>
    [] OTHER -> <<>>

\* HALT_PRICE of a trading action; an operational halt knows two states.
HaltLines(h) ==
  LET price == IF h.kind = "H" THEN (CASE h.state = "T" -> 1 [] h.state = "Q" -> 0 [] OTHER -> -1)
                               ELSE IF h.state = "H" THEN -1 ELSE 1
  IN <<FileLine(h.locate, 7, NilRef, 0, price, -1)>>

-----------------------------------------------------------------------------

\* The rows the message has just left, table after table.
Export ==
  LET m == rows'.messages  t == rows'.trades  h == rows'.halts
  IN /\ lines' = (IF m = <<>> THEN <<>> ELSE MessageLines(ours[m[1].locate], m[1]))
                 \o (IF t = <<>> THEN <<>> ELSE TradeLines(t[1]))
                 \o (IF h = <<>> THEN <<>> ELSE HaltLines(h[1]))
     /\ ours' = IF m = <<>> THEN ours ELSE [ours EXCEPT ![m[1].locate] = Booked(@, m[1])]

LInit ==
  /\ SInit
  /\ ours = [l \in Locates |-> [r \in AllRefs |-> NotOurs]]
  /\ lines = <<>>

LNext == SNext /\ Export

LSpec == LInit /\ [][LNext]_<<vars, sessionVars, lobsterVars>>

-----------------------------------------------------------------------------
(* Correctness.                                                            *)

\* What a line says happened to the size of an order.
Effect(line) ==
  CASE line.type = 1 -> line.size [] line.type \in {2, 3, 4} -> -line.size [] OTHER -> 0

Size(store, l, r) == IF Live(store, r) /\ store[r].locate = l THEN store[r].qty ELSE 0

\* The price and the direction of an order at rest.
Place(store, bks, r) ==
  LET o == store[r]
  IN <<Key(o.buy, bks[o.locate].levels[o.level].key), IF o.buy THEN 1 ELSE -1>>

\* Which of the lines are about an order.
About(ls, l, r) == {i \in DOMAIN ls : ls[i].file = l /\ ls[i].id = r}

\* README, "LOBSTER export": the message file of a selected symbol is an account of
\* its book.  A message that neither reuses a live reference nor takes more than
\* rests changes the size of every order by what the lines with its id add up to,
\* after partial fills and chains of replaces too, and each line but that of an
\* execution at another price names the price and the side at which it rests.  Not
\* so an order whose add bore the side N: that row makes no line.
LinesAccount ==
  [][counted' \cap {"dup_ref", "clamped"} = {} =>
       \A l \in Locates, r \in Refs :
         LET of == About(lines', l, r)
         IN Selected(l) /\ r \notin unread \cup unread' =>
              /\ Size(os', l, r) =
                   Size(os, l, r) + Sq!MapThenSumSet(LAMBDA i : Effect(lines'[i]), of)
              /\ \A i \in of :
                   <<lines'[i].price, lines'[i].dir>> =
                     CASE lines'[i].type = 1 -> Place(os', books', r)
                       [] lines'[i].type # 1 /\ rows'.messages[1].type = "C" ->
                            <<rows'.messages[1].price, Place(os, books, r)[2]>>
                       [] OTHER -> Place(os, books, r)]_<<vars, sessionVars, lobsterVars>>
=============================================================================
