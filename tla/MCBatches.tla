------------------------------- MODULE MCBatches -------------------------------
(***************************************************************************)
(* Three kinds of days for Batches:                                        *)
(*  - Alone: every message a handler may ask for, in bytes that differ,    *)
(*    low or high, cut at every byte;                                      *)
(*  - Framings: every three of five frames that parsing tells apart, cut   *)
(*    at every byte;                                                       *)
(*  - Mixes: every three of five messages that the tables tell apart, two  *)
(*    of them names of one locate, cut between messages and in the middle  *)
(*    of each.                                                             *)
(***************************************************************************)
EXTENDS Batches, TLC

Sends(msg) == [frame |-> <<0, Len(Encoded(msg))>> \o Encoded(msg), is |-> <<msg>>]

Message(t, locate, body) ==
  [type |-> t, body |-> body,
   hdr |-> [locate |-> locate, tracking |-> <<13, 14>>, timestamp |-> <<0, 0, 15, 16, 17, 18, 19, 20>>]]

\* A number of n bytes from h + k on, and a price of the lower four of eight.
N(h, k, n) == [i \in 1 .. n |-> h + k + i]
Px(h, k)   == <<0, 0, 0, 0>> \o N(h, k, 4)

\* A body of every type, its bytes counted through it from h.
Fields(t, h) ==
  LET ref == N(h, 30, 8)  side == h + 39  shares == N(h, 40, 4)  stock == N(h, 44, 8)
      match == N(h, 60, 8)  char == h + 69  more == h + 70  flag == h = 0
      order == [ref |-> ref, side |-> side, shares |-> shares, stock |-> stock, price |-> Px(h, 52)]
      print == [match |-> match, shares |-> shares, stock |-> stock, price |-> Px(h, 52)]
  IN CASE t = "A" -> order @@ [attributed |-> FALSE, mpid |-> <<Blank, Blank, Blank, Blank>>]
       [] t = "F" -> order @@ [attributed |-> TRUE, mpid |-> N(h, 56, 4)]
       [] t = "E" -> [ref |-> ref, shares |-> shares, match |-> match]
       [] t = "C" -> [ref |-> ref, shares |-> shares, match |-> match, printable |-> flag,
                      price |-> Px(h, 52)]
       [] t = "X" -> [ref |-> ref, shares |-> shares]
       [] t = "D" -> [ref |-> ref]
       [] t = "U" -> [old_ref |-> ref, new_ref |-> N(h, 70, 8), shares |-> shares, price |-> Px(h, 52)]
       [] t = "P" -> [ref |-> ref, side |-> side] @@ print
       [] t = "Q" -> [[cross_type |-> char] @@ print EXCEPT !.shares = N(h, 80, 8)]
       [] t = "B" -> [match |-> match]
       [] t = "H" -> [stock |-> stock, state |-> char, reason |-> N(h, 80, 4)]
       [] t = "h" -> [stock |-> stock, market |-> char, action |-> more]
       [] t = "S" -> [event |-> char]
       [] t = "R" -> [stock |-> stock, market_category |-> h + 71, financial_status |-> h + 72,
                      round_lot_size |-> N(h, 80, 4), round_lots_only |-> flag,
                      issue_classification |-> h + 73, issue_subtype |-> N(h, 84, 2),
                      authenticity |-> h + 74, short_sale_threshold |-> h + 75, ipo_flag |-> h + 76,
                      luld_tier |-> h + 77, etp_flag |-> h + 78, etp_leverage |-> N(h, 90, 4),
                      inverse |-> h + 79]
       [] t = "I" -> [paired |-> N(h, 80, 8), imbalance |-> N(h, 88, 8), direction |-> char,
                      stock |-> stock, far_price |-> Px(h, 52), near_price |-> Px(h, 56),
                      reference_price |-> Px(h, 96), cross_type |-> more, variation |-> h + 71]
       [] t = "Y" -> [stock |-> stock, action |-> char]
       [] t = "J" -> [stock |-> stock, reference_price |-> Px(h, 52), upper |-> Px(h, 56),
                      lower |-> Px(h, 96), extension |-> N(h, 80, 4)]

-----------------------------------------------------------------------------
Frames(sent) == Sx!FlattenSeq([i \in DOMAIN sent |-> sent[i].frame])

Day(sent, cuts, tables, wanted) ==
  [sent |-> sent, cuts |-> cuts, tables |-> tables, wanted |-> wanted]

EveryByte(sent) == 1 .. Len(Frames(sent))

\* The ends of the frames, and the middle of each.
Ends(sent) ==
  LET Length(k) == Len(Frames(SubSeq(sent, 1, k)))
  IN {Length(k) : k \in DOMAIN sent} \cup {Length(k) - 5 : k \in DOMAIN sent}

Alone ==
  LET Of(t, h) == << Sends(Message(t, N(h, 20, 2), Fields(t, h))) >>
  IN {Day(Of(t, h), EveryByte(Of(t, h)), CoreTables, {}) : t \in Decodable, h \in {0, 128}}

\* A system event, a message of the catch-all, a message of the wrong length, one of no
\* known type, and the mark of the end.
Framed ==
  {Sends(Message("S", <<0, 0>>, Fields("S", 0))),
   [frame |-> <<0, 12>> \o <<Code.W>> \o N(0, 1, 11), is |-> << [type |-> "W"] >>],
   [frame |-> <<0, 1, Code.S>>, is |-> <<>>],
   [frame |-> <<0, 2, 90, 1>>, is |-> <<>>],
   [frame |-> End, is |-> <<>>]}

Framings == {Day(sent, EveryByte(sent), {"reg_sho"}, {}) : sent \in [1 .. 3 -> Framed]}

\* AAPL and MSFT on the wire, and two attributions, one of them padded.
Apple == <<65, 65, 80, 76, 32, 32, 32, 32>>
Micro == <<77, 83, 70, 84, 32, 32, 32, 32>>
Told ==
  LET One(t, body) == Sends(Message(t, <<0, 1>>, body))
      Order(mpid)  == [Fields("F", 0) EXCEPT !.mpid = mpid]
  IN {One("R", [Fields("R", 0) EXCEPT !.stock = Apple]), One("R", [Fields("R", 0) EXCEPT !.stock = Micro]),
      One("F", Order(<<78, 83, 68, 81>>)), One("F", Order(<<71, 83, 32, 32>>)), One("Y", Fields("Y", 0))}

Mixes ==
  {Day(sent, Ends(sent), {"messages", "reg_sho"}, wanted) :
     sent \in [1 .. 3 -> Told], wanted \in {{}, {Apple}}}

AllDays == Alone \cup Framings \cup Mixes

HandledTypes == {Code[t] : t \in Decodable}
CaughtTypes == DOMAIN WireLengths \ HandledTypes
=============================================================================
