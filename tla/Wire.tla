--------------------------------- MODULE Wire ---------------------------------
(***************************************************************************)
(* Messages on the wire (include/itch/wire.hpp, messages.hpp): the length  *)
(* of every type, and the decode() of every type a handler may ask for,    *)
(* each field from its offset; beside it the encoder the tests write with  *)
(* (test/encode.hpp), which knows no offsets.                              *)
(*                                                                         *)
(* A message is the sequence of its bytes.  Numbers are written in base    *)
(* 256, most significant byte first, as long as their C++ type is wide.    *)
(***************************************************************************)
EXTENDS Naturals, Sequences

CONSTANT LittleEndian   \* std::endian::native

ASSUME HostAssumption == LittleEndian \in BOOLEAN

Sx == INSTANCE SequencesExt

-----------------------------------------------------------------------------
(* Types.                                                                  *)

\* The types wire_length() knows, by their character.
Code ==
  [S |-> 83, R |-> 82, H |-> 72, Y |-> 89, L |-> 76, V |-> 86, W |-> 87, K |-> 75, J |-> 74,
   h |-> 104, A |-> 65, F |-> 70, E |-> 69, C |-> 67, X |-> 88, D |-> 68, U |-> 85, P |-> 80,
   Q |-> 81, B |-> 66, I |-> 73, N |-> 78, O |-> 79]

Letter(byte) == CHOOSE t \in DOMAIN Code : Code[t] = byte

LengthOf ==
  [S |-> 12, R |-> 39, H |-> 25, Y |-> 20, L |-> 26, V |-> 35, W |-> 12, K |-> 28, J |-> 35,
   h |-> 21, A |-> 36, F |-> 40, E |-> 31, C |-> 36, X |-> 23, D |-> 19, U |-> 35, P |-> 44,
   Q |-> 40, B |-> 19, I |-> 50, N |-> 20, O |-> 48]

\* wire_length(), by the first byte of a message.
WireLengths == [byte \in {Code[t] : t \in DOMAIN Code} |-> LengthOf[Letter(byte)]]

-----------------------------------------------------------------------------
(* Fields.                                                                 *)

\* memcpy() of n bytes, and the number a host reads from its memory.
Bytes(m, at, n) == SubSeq(m, at + 1, at + n)
Native(mem) == IF LittleEndian THEN Sx!Reverse(mem) ELSE mem

\* be(), and what it returns when it does not look at the host.
BeUnswapped(m, at, n) == Native(Bytes(m, at, n))
Be(m, at, n) ==
  LET v == Native(Bytes(m, at, n)) IN IF LittleEndian THEN Sx!Reverse(v) ELSE v

\* The number that 16 bits write.
Value(v) == 256 * v[1] + v[2]

U16(m, at) == Be(m, at, 2)
U32(m, at) == Be(m, at, 4)
U64(m, at) == Be(m, at, 8)

\* Mutant of U48: the two bytes are not shifted out.
U48Unshifted(m, at) ==
  LET v == Native(Bytes(m, at, 6) \o <<0, 0>>) IN IF LittleEndian THEN Sx!Reverse(v) ELSE v

\* u48(): six bytes copied over a zero of eight, swapped, and two bytes shifted out.
U48(m, at) ==
  LET v == Native(Bytes(m, at, 6) \o <<0, 0>>)
  IN <<0, 0>> \o SubSeq(IF LittleEndian THEN Sx!Reverse(v) ELSE v, 1, 6)

Ch(m, at) == m[at + 1]
Alpha(m, at, n) == Bytes(m, at, n)

\* price4(): 32 unsigned bits in 64 signed ones.
Price4(m, at) == <<0, 0, 0, 0>> \o U32(m, at)

\* view(): without the blanks at the end.
Blank == 32
View(a) == SubSeq(a, 1, Sx!SelectLastInSeq(a, LAMBDA c : c # Blank))

-----------------------------------------------------------------------------
(* decode().                                                               *)

Header(m) == [locate |-> U16(m, 1), tracking |-> U16(m, 3), timestamp |-> U48(m, 5)]

\* AddOrder::decode(): only an attributed order has an mpid on the wire.
Add(m, attributed) ==
  [ref |-> U64(m, 11), side |-> Ch(m, 19), shares |-> U32(m, 20), stock |-> Alpha(m, 24, 8),
   price |-> Price4(m, 32), attributed |-> attributed,
   mpid |-> IF attributed THEN Alpha(m, 36, 4) ELSE <<Blank, Blank, Blank, Blank>>]

Event(m) == [event |-> Ch(m, 11)]

Directory(m) ==
  [stock |-> Alpha(m, 11, 8), market_category |-> Ch(m, 19), financial_status |-> Ch(m, 20),
   round_lot_size |-> U32(m, 21), round_lots_only |-> Ch(m, 25) = Code.Y,
   issue_classification |-> Ch(m, 26), issue_subtype |-> Alpha(m, 27, 2),
   authenticity |-> Ch(m, 29), short_sale_threshold |-> Ch(m, 30), ipo_flag |-> Ch(m, 31),
   luld_tier |-> Ch(m, 32), etp_flag |-> Ch(m, 33), etp_leverage |-> U32(m, 34),
   inverse |-> Ch(m, 38)]

\* The messages that change orders.
OrderBody(t, m) ==
  CASE t = "A" -> Add(m, FALSE)
    [] t = "F" -> Add(m, TRUE)
    [] t = "E" -> [ref |-> U64(m, 11), shares |-> U32(m, 19), match |-> U64(m, 23)]
    [] t = "C" -> [ref |-> U64(m, 11), shares |-> U32(m, 19), match |-> U64(m, 23),
                   printable |-> Ch(m, 31) = Code.Y, price |-> Price4(m, 32)]
    [] t = "X" -> [ref |-> U64(m, 11), shares |-> U32(m, 19)]
    [] t = "D" -> [ref |-> U64(m, 11)]
    [] t = "U" -> [old_ref |-> U64(m, 11), new_ref |-> U64(m, 19), shares |-> U32(m, 27),
                   price |-> Price4(m, 31)]

\* Trades and trading actions; byte 20 of the latter is reserved.
TradeBody(t, m) ==
  CASE t = "P" -> [ref |-> U64(m, 11), side |-> Ch(m, 19), shares |-> U32(m, 20),
                   stock |-> Alpha(m, 24, 8), price |-> Price4(m, 32), match |-> U64(m, 36)]
    [] t = "Q" -> [shares |-> U64(m, 11), stock |-> Alpha(m, 19, 8), price |-> Price4(m, 27),
                   match |-> U64(m, 31), cross_type |-> Ch(m, 39)]
    [] t = "B" -> [match |-> U64(m, 11)]
    [] t = "H" -> [stock |-> Alpha(m, 11, 8), state |-> Ch(m, 19), reason |-> Alpha(m, 21, 4)]

\* Imbalances and restrictions.
OtherBody(t, m) ==
  CASE t = "I" -> [paired |-> U64(m, 11), imbalance |-> U64(m, 19), direction |-> Ch(m, 27),
                   stock |-> Alpha(m, 28, 8), far_price |-> Price4(m, 36),
                   near_price |-> Price4(m, 40), reference_price |-> Price4(m, 44),
                   cross_type |-> Ch(m, 48), variation |-> Ch(m, 49)]
    [] t = "Y" -> [stock |-> Alpha(m, 11, 8), action |-> Ch(m, 19)]
    [] t = "h" -> [stock |-> Alpha(m, 11, 8), market |-> Ch(m, 19), action |-> Ch(m, 20)]
    [] t = "J" -> [stock |-> Alpha(m, 11, 8), reference_price |-> Price4(m, 19),
                   upper |-> Price4(m, 23), lower |-> Price4(m, 27), extension |-> U32(m, 31)]

OrderTypes == {"A", "F", "E", "C", "X", "D", "U"}
TradeTypes == {"P", "H", "Q", "B"}
OtherTypes == {"I", "Y", "h", "J"}
Decodable  == OrderTypes \cup TradeTypes \cup OtherTypes \cup {"S", "R"}

Body(t, m) ==
  CASE t = "S" -> Event(m) [] t = "R" -> Directory(m) [] t \in OrderTypes -> OrderBody(t, m)
    [] t \in TradeTypes -> TradeBody(t, m) [] t \in OtherTypes -> OtherBody(t, m)

Decoded(m) ==
  LET t == Letter(m[1]) IN [type |-> t, hdr |-> Header(m), body |-> Body(t, m)]

-----------------------------------------------------------------------------
(* The encoder: the fields in the order of the format, each as wide as its *)
(* value, a price in its lower half, a flag as Y or N.  What the tests     *)
(* always write alike may be anything here.                                *)

Lower(v, n) == SubSeq(v, Len(v) - n + 1, Len(v))
Flag(b) == IF b THEN Code.Y ELSE Code.N

EncodedBody(t, b) ==
  CASE t \in {"A", "F"} ->
         b.ref \o <<b.side>> \o b.shares \o b.stock \o Lower(b.price, 4)
         \o (IF t = "F" THEN b.mpid ELSE <<>>)
    [] t = "E" -> b.ref \o b.shares \o b.match
    [] t = "C" -> b.ref \o b.shares \o b.match \o <<Flag(b.printable)>> \o Lower(b.price, 4)
    [] t = "X" -> b.ref \o b.shares
    [] t = "D" -> b.ref
    [] t = "U" -> b.old_ref \o b.new_ref \o b.shares \o Lower(b.price, 4)
    [] t = "P" -> b.ref \o <<b.side>> \o b.shares \o b.stock \o Lower(b.price, 4) \o b.match
    [] t = "Q" -> b.shares \o b.stock \o Lower(b.price, 4) \o b.match \o <<b.cross_type>>
    [] t = "B" -> b.match
    [] t = "H" -> b.stock \o <<b.state, Blank>> \o b.reason
    [] t = "h" -> b.stock \o <<b.market, b.action>>
    [] t = "S" -> <<b.event>>
    [] t = "R" ->
         b.stock \o <<b.market_category, b.financial_status>> \o b.round_lot_size
         \o <<Flag(b.round_lots_only), b.issue_classification>> \o b.issue_subtype
         \o <<b.authenticity, b.short_sale_threshold, b.ipo_flag, b.luld_tier, b.etp_flag>>
         \o b.etp_leverage \o <<b.inverse>>
    [] t = "I" ->
         b.paired \o b.imbalance \o <<b.direction>> \o b.stock \o Lower(b.far_price, 4)
         \o Lower(b.near_price, 4) \o Lower(b.reference_price, 4) \o <<b.cross_type, b.variation>>
    [] t = "Y" -> b.stock \o <<b.action>>
    [] t = "J" -> b.stock \o Lower(b.reference_price, 4) \o Lower(b.upper, 4) \o Lower(b.lower, 4)
                  \o b.extension

Encoded(msg) ==
  <<Code[msg.type]>> \o msg.hdr.locate \o msg.hdr.tracking \o Lower(msg.hdr.timestamp, 6)
  \o EncodedBody(msg.type, msg.body)
=============================================================================
